------------------------------- MODULE Results ------------------------------
(***************************************************************************)
(* Package standard/txresult: what New reads from the log of a transaction *)
(* made of the standard contracts and of others.  A log entry is its type  *)
(* code, its second field (the seed of the contract that logged it, or of  *)
(* that contract's caller) and its third.  LogPos counts from 1.           *)
(***************************************************************************)
EXTENDS Integers, SequencesExt, Calls

CONSTANTS MaxParts   \* bound: contracts run by a transaction

Entry(code, seed, data) == [code |-> code, seed |-> seed, data |-> data]

(***************************************************************************)
(* What each contract logs when it is the kth of a transaction, and the    *)
(* contract whose stack New looks at.  Reference data, token tags, IDs and *)
(* values are told apart by k.  A transaction's own program has the seed   *)
(* "tx"; the contracts called "other" are not standard.                    *)
(***************************************************************************)
refdata(k) == <<"refdata", k>>
tags(k) == <<"tags", k>>
id(k) == <<"id", k>>
value(k) == <<"value", k>>

\* payToMultisigProg1: get get get get log, output.
payToMultisigProg1(k) == <<Entry("L", "pay1", refdata(k)), Entry("O", "tx", id(k))>>
\* payToMultisigProg2: the token tags are logged first.
payToMultisigProg2(k) == <<Entry("L", "pay2", tags(k)), Entry("L", "pay2", refdata(k)), Entry("O", "tx", id(k))>>
\* SpendMultisig's input, and get log of payToMultisigProgUnlock.
spendMultisig(pay, k) == <<Entry("I", "tx", id(k)), Entry("L", pay, refdata(k))>>
\* The asset contracts: issue, get log.
assetProg(asset, k) == <<Entry("A", "tx", value(k)), Entry("L", asset, refdata(k))>>
\* The asset contract that is given no zero value makes a nonce first.
assetProgNonce(asset, k) == <<Entry("N", "tx", asset), Entry("R", asset, 0)>> \o assetProg(asset, k)
\* retireSrc: get retire, get log.
retireContract(k) == <<Entry("X", "retire", value(k)), Entry("L", "retire", refdata(k))>>

PartKinds == {"pay1", "pay2", "spend1", "spend2", "asset1", "asset2", "retire",
          "otherOutput", "otherInput", "otherIssue", "otherRetire", "otherLog"}
PartLog(kind, k) ==
  CASE kind = "pay1" -> payToMultisigProg1(k)
    [] kind = "pay2" -> payToMultisigProg2(k)
    [] kind = "spend1" -> spendMultisig("pay1", k)
    [] kind = "spend2" -> spendMultisig("pay2", k)
    [] kind = "asset1" -> assetProg("asset1", k)
    [] kind = "asset2" -> assetProgNonce("asset2", k)
    [] kind = "retire" -> retireContract(k)
    [] kind = "otherOutput" -> <<Entry("O", "tx", id(k))>>
    [] kind = "otherInput" -> <<Entry("I", "tx", id(k))>>
    [] kind = "otherIssue" -> <<Entry("A", "tx", value(k))>>
    [] kind = "otherRetire" -> <<Entry("X", "tx", value(k))>>
    [] kind = "otherLog" -> <<Entry("L", "other", refdata(k))>>

seedOf(kind) == CASE kind \in {"pay1", "spend1"} -> "pay1" [] kind \in {"pay2", "spend2"} -> "pay2" [] OTHER -> "other"

\* The transaction: its log, and its entries of a code with the contract that
\* stands behind each.
logBefore(parts, k) == FlattenSeq([i \in 1..(k - 1) |-> PartLog(parts[i], i)])
txLog(parts, ref) ==
  logBefore(parts, Len(parts) + 1)
    \o (IF ref THEN <<Entry("L", "tx", refdata(0))>> ELSE <<>>) \o <<Entry("F", "tx", 0)>>
entriesOf(log, parts, code) ==
  LET at(k) == {i \in DOMAIN PartLog(parts[k], k) : PartLog(parts[k], k)[i].code = code}
      ks == SelectSeq([k \in DOMAIN parts |-> k], LAMBDA k : at(k) # {})
  IN  [n \in DOMAIN ks |-> [k |-> ks[n], seed |-> seedOf(parts[ks[n]]),
                            logPos |-> Len(logBefore(parts, ks[n])) + CHOOSE i \in at(ks[n]) : TRUE]]

-----------------------------------------------------------------------------
None == <<"none">>
PayToMultisigSeeds == {"pay1", "pay2"}

\* logTuple(t, nil), and logTuple(t, &seed).
isLog(entry) == entry.code = "L"
isLogOf(entry, seed) == isLog(entry) /\ entry.seed = seed

outputVersion(seed) == CASE seed = "pay1" -> 1 [] seed = "pay2" -> 2 [] OTHER -> 0

\* Fault: the token tags are looked for next to the output.
addOutputMeta_TagsLast(log, out) ==
  [version |-> outputVersion(out.seed),
   tags |-> IF out.seed = "pay2" THEN log[out.logPos - 1].data ELSE None,
   refdata |-> IF out.seed \in PayToMultisigSeeds THEN log[out.logPos - 1].data ELSE None,
   value |-> IF out.seed \in PayToMultisigSeeds THEN value(out.k) ELSE None]

addOutputMeta(log, out) ==
  LET found == out.seed \in PayToMultisigSeeds
                 /\ (out.seed = "pay2" => isLog(log[out.logPos - 2])) /\ isLog(log[out.logPos - 1])
  IN  [version |-> outputVersion(out.seed),
       tags |-> IF out.seed = "pay2" /\ isLog(log[out.logPos - 2]) THEN log[out.logPos - 2].data ELSE None,
       refdata |-> IF found THEN log[out.logPos - 1].data ELSE None,
       value |-> IF found THEN value(out.k) ELSE None]

\* Only the seed of the next entry tells whether the input is a standard one.
addInputMeta(log, in) ==
  LET next == log[in.logPos + 1]
      found == in.logPos + 1 <= Len(log) /\ next.seed \in PayToMultisigSeeds
  IN  [refdata |-> IF found THEN next.data ELSE None, value |-> IF found THEN value(in.k) ELSE None]

addIssueMeta(log, iss) ==
  LET next == log[iss.logPos + 1]
      found == iss.logPos + 1 <= Len(log) /\ (isLogOf(next, "asset2") \/ isLogOf(next, "asset1"))
  IN  [refdata |-> IF found THEN next.data ELSE None, value |-> value(iss.k)]

addRetireMeta(log, ret) ==
  LET next == log[ret.logPos + 1]
      found == ret.logPos + 1 <= Len(log) /\ isLogOf(next, "retire")
  IN  [refdata |-> IF found THEN next.data ELSE None, value |-> value(ret.k)]

\* The entry before the last, whoever logged it.
addFinalizeMeta(log) ==
  IF Len(log) > 1 /\ isLog(log[Len(log) - 1]) THEN log[Len(log) - 1].data ELSE None

NewResult(log, parts) ==
  LET each1(code, meta(_, _)) ==
        LET es == entriesOf(log, parts, code) IN [n \in DOMAIN es |-> meta(log, es[n])]
  IN  [outputs |-> each1("O", addOutputMeta), inputs |-> each1("I", addInputMeta),
       issuances |-> each1("A", addIssueMeta), retirements |-> each1("X", addRetireMeta),
       refdata |-> addFinalizeMeta(log)]

ResultsNext ==
  Idle /\ \E parts \in SeqOf(PartKinds, MaxParts), ref \in BOOLEAN :
    Eval("results", <<parts, ref>>, NewResult(txLog(parts, ref), parts))

-----------------------------------------------------------------------------
(***************************************************************************)
(* In a transaction of standard and other contracts in any order, every    *)
(* record gets the reference data, token tags and value of its own         *)
(* contract, although New finds them by their distance in the log; one of  *)
(* another contract gets none.  Two cases are left out, in which New takes *)
(* what is next to it for its own: another contract's input just before a  *)
(* payment, and no reference data before finalize but some other log item. *)
(***************************************************************************)
Own(parts, kinds, record(_)) ==
  LET ks == SelectSeq([k \in DOMAIN parts |-> k], LAMBDA k : parts[k] \in kinds) IN [n \in DOMAIN ks |-> record(ks[n])]

ResultsOwn ==
  After("results", LAMBDA x, r :
    LET parts == x[1]
        if(cond, v) == IF cond THEN v ELSE None
        std(k) == parts[k] \in {"pay1", "pay2", "spend1", "spend2", "asset1", "asset2", "retire"}
        meta(k) == [refdata |-> if(std(k), refdata(k)), value |-> value(k)]
    IN  (\A k \in 1..(Len(parts) - 1) : ~(parts[k] = "otherInput" /\ parts[k + 1] \in {"pay1", "pay2"})) =>
          /\ r.outputs = Own(parts, {"pay1", "pay2", "otherOutput"}, LAMBDA k :
               [version |-> outputVersion(parts[k]), tags |-> if(parts[k] = "pay2", tags(k)),
                refdata |-> if(std(k), refdata(k)), value |-> if(std(k), value(k))])
          /\ r.inputs = Own(parts, {"spend1", "spend2", "otherInput"}, LAMBDA k :
               [refdata |-> if(std(k), refdata(k)), value |-> if(std(k), value(k))])
          /\ r.issuances = Own(parts, {"asset1", "asset2", "otherIssue"}, meta)
          /\ r.retirements = Own(parts, {"retire", "otherRetire"}, meta)
          /\ x[2] => r.refdata = refdata(0))
=============================================================================
