----------------------------- MODULE Validation -----------------------------
(***************************************************************************)
(* Block validation (package protocol/validation) over the block records   *)
(* of module Snapshot.  The transactions root is not a field of its own:   *)
(* in this model a header fixes its transactions, so BlockOnly's           *)
(* comparison of the two roots always succeeds and is left out, as is its  *)
(* test for unknown header fields, which no block here has.                *)
(***************************************************************************)
EXTENDS Snapshot

BlockPrev(b, prev) ==
  /\ b.version >= prev.version
  /\ b.height = prev.height + 1
  /\ b.prev = BlockID(prev)
  /\ b.timestampMS > prev.timestampMS
  /\ b.refsCount <= prev.refsCount + 1

\* The loop subtracts each transaction's runlimit and fails as soon as the
\* rest is negative.
BlockOnly(b) ==
  LET spend(acc, tx) == [ok   |-> acc.ok /\ acc.rest - tx.runlimit >= 0,
                         rest |-> acc.rest - tx.runlimit]
  IN  /\ b.version = 3 => \A i \in DOMAIN b.txs : b.txs[i].version = 3
      /\ FoldLeft(spend, [ok |-> TRUE, rest |-> b.runlimit], b.txs).ok

ValidateBlock(b, prev) ==
  /\ b.height > 1 => prev # NilHeader /\ BlockPrev(b, prev)
  /\ BlockOnly(b)
=============================================================================
