----------------------------- MODULE Generator ------------------------------
(***************************************************************************)
(* The pure part of GenerateBlock of package protocol: from a state, a     *)
(* time and the pending transactions, the next block and the state after   *)
(* it; and the block that starts a chain.                                  *)
(***************************************************************************)
EXTENDS Validation

CONSTANTS
  MaxBlockTxs,     \* transactions per block
  MaxBlockWindow,  \* Chain.MaxBlockWindow
  MaxNonceWindow,  \* Chain.MaxNonceWindow, 0 for no limit
  MaxRunlimit      \* runlimit of a block

ASSUME GeneratorAssumption == MaxBlockWindow \in Nat

CheckTransactionTime(tx, blockTimeMS) ==
  /\ \A i \in DOMAIN tx.timeranges :
       LET tr == tx.timeranges[i]
       IN  /\ ~(tr.maxMS > 0 /\ blockTimeMS > tr.maxMS)
           /\ ~(tr.minMS > 0 /\ blockTimeMS > 0 /\ blockTimeMS < tr.minMS)
  /\ MaxNonceWindow > 0 =>
       \A i \in DOMAIN tx.nonces :
         ~(tx.nonces[i].expMS > MaxNonceWindow + blockTimeMS)

\* The loop over the pending transactions: those that pass every test, in
\* order, and the trees after them.
PickTxs(pruned, timestampMS, txs) ==
  LET pick(acc, tx) ==
        LET t == ApplyTx(pruned, acc.trees, tx)
        IN  IF \/ Len(acc.txs) >= MaxBlockTxs
               \/ ~CheckTransactionTime(tx, timestampMS)
               \/ acc.runlimit + tx.runlimit > MaxRunlimit
               \/ ~t.ok
            THEN acc
            ELSE [trees |-> t, txs |-> Append(acc.txs, tx),
                  runlimit |-> acc.runlimit + tx.runlimit]
  IN  FoldLeft(pick, [trees |-> TreesOf(pruned), txs |-> <<>>, runlimit |-> 0],
               txs)

\* base is c.state.snapshot, prev the header of the snapshot argument.
GenerateBlock(base, prev, timestampMS, txs) ==
  LET pruned == PruneNonces(base, timestampMS)
      picked == PickTxs(pruned, timestampMS, txs)
      b == [version |-> 3, height |-> prev.height + 1, prev |-> BlockID(prev),
            timestampMS |-> timestampMS,
            refsCount |-> IF prev.refsCount < MaxBlockWindow
                          THEN prev.refsCount + 1 ELSE MaxBlockWindow,
            runlimit |-> picked.runlimit, txs |-> picked.txs,
            contractsRoot |-> picked.trees.contracts,
            noncesRoot |-> picked.trees.nonces]
      headed == ApplyBlockHeader([pruned EXCEPT
                                    !.contracts = picked.trees.contracts,
                                    !.nonces    = picked.trees.nonces], b)
  IN  [ok |-> headed.ok, block |-> b, snap |-> headed.snap]

NewInitialBlock(timestampMS) ==
  [version |-> 3, height |-> 1, prev |-> ZeroID, timestampMS |-> timestampMS,
   refsCount |-> 0, runlimit |-> 0, txs |-> <<>>,
   contractsRoot |-> {}, noncesRoot |-> {}]

(***************************************************************************)
(* The state that the blocks bl[1] .. bl[h] commit to.                     *)
(***************************************************************************)
StateAt(bl, h) ==
  IF h = 0 THEN Empty
  ELSE [contracts |-> bl[h].contractsRoot,
        nonces    |-> bl[h].noncesRoot,
        header    |-> bl[h],
        initial   |-> BlockID(bl[1]),
        refs      |-> [i \in 1..h |-> BlockID(bl[i])]]
=============================================================================
