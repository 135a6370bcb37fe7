------------------------------ MODULE MCChain -------------------------------
(***************************************************************************)
(* Instances of Chain for TLC.  Two kinds of transaction: Issue is         *)
(* anchored by a nonce that expires at expMS and makes a contract; Pay     *)
(* spends a contract and makes another.  As in TxVM, a nonce's ID is a     *)
(* hash of its fields and a contract's ID descends from the anchor of its  *)
(* transaction, so different transactions make different contracts.        *)
(***************************************************************************)
EXTENDS ChainLedger, TLC

CONSTANTS p1, p2, g1, g2, w1, w2

Issue(ref, expMS) ==
  [version |-> 3, runlimit |-> 1,
   nonces |-> <<[id |-> expMS, block |-> ref, expMS |-> expMS]>>,
   timeranges |-> <<[minMS |-> 0, maxMS |-> expMS]>>,
   contracts |-> <<[type |-> "output", id |-> expMS]>>]

Pay(c) ==
  [version |-> 3, runlimit |-> 1, nonces |-> <<>>, timeranges |-> <<>>,
   contracts |-> <<[type |-> "input", id |-> c],
                   [type |-> "output", id |-> c + 10]>>]

OneProc == (g1 :> p1) @@ (g2 :> p1) @@ (w1 :> p1) @@ (w2 :> p1)
TwoProcs == (g1 :> p1) @@ (g2 :> p2) @@ (w1 :> p1) @@ (w2 :> p2)
Procs1 == [x \in Goroutines \cup Waiters |-> OneProc[x]]
Procs2 == [x \in Goroutines \cup Waiters |-> TwoProcs[x]]

\* The processes, with their goroutines, and the goroutines of one process
\* are interchangeable.
Swap(S) == LET f == (p1 :> p2) @@ (p2 :> p1) @@ (g1 :> g2) @@ (g2 :> g1)
           IN  {[x \in S |-> x], [x \in S |-> f[x]]}
SwapProcs == Swap({p1, p2, g1, g2})
SwapGoroutines == Swap({g1, g2})

NoTxs == {<<>>}
OneBatch == {<<Issue(ZeroID, 2), Pay(2)>>}
TwoBatches == {<<>>, <<Issue(ZeroID, 2), Pay(2)>>}

\* For the transaction rules: replays within a block and across blocks, a
\* payment before and after what it spends, a nonce on the initial block
\* that expires while the chain grows.
Initial == BlockID(NewInitialBlock(InitialTimeMS))
ReplayBatches == {<<Issue(Initial, 3), Issue(Initial, 3)>>,
                  <<Pay(3), Issue(ZeroID, 4)>>,
                  <<Issue(Initial, 3), Pay(3), Pay(3), Pay(4)>>}
ZeroExpBatches == {<<Issue(ZeroID, 0)>>}

\* All but the last are anchored: there the time range has no end.
ASSUME Anchored(Pool) <=> Batches # ZeroExpBatches
=============================================================================
