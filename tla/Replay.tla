------------------------------- MODULE Replay -------------------------------
(***************************************************************************)
(* What it means that a block replays: the notions in which the proofs     *)
(* about Chain and the proofs about GenerateBlock meet.                    *)
(***************************************************************************)
EXTENDS Generator

\* A snapshot, by its fields.
State(contracts, nonces, header, initial, refs) ==
  [contracts |-> contracts, nonces |-> nonces, header |-> header,
   initial |-> initial, refs |-> refs]

IsState(s) == s = State(s.contracts, s.nonces, s.header, s.initial, s.refs)

\* Block b is valid after the state s and brings it to s2.
Replays(s, b, s2) ==
  /\ ValidateBlock(b, s.header)
  /\ ApplyBlock(s, b) = [ok |-> TRUE, snap |-> s2]
  /\ b.version = 3 /\ b.refsCount \in Nat

\* Transactions that a block of version 3 may hold.
IsPool(P) == \A tx \in P : IsTx(tx) /\ tx.version = 3

\* The transactions of b are from P and in time.
RightTxs(P, b) ==
  /\ b.txs \in Seq(P)
  /\ \A tx \in Range(b.txs) : CheckTransactionTime(tx, b.timestampMS)

\* Put(bl, b), the blocks bl with b at its height, is what SaveBlock makes
\* of bl.
Put(bl, b) ==
  [h \in DOMAIN bl \cup {b.height} |-> IF h = b.height THEN b ELSE bl[h]]

\* A generator at the state s makes a block that is valid after s, and the
\* state it computes is the one that replaying the block computes.
GeneratedBlocksReplay ==
  \A s, S, ts, P, txs, m :
    /\ IsState(s) /\ s.initial # ZeroID /\ s.refs \in Seq(S)
    /\ s.header.height \in Nat \ {0} /\ s.header.timestampMS \in Nat
    /\ s.header.version = 3 /\ s.header.refsCount \in Nat
    /\ ts \in Nat /\ ts > s.header.timestampMS
    /\ IsPool(P) /\ txs \in Seq(P)
    /\ m = GenerateBlock(s, s.header, ts, txs)
    => /\ Replays(s, m.block, m.snap) /\ RightTxs(P, m.block)
       /\ m.snap = State(m.block.contractsRoot, m.block.noncesRoot, m.block,
                         s.initial, Append(s.refs, BlockID(m.block)))

\* The block that starts a chain brings the empty state to the one that the
\* block commits to.
InitialBlockReplays ==
  \A ts, P, b :
    b = NewInitialBlock(ts) =>
      /\ Replays(Empty, b, State({}, {}, b, BlockID(b),
                                 Append(Empty.refs, BlockID(b))))
      /\ RightTxs(P, b)
=============================================================================
