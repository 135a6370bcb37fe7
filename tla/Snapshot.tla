------------------------------ MODULE Snapshot ------------------------------
(***************************************************************************)
(* The blockchain state of package protocol/state: the snapshot record and *)
(* the functions that bring it from one block to the next.                 *)
(*                                                                         *)
(* Data abstractions.  A patricia tree is the set of its items and its     *)
(* root hash is that same set; a block's hash is an injective constructor  *)
(* around the block.  Both say that the hash functions have no collisions. *)
(* A header and its block are one record: the header holds the merkle root *)
(* of the transactions, which under the same assumption fixes them.        *)
(*                                                                         *)
(* A transaction is a record                                               *)
(*    nonces      sequence of [id, block, expMS]                           *)
(*    timeranges  sequence of [minMS, maxMS]                               *)
(*    contracts   sequence of [type, id], type "input" or "output"         *)
(*    version, runlimit                                                    *)
(* as filled in by bc.NewTx from the log of the transaction program.       *)
(***************************************************************************)
EXTENDS Integers, Sequences, Functions

\* A loop over a sequence, from left to right.
FoldLeft(op(_, _), base, seq) ==
  LET after[n \in 0..Len(seq)] ==
        IF n = 0 THEN base ELSE op(after[n - 1], seq[n])
  IN  after[Len(seq)]

\* The lists of a transaction are sequences, its times integers; what runs
\* took at least nothing.
IsTx(tx) ==
  /\ tx.nonces \in Seq(Range(tx.nonces))
  /\ tx.timeranges \in Seq(Range(tx.timeranges))
  /\ tx.contracts \in Seq(Range(tx.contracts))
  /\ tx.runlimit \in Nat
  /\ \A n \in Range(tx.nonces) : n.expMS \in Int
  /\ \A r \in Range(tx.timeranges) : r.minMS \in Int /\ r.maxMS \in Int

ZeroID == <<>>

BlockID(b) == <<b>>

\* What Snapshot.Height and TimestampMS read from a nil header.
NilHeader ==
  [version |-> 0, height |-> 0, prev |-> ZeroID, timestampMS |-> 0,
   refsCount |-> 0, runlimit |-> 0, txs |-> <<>>,
   contractsRoot |-> {}, noncesRoot |-> {}]

Empty ==
  [contracts |-> {}, nonces |-> {}, header |-> NilHeader,
   initial |-> ZeroID, refs |-> <<>>]

Height(s) == s.header.height

TimestampMS(s) == s.header.timestampMS

NonceCommitment(n) == [id |-> n.id, expMS |-> n.expMS]

\* Fault: a nonce is forgotten at the last moment it is needed.
PruneNonces_TooEarly(s, timestampMS) ==
  [s EXCEPT !.nonces = {nc \in @ : timestampMS < nc.expMS}]

PruneNonces(s, timestampMS) ==
  [s EXCEPT !.nonces = {nc \in @ : ~(timestampMS > nc.expMS)}]

ApplyBlockHeader(s, b) ==
  [ok   |-> (s.initial = ZeroID) <=> (b.height = 1),
   snap |-> [s EXCEPT !.header  = b,
                      !.initial = IF @ = ZeroID THEN BlockID(b) ELSE @,
                      !.refs    = Append(@, BlockID(b))]]

-----------------------------------------------------------------------------
(***************************************************************************)
(* The two trees while transactions are applied to them.  ok turns FALSE   *)
(* at the first error and stays so.                                        *)
(***************************************************************************)
TreesOf(s) == [ok |-> TRUE, contracts |-> s.contracts, nonces |-> s.nonces]

RefersToBlock(s, n) ==
  \/ n.block \in {ZeroID, s.initial}
  \/ n.block \in Range(s.refs)

AddNonce(s, t, n) ==
  [t EXCEPT !.ok     = @ /\ NonceCommitment(n) \notin t.nonces
                         /\ RefersToBlock(s, n),
            !.nonces = @ \cup {NonceCommitment(n)}]

MoveContract(t, c) ==
  IF c.type = "input"
  THEN [t EXCEPT !.ok        = @ /\ c.id \in t.contracts,
                 !.contracts = @ \ {c.id}]
  ELSE [t EXCEPT !.contracts = @ \cup {c.id}]

\* ApplyTx works on copies of the trees and installs them at the end: a
\* transaction that fails leaves both as they were.
ApplyTx(s, t, tx) ==
  LET addNonce(a, n) == AddNonce(s, a, n)
      nonced == FoldLeft(addNonce, t, tx.nonces)
      moved  == FoldLeft(MoveContract, nonced, tx.contracts)
  IN  IF s.initial # ZeroID /\ moved.ok THEN moved
                                        ELSE [t EXCEPT !.ok = FALSE]

ApplyTxs(s, txs) ==
  LET apply(t, tx) == IF t.ok THEN ApplyTx(s, t, tx) ELSE t
  IN  FoldLeft(apply, TreesOf(s), txs)

\* Fault: expired nonces are not pruned on replay.
ApplyBlock_NoPrune(s, b) ==
  LET headed == ApplyBlockHeader(s, b)
      trees  == ApplyTxs(headed.snap, b.txs)
  IN  [ok   |-> headed.ok /\ trees.ok,
       snap |-> [headed.snap EXCEPT !.contracts = trees.contracts,
                                    !.nonces    = trees.nonces]]

ApplyBlock(s, b) ==
  LET headed == ApplyBlockHeader(PruneNonces(s, b.timestampMS), b)
      trees  == ApplyTxs(headed.snap, b.txs)
  IN  [ok   |-> headed.ok /\ trees.ok,
       snap |-> [headed.snap EXCEPT !.contracts = trees.contracts,
                                    !.nonces    = trees.nonces]]

-----------------------------------------------------------------------------
(***************************************************************************)
(* Which transactions exclude each other.                                  *)
(***************************************************************************)
Inputs(tx)  == {c.id : c \in {d \in Range(tx.contracts) : d.type = "input"}}
Outputs(tx) == {c.id : c \in {d \in Range(tx.contracts) : d.type # "input"}}

\* A time range of tx has passed by the time nonce n is forgotten.
Covered(tx, n) ==
  \E r \in Range(tx.timeranges) : 0 < r.maxMS /\ r.maxMS <= n.expMS

\* Both have the same nonce, or both spend a contract that neither makes.
Conflict(t, u) ==
  \/ \E n \in Range(t.nonces), m \in Range(u.nonces) :
       /\ NonceCommitment(n) = NonceCommitment(m)
       /\ Covered(t, n) /\ Covered(u, m)
  \/ \E c \in Inputs(t) \ Outputs(t) : c \in Inputs(u) \ Outputs(u)

\* Every transaction of P has an anchor, a nonce or a contract it spends,
\* and only transactions with the same anchor make the same contract.
Anchored(P) ==
  \A t, u \in P :
    t = u \/ Outputs(t) \cap Outputs(u) # {} => Conflict(t, u)
=============================================================================
