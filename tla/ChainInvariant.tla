--------------------------- MODULE ChainInvariant ---------------------------
(***************************************************************************)
(* Proofs about module Chain, for all processes, goroutines, waiters,      *)
(* batches of transactions and bounds.                                     *)
(*                                                                         *)
(* The inductive invariant IInv says, of each place a snapshot can be in,  *)
(* how it relates to the stored blocks.  Its parts take the state they     *)
(* speak of as parameters, so that "this part still holds although the     *)
(* store and the Chain have moved on" is a lemma (the ...Mono lemmas), and *)
(* an action's proof deals only with what the action itself changes.       *)
(*                                                                         *)
(* ReplayInv, on top of it, says that what GenerateBlock makes replays and *)
(* so does everything in the store; every step preserves it if signers     *)
(* sign only blocks whose roots they computed.                             *)
(***************************************************************************)
EXTENDS Chain, Replay, TLAPS

Grows(bl, bl2) == \A h \in DOMAIN bl : h \in DOMAIN bl2 /\ bl2[h] = bl[h]

StoreInv(bl) ==
  /\ \E n \in 0..MaxHeight : DOMAIN bl = 1..n
  /\ \A h \in DOMAIN bl : bl[h].height = h /\ bl[h].timestampMS \in Nat

Good(bl, s) == IsSnapshot(s) /\ Matches(bl, s)

GoodQueue(bl, q) == q = <<>> \/ (q = <<q[1]>> /\ Good(bl, q[1]))

\* A process whose height is h, state cur, channel pend and saver sav.
ProcInv(bl, h, cur, pend, sav) ==
  /\ h \in DOMAIN bl \cup {0}
  /\ Good(bl, cur)
  /\ Height(cur) <= h
  /\ GoodQueue(bl, pend)
  /\ GoodQueue(bl, sav)

\* A goroutine at label l with block b and snapshot s, while the state of
\* its Chain is cur.  A block about to be saved either is not news to the
\* Chain, and then s will not be used, or s is right once b is in the store.
CallInv(bl, cur, l, b, s) ==
  /\ IsSnapshot(s)
  /\ l = "idle" => b = NilHeader
  /\ l = "saved" =>
       /\ b.height \in DOMAIN bl /\ bl[b.height] = b
       /\ b.height <= Height(cur) + 1
  /\ l = "generate" =>
       /\ Matches(bl, s)
       /\ Height(s) \in 1..(MaxHeight - 1)
       /\ Height(s) <= Height(cur)
  /\ l = "save" =>
       /\ b.height \in 1..MaxHeight
       /\ b.height - 1 \in DOMAIN bl \cup {0}
       /\ b.timestampMS \in Nat
       /\ b.height <= Height(cur) \/ (s.header = b /\ Matches(Put(bl, b), s))
  /\ l = "applied" =>
       /\ b.height \in DOMAIN bl
       /\ b.height <= Height(cur) \/ (s.header = b /\ Matches(bl, s))
  /\ l \in {"finalize", "queue", "mark", "set", "announce"} =>
       Matches(bl, s) /\ Height(s) >= 1
  /\ l \in {"loaded", "height", "replay"} => Matches(bl, s) /\ b = s.header

\* A waiter in state w on a Chain of height h of a process that runs iff u.
WaitInv(u, h, w) ==
  /\ ~u => w.pc = "idle"
  /\ w \in [pc : WaiterLabels, height : 0..MaxHeight, caller : Callers]
  /\ w.pc # "idle" => w.height >= 1
  /\ w.pc = "parked" => h < w.height
  /\ w.pc = "done" => w.height <= h
  /\ w.caller = "ok" => w.pc = "done"

Domains ==
  /\ up \in [Procs -> BOOLEAN]
  /\ DOMAIN height = Procs
  /\ DOMAIN snapshot = Procs
  /\ lastQueued \in [Procs -> Nat]
  /\ DOMAIN pending = Procs
  /\ DOMAIN saving = Procs
  /\ pc \in [Goroutines -> Labels]
  /\ DOMAIN block = Goroutines
  /\ DOMAIN work = Goroutines
  /\ goal \in [Goroutines -> 0..MaxHeight]
  /\ waiting \in [Waiters -> [pc : WaiterLabels, height : 0..MaxHeight,
                              caller : Callers]]
  /\ crashes \in Nat

ProcsInv ==
  \A p \in Procs :
    ProcInv(blocks, height[p], snapshot[p], pending[p], saving[p])

CallsInv ==
  \A g \in Goroutines :
    CallInv(blocks, snapshot[ProcOf[g]], pc[g], block[g], work[g])

WaitsInv ==
  \A w \in Waiters : WaitInv(up[ProcOf[w]], height[ProcOf[w]], waiting[w])

IInv ==
  /\ Domains
  /\ StoreInv(blocks)
  /\ Good(blocks, stored)
  /\ finalized \subseteq DOMAIN blocks
  /\ ProcsInv
  /\ CallsInv
  /\ WaitsInv

-----------------------------------------------------------------------------
\* The empty snapshot is right whatever is stored.
LEMMA EmptyGood ==
  ASSUME NEW bl
  PROVE  Good(bl, Empty) /\ Height(Empty) = 0
<1>1. Height(Empty) = 0 /\ TimestampMS(Empty) = 0
  BY Zenon DEF Empty, Height, TimestampMS, NilHeader
<1>2. IsSnapshot(Empty)
  BY <1>1, ChainAssumptions DEF IsSnapshot
<1>3. Matches(bl, Empty)
  BY Zenon, <1>1 DEF Matches, StateAt
<1> QED
  BY Zenon, <1>1, <1>2, <1>3 DEF Good

\* A right snapshot stays right when the store grows.
LEMMA GoodMono ==
  ASSUME NEW bl, NEW bl2, NEW s, StoreInv(bl), Grows(bl, bl2), Good(bl, s)
  PROVE  Good(bl2, s)
<1> DEFINE h == Height(s)
<1>1. CASE h = 0
  BY Zenon, <1>1 DEF Good, Matches, StateAt
<1>2. CASE h # 0
  <2>1. PICK n \in 0..MaxHeight : DOMAIN bl = 1..n
    BY Zenon DEF StoreInv
  <2>2. h \in 1..n /\ h \in DOMAIN bl2 /\ bl2[h] = bl[h] /\ bl2[1] = bl[1]
    BY <1>2, <2>1, ChainAssumptions DEF Good, Matches, Grows, IsSnapshot
  <2>3. [i \in 1..h |-> BlockID(bl2[i])] = [i \in 1..h |-> BlockID(bl[i])]
    BY <2>1, <2>2 DEF Grows
  <2>4. StateAt(bl2, h) = StateAt(bl, h)
    BY Zenon, <2>2, <2>3, <1>2 DEF StateAt
  <2> QED
    BY Zenon, <2>2, <2>4 DEF Good, Matches
<1> QED
  BY Zenon, <1>1, <1>2

\* So does what is queued.
LEMMA QueueMono ==
  ASSUME NEW bl, NEW bl2, NEW q, StoreInv(bl), Grows(bl, bl2), GoodQueue(bl, q)
  PROVE  GoodQueue(bl2, q)
BY Zenon, GoodMono DEF GoodQueue

\* So does what a process holds.
LEMMA ProcMono ==
  ASSUME NEW bl, NEW bl2, NEW h, NEW cur, NEW pend, NEW sav,
         StoreInv(bl), Grows(bl, bl2), ProcInv(bl, h, cur, pend, sav)
  PROVE  ProcInv(bl2, h, cur, pend, sav)
BY Zenon, GoodMono, QueueMono DEF ProcInv, Grows

\* A snapshot that would be right with b saved still would be when others have
\* saved blocks.
LEMMA PutMono ==
  ASSUME NEW bl, NEW bl2, NEW s, NEW b, StoreInv(bl), Grows(bl, bl2),
         s.header = b, b.height \in 1..MaxHeight,
         b.height - 1 \in DOMAIN bl \cup {0},
         Matches(Put(bl, b), s)
  PROVE  Matches(Put(bl2, b), s)
<1> DEFINE h == b.height
<1>1. PICK n \in 0..MaxHeight : DOMAIN bl = 1..n
  BY Zenon DEF StoreInv
<1>2. \A i \in 1..h : Put(bl2, b)[i] = Put(bl, b)[i]
  <2>1. \A i \in 1..h : i = h \/ i \in DOMAIN bl
    BY <1>1, ChainAssumptions
  <2> QED
    BY Zenon, <2>1 DEF Grows, Put
<1>3. [i \in 1..h |-> BlockID(Put(bl2, b)[i])]
        = [i \in 1..h |-> BlockID(Put(bl, b)[i])]
  BY Zenon, <1>2
<1>4. StateAt(Put(bl2, b), h) = StateAt(Put(bl, b), h)
  <2>1. h # 0 /\ h \in 1..h /\ 1 \in 1..h
    BY ChainAssumptions
  <2> QED
    BY Zenon, <1>2, <1>3, <2>1 DEF StateAt
<1>5. h \in DOMAIN Put(bl2, b)
  BY Zenon DEF Put
<1> QED
  BY Zenon, <1>4, <1>5 DEF Matches, Height

\* What a call in flight holds stays right when the store grows and the Chain
\* moves forward under it.
LEMMA CallMono ==
  ASSUME NEW bl, NEW bl2, NEW cur, NEW cur2, NEW l, NEW b, NEW s,
         StoreInv(bl), Grows(bl, bl2), IsSnapshot(cur), IsSnapshot(cur2),
         Height(cur) <= Height(cur2), CallInv(bl, cur, l, b, s)
  PROVE  CallInv(bl2, cur2, l, b, s)
<1> DEFINE M == Matches(bl, s) => Matches(bl2, s)
<1>1. IsSnapshot(s)
  BY Zenon DEF CallInv
<1>2. M
  BY Zenon, <1>1, GoodMono DEF Good
<1>3. Height(cur) \in Int /\ Height(cur2) \in Int
  BY ChainAssumptions DEF IsSnapshot
<1>4. l = "save" =>
        /\ b.height \in 1..MaxHeight
        /\ b.height - 1 \in DOMAIN bl2 \cup {0}
        /\ b.timestampMS \in Nat
        /\ b.height <= Height(cur2) \/ (s.header = b /\ Matches(Put(bl2, b), s))
  BY <1>3, PutMono, ChainAssumptions DEF CallInv, Grows
<1>5. \A h \in DOMAIN bl : h \in Int
  BY ChainAssumptions DEF StoreInv
<1>6. l = "saved" =>
       /\ b.height \in DOMAIN bl2 /\ bl2[b.height] = b
       /\ b.height <= Height(cur2) + 1
  BY <1>3, <1>5 DEF CallInv, Grows
<1>7. l = "applied" =>
       /\ b.height \in DOMAIN bl2
       /\ b.height <= Height(cur2) \/ (s.header = b /\ Matches(bl2, s))
  BY <1>2, <1>3, <1>5 DEF CallInv, Grows
<1>8. l = "generate" => Height(s) <= Height(cur2)
  BY <1>1, <1>3, ChainAssumptions DEF CallInv, IsSnapshot
<1> QED
  BY Zenon, <1>1, <1>2, <1>4, <1>6, <1>7, <1>8 DEF CallInv

-----------------------------------------------------------------------------

\* It holds at the start.
LEMMA InitInv == Init => IInv
<1> SUFFICES ASSUME Init PROVE IInv
  BY Zenon
<1>1. Domains
  BY ChainAssumptions DEF Init, Domains, Labels, WaiterLabels, Callers
<1>2. StoreInv(blocks) /\ finalized \subseteq DOMAIN blocks
  <2>1. DOMAIN blocks = 1..0 /\ DOMAIN blocks = {}
    BY DEF Init
  <2>2. 0 \in 0..MaxHeight
    BY ChainAssumptions
  <2> QED
    BY Zenon, <2>1, <2>2 DEF Init, StoreInv
<1>3. Good(blocks, stored) /\ ProcsInv
  BY EmptyGood DEF Init, ProcsInv, ProcInv, GoodQueue
<1>4. CallsInv
  BY Zenon, EmptyGood, ChainAssumptions DEF Init, CallsInv, CallInv, Good
<1>5. WaitsInv
  BY ChainAssumptions DEF Init, WaitsInv, WaitInv, WaiterLabels, Callers
<1> QED
  BY Zenon, <1>1, <1>2, <1>3, <1>4, <1>5 DEF IInv

(***************************************************************************)
(* What the pure functions do to a snapshot that matches the blocks.       *)
(***************************************************************************)
LEMMA HeadedMatches ==
  ASSUME NEW bl, NEW s, NEW b, NEW s2, StoreInv(bl), Good(bl, s),
         b.height = Height(s) + 1, b.height <= MaxHeight,
         b.timestampMS \in Nat,
         DOMAIN s2 = DOMAIN Empty,
         s2.header = b,
         s2.contracts = b.contractsRoot,
         s2.initial = IF s.initial = ZeroID THEN BlockID(b) ELSE s.initial,
         s2.refs = Append(s.refs, BlockID(b))
  PROVE  IsSnapshot(s2) /\ Matches(Put(bl, b), s2)
<1> DEFINE h == Height(s)
           bl2 == Put(bl, b)
<1>1. PICK n \in 0..MaxHeight : DOMAIN bl = 1..n
  BY Zenon DEF StoreInv
<1>2. h \in 0..n /\ h \in Nat
  BY <1>1, ChainAssumptions DEF Good, Matches, IsSnapshot
<1>3. IsSnapshot(s2)
  BY <1>2, ChainAssumptions DEF IsSnapshot, Height, TimestampMS
<1>4. /\ h + 1 \in DOMAIN bl2
      /\ bl2[h + 1] = b
      /\ \A i \in 1..h : bl2[i] = bl[i]
  BY <1>1, <1>2, ChainAssumptions DEF Put
<1>5. s.refs = [i \in 1..h |-> BlockID(bl[i])]
  <2>1. CASE h = 0
    BY <2>1 DEF Good, Matches, StateAt, Empty
  <2>2. CASE h # 0
    BY Zenon, <2>2 DEF Good, Matches, StateAt
  <2> QED BY Zenon, <2>1, <2>2
<1>6. s2.refs = [i \in 1..(h + 1) |-> BlockID(bl2[i])]
  <2>1. s2.refs = [i \in 1..(h + 1) |-> IF i <= h THEN BlockID(bl[i])
                                                 ELSE BlockID(b)]
    BY <1>2, <1>5
  <2> QED
    BY <1>2, <1>4, <2>1
<1>7. s2.initial = BlockID(bl2[1])
  <2>1. CASE h = 0
    BY <2>1, <1>4 DEF Good, Matches, StateAt, Empty
  <2>2. CASE h # 0
    <3>1. s.initial = BlockID(bl[1]) /\ s.initial # ZeroID
      BY <2>2 DEF Good, Matches, StateAt, BlockID, ZeroID
    <3> QED
      BY <2>2, <3>1, <1>2, <1>4
  <2> QED BY Zenon, <2>1, <2>2
<1>8. Height(s2) = h + 1 /\ h + 1 # 0
  BY <1>2 DEF Height
<1> QED
  BY Zenon, <1>3, <1>4, <1>6, <1>7, <1>8 DEF Matches, StateAt

\* Applying a block whose contracts root agrees gives the state that the block
\* commits to, the nonces aside.
LEMMA ApplyBlockMatches ==
  ASSUME NEW bl, NEW s, NEW b, StoreInv(bl), Good(bl, s),
         b.height = Height(s) + 1, b.height <= MaxHeight,
         b.timestampMS \in Nat,
         b.contractsRoot = ApplyBlock(s, b).snap.contracts
  PROVE  LET s2 == ApplyBlock(s, b).snap
         IN  s2.header = b /\ IsSnapshot(s2) /\ Matches(Put(bl, b), s2)
<1> DEFINE s2 == ApplyBlock(s, b).snap
           p  == PruneNonces(s, b.timestampMS)
           h  == ApplyBlockHeader(p, b).snap
<1>1. DOMAIN s = {"contracts", "nonces", "header", "initial", "refs"}
  BY Zenon DEF Good, IsSnapshot, Empty
<1>2. /\ DOMAIN p = DOMAIN s
      /\ p.initial = s.initial
      /\ p.refs = s.refs
  BY Zenon, <1>1 DEF PruneNonces
<1>3. /\ DOMAIN h = DOMAIN s
      /\ h.header = b
      /\ h.initial = IF s.initial = ZeroID THEN BlockID(b) ELSE s.initial
      /\ h.refs = Append(s.refs, BlockID(b))
  BY Zenon, <1>1, <1>2 DEF ApplyBlockHeader
<1>4. s2 = [h EXCEPT !.contracts = ApplyTxs(h, b.txs).contracts,
                     !.nonces    = ApplyTxs(h, b.txs).nonces]
  BY Zenon DEF ApplyBlock
<1> HIDE DEF h, p
<1>5. /\ DOMAIN s2 = DOMAIN s
      /\ s2.header = h.header
      /\ s2.initial = h.initial
      /\ s2.refs = h.refs
  BY Zenon, <1>1, <1>3, <1>4
<1>6. DOMAIN s2 = DOMAIN Empty
  BY Zenon, <1>1, <1>5 DEF Empty
<1> HIDE DEF s2
<1>7. s2.contracts = b.contractsRoot
  BY Zenon DEF s2
<1>8. IsSnapshot(s2) /\ Matches(Put(bl, b), s2)
  BY Zenon, <1>3, <1>5, <1>6, <1>7, HeadedMatches
<1> QED
  BY Zenon, <1>3, <1>5, <1>8 DEF s2

\* The block and the snapshot that GenerateBlock makes belong together.
LEMMA GenerateBlockFields ==
  ASSUME NEW base, NEW prev, NEW ts, NEW txs, IsSnapshot(base),
         NEW m, m = GenerateBlock(base, prev, ts, txs)
  PROVE  /\ m.block.height = prev.height + 1
         /\ m.block.timestampMS = ts
         /\ DOMAIN m.snap = DOMAIN Empty
         /\ m.snap.header = m.block
         /\ m.snap.contracts = m.block.contractsRoot
         /\ m.snap.initial = IF base.initial = ZeroID
                             THEN BlockID(m.block) ELSE base.initial
         /\ m.snap.refs = Append(base.refs, BlockID(m.block))
<1> DEFINE p == PruneNonces(base, ts)
           k == PickTxs(p, ts, txs)
           q == [p EXCEPT !.contracts = k.trees.contracts,
                          !.nonces    = k.trees.nonces]
<1>1. DOMAIN base = {"contracts", "nonces", "header", "initial", "refs"}
  BY Zenon DEF IsSnapshot, Empty
<1>2. /\ DOMAIN p = DOMAIN base
      /\ p.initial = base.initial
      /\ p.refs = base.refs
  BY Zenon, <1>1 DEF PruneNonces
<1>3. /\ m.block.height = prev.height + 1
      /\ m.block.timestampMS = ts
      /\ m.block.contractsRoot = k.trees.contracts
      /\ m.snap = ApplyBlockHeader(q, m.block).snap
  BY Zenon DEF GenerateBlock
<1> HIDE DEF p, k
<1>4. /\ DOMAIN q = DOMAIN base
      /\ q.contracts = k.trees.contracts
      /\ q.initial = base.initial
      /\ q.refs = base.refs
  BY Zenon, <1>1, <1>2
<1> HIDE DEF q
<1>5. m.snap = [q EXCEPT !.header  = m.block,
                         !.initial = IF q.initial = ZeroID
                                     THEN BlockID(m.block) ELSE q.initial,
                         !.refs    = Append(q.refs, BlockID(m.block))]
  BY Zenon, <1>1, <1>3, <1>4 DEF ApplyBlockHeader
<1>6. /\ DOMAIN m.snap = DOMAIN base
      /\ m.snap.header = m.block
      /\ m.snap.contracts = q.contracts
      /\ m.snap.initial = IF q.initial = ZeroID
                          THEN BlockID(m.block) ELSE q.initial
      /\ m.snap.refs = Append(q.refs, BlockID(m.block))
  BY Zenon, <1>1, <1>4, <1>5
<1> QED
  BY Zenon, <1>3, <1>4, <1>6 DEF IsSnapshot

\* A block from the network is one above the state it was made for.
LEMMA RemoteBlockFields ==
  ASSUME NEW h \in DOMAIN blocks \cup {0}, NEW b \in RemoteBlocks(h),
         StoreInv(blocks)
  PROVE  b.height = h + 1 /\ b.timestampMS \in Nat
<1>1. CASE h = 0
  BY <1>1, ChainAssumptions DEF RemoteBlocks, NewInitialBlock
<1>2. CASE h # 0
  <2> DEFINE Make(d, txs) == GenerateBlock(StateAt(blocks, h), blocks[h],
                                           blocks[h].timestampMS + d, txs).block
             made == {Make(d, txs) : d \in Delays, txs \in Batches}
  <2>1. blocks[h].height = h /\ blocks[h].timestampMS \in Nat
    BY Zenon, <1>2 DEF StoreInv
  <2>2. ASSUME NEW d \in Delays, NEW txs \in Batches
        PROVE  LET c == Make(d, txs)
               IN  /\ {"height", "timestampMS"} \subseteq DOMAIN c
                   /\ c.height = h + 1
                   /\ c.timestampMS \in Nat
    BY <2>1, ChainAssumptions DEF GenerateBlock
  <2> HIDE DEF Make
  <2>3. RemoteBlocks(h) = made \cup IF RootsChecked THEN {}
                                    ELSE {[c EXCEPT !.contractsRoot = @ \cup {0}] :
                                            c \in made}
    BY <1>2 DEF RemoteBlocks, Make
  <2>4. PICK d \in Delays, txs \in Batches :
          LET c == Make(d, txs)
          IN  b = c \/ b = [c EXCEPT !.contractsRoot = c.contractsRoot \cup {0}]
    BY <2>3
  <2> QED
    BY Zenon, <2>2, <2>4
<1> QED
  BY Zenon, <1>1, <1>2

\* Saving a block above the stored ones, or one that is there, keeps the store
\* in order.
LEMMA PutStore ==
  ASSUME NEW bl, NEW b, StoreInv(bl),
         b.height \in 1..MaxHeight,
         b.height - 1 \in DOMAIN bl \cup {0},
         b.timestampMS \in Nat,
         b.height \in DOMAIN bl => bl[b.height] = b
  PROVE  StoreInv(Put(bl, b)) /\ Grows(bl, Put(bl, b))
<1>1. PICK n \in 0..MaxHeight : DOMAIN bl = 1..n
  BY Zenon DEF StoreInv
<1>2. \A h \in DOMAIN Put(bl, b) :
        Put(bl, b)[h].height = h /\ Put(bl, b)[h].timestampMS \in Nat
  BY Zenon DEF StoreInv, Put
<1>3. \E k \in 0..MaxHeight : DOMAIN Put(bl, b) = 1..k
  <2>1. CASE b.height \in 1..n
    BY Zenon, <2>1, <1>1 DEF Put
  <2>2. CASE b.height = n + 1
    <3>1. DOMAIN Put(bl, b) = 1..(n + 1) /\ n + 1 \in 0..MaxHeight
      BY <2>2, <1>1, ChainAssumptions DEF Put
    <3> QED BY Zenon, <3>1
  <2> QED
    BY <1>1, <2>1, <2>2, ChainAssumptions
<1> QED
  BY Zenon, <1>2, <1>3 DEF StoreInv, Grows, Put

-----------------------------------------------------------------------------
(***************************************************************************)
(* Steps that change only what goroutine g holds, possibly the store, and  *)
(* possibly the channel of its process.                                    *)
(***************************************************************************)
CallChanges(g) ==
  /\ \A k \in Goroutines \ {g} :
       pc'[k] = pc[k] /\ block'[k] = block[k] /\ work'[k] = work[k]
  /\ \A p \in Procs \ {ProcOf[g]} : pending'[p] = pending[p]
  /\ UNCHANGED <<up, height, snapshot, saving, waiting>>

\* A step of a goroutine that leaves the Chain alone preserves the invariant
\* if it does so for the store, the queue and its own call.
LEMMA CallStep ==
  ASSUME IInv, NEW g \in Goroutines, CallChanges(g), Domains',
         StoreInv(blocks'), Grows(blocks, blocks'),
         Good(blocks', stored'),
         finalized' \subseteq DOMAIN blocks',
         GoodQueue(blocks', pending'[ProcOf[g]]),
         CallInv(blocks', snapshot[ProcOf[g]], pc'[g], block'[g], work'[g])
  PROVE  IInv'
<1>1. ASSUME NEW p \in Procs
      PROVE  ProcInv(blocks', height'[p], snapshot'[p], pending'[p], saving'[p])
  <2>1. ProcInv(blocks', height[p], snapshot[p], pending[p], saving[p])
    BY Zenon, ProcMono DEF IInv, ProcsInv
  <2> QED
    BY Zenon, <2>1 DEF CallChanges, ProcInv
<1>2. ASSUME NEW k \in Goroutines
      PROVE  CallInv(blocks', snapshot'[ProcOf[k]], pc'[k], block'[k], work'[k])
  <2>1. CASE k = g
    BY Zenon, <2>1 DEF CallChanges
  <2>2. CASE k # g
    <3>1. ProcOf[k] \in Procs
      BY Zenon, ChainAssumptions
    <3>2. IsSnapshot(snapshot[ProcOf[k]])
      BY Zenon, <3>1 DEF IInv, ProcsInv, ProcInv, Good
    <3>3. Height(snapshot[ProcOf[k]]) <= Height(snapshot[ProcOf[k]])
      BY <3>2, ChainAssumptions DEF IsSnapshot
    <3>4. CallInv(blocks, snapshot[ProcOf[k]], pc[k], block[k], work[k])
      BY Zenon DEF IInv, CallsInv
    <3>5. StoreInv(blocks)
      BY Zenon DEF IInv
    <3>6. CallInv(blocks', snapshot[ProcOf[k]], pc[k], block[k], work[k])
      BY Zenon, <3>2, <3>3, <3>4, <3>5, CallMono
    <3> QED
      BY Zenon, <2>2, <3>6 DEF CallChanges
  <2> QED BY Zenon, <2>1, <2>2
<1>3. WaitsInv'
  BY Zenon DEF CallChanges, IInv, WaitsInv
<1> QED
  BY Zenon, <1>1, <1>2, <1>3 DEF IInv, ProcsInv, CallsInv

\* The frequent case: the store and the channels are as before.
LEMMA LocalStep ==
  ASSUME IInv, NEW g \in Goroutines, CallChanges(g), Domains',
         UNCHANGED <<storeVars, pending>>,
         CallInv(blocks, snapshot[ProcOf[g]], pc'[g], block'[g], work'[g])
  PROVE  IInv'
<1>1. /\ StoreInv(blocks') /\ Good(blocks', stored')
      /\ finalized' \subseteq DOMAIN blocks'
  BY Zenon DEF IInv, storeVars
<1>2. Grows(blocks, blocks')
  BY Zenon DEF Grows, storeVars
<1>3. GoodQueue(blocks', pending'[ProcOf[g]])
  BY Zenon, ChainAssumptions DEF IInv, ProcsInv, ProcInv, storeVars
<1> QED
  BY Zenon, <1>1, <1>2, <1>3, CallStep DEF storeVars

-----------------------------------------------------------------------------

\* A higher height, broadcast, leaves every waiter right.
LEMMA BroadcastInv ==
  ASSUME IInv, NEW p \in Procs, NEW h \in DOMAIN blocks, h > height[p],
         height' = [height EXCEPT ![p] = h], Broadcast(p), up' = up
  PROVE  /\ WaitsInv'
         /\ waiting' \in [Waiters -> [pc : WaiterLabels, height : 0..MaxHeight,
                                      caller : Callers]]
<1>1. h \in Int /\ height[p] \in Int
  BY ChainAssumptions DEF IInv, StoreInv, ProcsInv, ProcInv
<1>2. ASSUME NEW w \in Waiters
      PROVE  /\ WaitInv(up'[ProcOf[w]], height'[ProcOf[w]], waiting'[w])
             /\ waiting'[w] \in [pc : WaiterLabels, height : 0..MaxHeight,
                                 caller : Callers]
  <2>1. WaitInv(up[ProcOf[w]], height[ProcOf[w]], waiting[w])
    BY Zenon DEF IInv, WaitsInv
  <2>2. CASE ProcOf[w] = p
    <3>1. height'[ProcOf[w]] = h
      BY Zenon, <2>2 DEF IInv, Domains
    <3>2. CASE waiting[w].pc = "parked"
      <4>1. waiting'[w] = [waiting[w] EXCEPT !.pc = "test"]
        BY Zenon, <2>2, <3>2 DEF Broadcast
      <4>2. /\ waiting'[w] \in [pc : WaiterLabels, height : 0..MaxHeight,
                                caller : Callers]
            /\ waiting'[w].pc = "test"
            /\ waiting'[w].height = waiting[w].height
            /\ waiting'[w].caller = waiting[w].caller
        BY <2>1, <4>1 DEF WaitInv, WaiterLabels
      <4> QED
        BY Zenon, <2>1, <3>1, <3>2, <4>2 DEF WaitInv
    <3>3. CASE waiting[w].pc # "parked"
      <4>1. waiting'[w] = waiting[w]
        BY Zenon, <3>3 DEF Broadcast
      <4>2. waiting[w].height \in Int
        BY <2>1 DEF WaitInv
      <4>3. waiting[w].pc = "done" => waiting[w].height <= h
        BY <1>1, <2>1, <2>2, <4>2 DEF WaitInv
      <4> QED
        BY <2>1, <3>1, <3>3, <4>1, <4>3 DEF WaitInv
    <3> QED BY Zenon, <3>2, <3>3
  <2>3. CASE ProcOf[w] # p
    BY Zenon, <2>1, <2>3, ChainAssumptions DEF Broadcast, IInv, Domains, WaitInv
  <2> QED BY Zenon, <2>2, <2>3
<1> QED
  BY Zenon, <1>2 DEF Broadcast, WaitsInv

(***************************************************************************)
(* Goroutines.                                                             *)
(***************************************************************************)
LEMMA CurrentState ==
  ASSUME IInv, NEW g \in Goroutines
  PROVE  /\ ProcOf[g] \in Procs
         /\ StoreInv(blocks)
         /\ Good(blocks, snapshot[ProcOf[g]])
         /\ Height(snapshot[ProcOf[g]]) \in 0..MaxHeight
         /\ \A h \in DOMAIN blocks : h \in 1..MaxHeight
         /\ CallInv(blocks, snapshot[ProcOf[g]], pc[g], block[g], work[g])
<1>1. ProcOf[g] \in Procs
  BY Zenon, ChainAssumptions
<1>2. Good(blocks, snapshot[ProcOf[g]])
  BY Zenon, <1>1 DEF IInv, ProcsInv, ProcInv
<1>3. Height(snapshot[ProcOf[g]]) \in 0..MaxHeight
  BY Zenon, <1>2 DEF Good, IsSnapshot
<1>4. StoreInv(blocks) /\ \A h \in DOMAIN blocks : h \in 1..MaxHeight
  BY ChainAssumptions DEF IInv, StoreInv
<1> QED
  BY Zenon, <1>1, <1>2, <1>3, <1>4 DEF IInv, CallsInv

\* The end of a call preserves the invariant.
LEMMA ReturnInv ==
  ASSUME IInv, NEW g \in Goroutines, Return(g),
         UNCHANGED <<storeVars, up, chainVars, saving, waiting, crashes>>
  PROVE  IInv'
<1>1. Domains'
  BY ChainAssumptions DEF IInv, Domains, Return, chainVars, Labels
<1>2. CallChanges(g)
  BY Zenon DEF IInv, Domains, Return, CallChanges, chainVars
<1>3. pc'[g] = "idle" /\ block'[g] = NilHeader /\ work'[g] = Empty
  BY Zenon DEF IInv, Domains, Return
<1>4. CallInv(blocks, snapshot[ProcOf[g]], pc'[g], block'[g], work'[g])
  BY Zenon, <1>3, EmptyGood DEF CallInv, Good
<1> QED
  BY Zenon, <1>1, <1>2, <1>4, LocalStep DEF chainVars

\* SaveBlock as Put: what it needs and what it gives.
LEMMA SaveBlockStore ==
  ASSUME IInv, NEW b, SaveBlock(b),
         b.height \in 1..MaxHeight,
         b.height - 1 \in DOMAIN blocks \cup {0},
         b.timestampMS \in Nat,
         stored' = stored, finalized' = finalized
  PROVE  /\ blocks' = Put(blocks, b)
         /\ StoreInv(blocks') /\ Grows(blocks, blocks')
         /\ Good(blocks', stored') /\ finalized' \subseteq DOMAIN blocks'
         /\ b.height \in DOMAIN blocks' /\ blocks'[b.height] = b
<1>1. blocks' = Put(blocks, b)
  BY Zenon DEF SaveBlock, Put
<1>2. b.height \in DOMAIN blocks => blocks[b.height] = b
  BY Zenon DEF SaveBlock, CanSaveBlock, BlockID
<1>3. StoreInv(blocks') /\ Grows(blocks, blocks')
  BY Zenon, <1>1, <1>2, PutStore DEF IInv
<1>4. Good(blocks', stored')
  BY Zenon, <1>3, GoodMono DEF IInv
<1>5. finalized' \subseteq DOMAIN blocks'
  BY Zenon, <1>3 DEF IInv, Grows
<1>6. b.height \in DOMAIN blocks' /\ blocks'[b.height] = b
  BY Zenon, <1>1 DEF Put
<1> QED
  BY Zenon, <1>1, <1>3, <1>4, <1>5, <1>6

-----------------------------------------------------------------------------
(***************************************************************************)
(* The steps of processes, of their snapshot savers and listeners, and of  *)
(* waiters.                                                                *)
(***************************************************************************)
LEMMA CrashInv ==
  ASSUME IInv, NEW p \in Procs, Crash(p)
  PROVE  IInv'
<1>1. Domains'
  <2>1. crashes' \in Nat
    BY DEF Crash, IInv, Domains
  <2>2. /\ up' \in [Procs -> BOOLEAN] /\ lastQueued' \in [Procs -> Nat]
        /\ DOMAIN height' = Procs /\ DOMAIN snapshot' = Procs
        /\ DOMAIN pending' = Procs /\ DOMAIN saving' = Procs
    BY Zenon DEF Crash, IInv, Domains
  <2>3. /\ pc' \in [Goroutines -> Labels]
        /\ DOMAIN block' = Goroutines /\ DOMAIN work' = Goroutines
        /\ goal' \in [Goroutines -> 0..MaxHeight]
    BY ChainAssumptions DEF Crash, IInv, Domains, Labels
  <2>4. waiting' \in [Waiters -> [pc : WaiterLabels, height : 0..MaxHeight,
                                  caller : Callers]]
    BY ChainAssumptions DEF Crash, IInv, Domains, WaiterLabels, Callers
  <2> QED BY Zenon, <2>1, <2>2, <2>3, <2>4 DEF Domains
<1>2. ProcsInv'
  <2> SUFFICES ASSUME NEW q \in Procs
               PROVE  ProcInv(blocks, height'[q], snapshot'[q], pending'[q],
                              saving'[q])
    BY Zenon DEF ProcsInv, Crash, storeVars
  <2>1. ProcInv(blocks, height[q], snapshot[q], pending[q], saving[q])
    BY Zenon DEF IInv, ProcsInv
  <2>2. CASE q = p
    <3>1. /\ height'[q] = 0 /\ snapshot'[q] = Empty
          /\ pending'[q] = <<>> /\ saving'[q] = <<>>
      BY Zenon, <2>2 DEF Crash, IInv, Domains
    <3>2. Good(blocks, Empty) /\ Height(Empty) <= 0
      BY EmptyGood
    <3> QED
      BY Zenon, <3>1, <3>2 DEF ProcInv, GoodQueue
  <2>3. CASE q # p
    BY Zenon, <2>1, <2>3 DEF Crash, IInv, Domains
  <2> QED BY Zenon, <2>2, <2>3
<1>3. CallsInv'
  <2> SUFFICES ASSUME NEW g \in Goroutines
               PROVE  CallInv(blocks, snapshot'[ProcOf[g]], pc'[g], block'[g],
                              work'[g])
    BY Zenon DEF CallsInv, Crash, storeVars
  <2>1. CallInv(blocks, snapshot[ProcOf[g]], pc[g], block[g], work[g])
    BY Zenon DEF IInv, CallsInv
  <2>2. CASE ProcOf[g] = p
    BY Zenon, <2>2, EmptyGood DEF Crash, CallInv, Good
  <2>3. CASE ProcOf[g] # p
    BY Zenon, <2>1, <2>3, ChainAssumptions DEF Crash, IInv, Domains
  <2> QED BY Zenon, <2>2, <2>3
<1>4. WaitsInv'
  <2> SUFFICES ASSUME NEW w \in Waiters
               PROVE  WaitInv(up'[ProcOf[w]], height'[ProcOf[w]], waiting'[w])
    BY Zenon DEF WaitsInv
  <2>1. WaitInv(up[ProcOf[w]], height[ProcOf[w]], waiting[w])
    BY Zenon DEF IInv, WaitsInv
  <2>2. CASE ProcOf[w] = p
    BY <2>2, ChainAssumptions DEF Crash, WaitInv, WaiterLabels, Callers
  <2>3. CASE ProcOf[w] # p
    BY Zenon, <2>1, <2>3, ChainAssumptions DEF Crash, IInv, Domains
  <2> QED BY Zenon, <2>2, <2>3
<1> QED
  BY Zenon, <1>1, <1>2, <1>3, <1>4 DEF IInv, Crash, storeVars

\* setHeight with an announced height preserves the invariant.
LEMMA HearHeightInv ==
  ASSUME IInv, NEW p \in Procs, NEW h \in 1..MaxHeight, HearHeight(p, h)
  PROVE  IInv'
<1>1. h \in DOMAIN blocks
  BY Zenon DEF HearHeight, IInv
<1>2. /\ height' = [height EXCEPT ![p] = h]
      /\ h > height[p]
      /\ Broadcast(p)
      /\ UNCHANGED <<storeVars, up, snapshot, lastQueued, pending, saving,
                     callVars, crashes>>
  BY Zenon DEF HearHeight, SetHeight
<1>3. WaitsInv' /\ Domains'
  BY Zenon, <1>1, <1>2, BroadcastInv DEF IInv, Domains, callVars
<1>4. ProcsInv'
  <2> SUFFICES ASSUME NEW q \in Procs
               PROVE  ProcInv(blocks, height'[q], snapshot[q], pending[q], saving[q])
    BY Zenon, <1>2 DEF ProcsInv, storeVars
  <2>1. ProcInv(blocks, height[q], snapshot[q], pending[q], saving[q])
    BY Zenon DEF IInv, ProcsInv
  <2>2. CASE q = p
    <3>1. Height(snapshot[q]) \in Int /\ height[q] \in Int
      BY <2>1, ChainAssumptions DEF ProcInv, Good, IsSnapshot, IInv, StoreInv
    <3>2. height'[q] = h
      BY Zenon, <1>2, <2>2 DEF IInv, Domains
    <3> QED
      BY <1>1, <1>2, <2>1, <2>2, <3>1, <3>2 DEF ProcInv
  <2>3. CASE q # p
    BY Zenon, <1>2, <2>1, <2>3 DEF IInv, Domains
  <2> QED BY Zenon, <2>2, <2>3
<1> QED
  BY Zenon, <1>2, <1>3, <1>4 DEF IInv, CallsInv, storeVars, callVars

\* The saver goroutine takes a queued snapshot.
LEMMA TakePendingInv ==
  ASSUME IInv, NEW p \in Procs, TakePending(p)
  PROVE  IInv'
<1>1. Domains' /\ WaitsInv' /\ CallsInv'
  BY Zenon DEF IInv, Domains, WaitsInv, CallsInv, TakePending, storeVars, callVars
<1>2. ASSUME NEW q \in Procs
      PROVE  ProcInv(blocks, height[q], snapshot[q], pending'[q], saving'[q])
  <2>1. ProcInv(blocks, height[q], snapshot[q], pending[q], saving[q])
    BY Zenon DEF IInv, ProcsInv
  <2>2. GoodQueue(blocks, <<>>)
    BY Zenon DEF GoodQueue
  <2>3. /\ pending'[q] = IF q = p THEN <<>> ELSE pending[q]
        /\ saving'[q] = IF q = p THEN pending[q] ELSE saving[q]
    BY Zenon DEF TakePending, IInv, Domains
  <2> QED
    BY Zenon, <2>1, <2>2, <2>3 DEF ProcInv
<1> QED
  BY Zenon, <1>1, <1>2 DEF IInv, ProcsInv, TakePending, storeVars

\* The saver goroutine saves it, or fails to.
LEMMA SaveSnapshotInv ==
  ASSUME IInv, NEW p \in Procs, SaveSnapshot(p)
  PROVE  IInv'
<1>1. Domains' /\ WaitsInv' /\ CallsInv'
  BY Zenon DEF IInv, Domains, WaitsInv, CallsInv, SaveSnapshot, chainVars, callVars
<1>2. ASSUME NEW q \in Procs
      PROVE  ProcInv(blocks, height[q], snapshot[q], pending[q], saving'[q])
  <2>1. ProcInv(blocks, height[q], snapshot[q], pending[q], saving[q])
    BY Zenon DEF IInv, ProcsInv
  <2>2. GoodQueue(blocks, <<>>)
    BY Zenon DEF GoodQueue
  <2>3. saving'[q] = IF q = p THEN <<>> ELSE saving[q]
    BY Zenon DEF SaveSnapshot, IInv, Domains
  <2> QED
    BY Zenon, <2>1, <2>2, <2>3 DEF ProcInv
<1>3. Good(blocks, stored')
  BY Zenon DEF SaveSnapshot, IInv, ProcsInv, ProcInv, GoodQueue
<1> QED
  BY Zenon, <1>1, <1>2, <1>3 DEF IInv, ProcsInv, SaveSnapshot, chainVars

-----------------------------------------------------------------------------
\* Every step of a waiter preserves the invariant.
LEMMA WaiterInv ==
  ASSUME IInv, NEW w \in Waiters,
         \/ \E h \in 1..MaxHeight : BlockWaiter(w, h) \/ BlockSoonWaiter(w, h)
         \/ TestHeight(w) \/ ReceiveDone(w) \/ ContextDone(w)
  PROVE  IInv'
<1> DEFINE u == up[ProcOf[w]]
           h == height[ProcOf[w]]
           x == waiting[w]
           R == [pc : WaiterLabels, height : 0..MaxHeight, caller : Callers]
<1>1. UNCHANGED <<storeVars, up, chainVars, saving, callVars, crashes>>
  BY Zenon DEF BlockWaiter, BlockSoonWaiter, TestHeight, ReceiveDone, ContextDone
<1>2. WaitInv(u, h, x)
  BY Zenon DEF IInv, WaitsInv
<1>3. h \in Int
  <2>1. h \in DOMAIN blocks \cup {0}
    BY Zenon, ChainAssumptions DEF IInv, ProcsInv, ProcInv
  <2>2. \A k \in DOMAIN blocks : k \in Int
    BY DEF IInv, StoreInv
  <2> QED
    BY <2>1, <2>2
<1>4. \E y : waiting' = [waiting EXCEPT ![w] = y] /\ WaitInv(u, h, y)
  <2>1. CASE \E k \in 1..MaxHeight : BlockWaiter(w, k) \/ BlockSoonWaiter(w, k)
    <3>1. PICK k \in 1..MaxHeight : BlockWaiter(w, k) \/ BlockSoonWaiter(w, k)
      BY Zenon, <2>1
    <3>2. u /\ x.pc = "idle" /\ x.caller = "none"
      BY Zenon, <3>1 DEF BlockWaiter, BlockSoonWaiter
    <3>3. ASSUME NEW c \in {"plain", "soon"}, StartWait(w, k, c)
          PROVE  \E y : waiting' = [waiting EXCEPT ![w] = y] /\ WaitInv(u, h, y)
      <4>1. WaitInv(u, h, [pc |-> "test", height |-> k, caller |-> c])
        BY <3>2, ChainAssumptions DEF WaitInv, WaiterLabels, Callers
      <4> QED BY Zenon, <3>3, <4>1 DEF StartWait
    <3>4. CASE waiting' = [waiting EXCEPT ![w].caller = "distant"]
      <4>1. WaitInv(u, h, [x EXCEPT !.caller = "distant"])
        BY Zenon, <1>2, <3>2 DEF WaitInv, WaiterLabels, Callers
      <4> QED BY Zenon, <3>4, <4>1
    <3> QED
      BY Zenon, <3>1, <3>3, <3>4 DEF BlockWaiter, BlockSoonWaiter
  <2>2. CASE TestHeight(w)
    <3> DEFINE l == IF h < x.height THEN "parked" ELSE "done"
    <3>1. waiting' = [waiting EXCEPT ![w] = [x EXCEPT !.pc = l]]
      BY Zenon, <2>2 DEF TestHeight
    <3>2. WaitInv(u, h, [x EXCEPT !.pc = l])
      BY <1>2, <1>3, <2>2 DEF WaitInv, WaiterLabels, Callers, TestHeight
    <3> QED BY Zenon, <3>1, <3>2
  <2>3. CASE ReceiveDone(w)
    <3>1. WaitInv(u, h, [x EXCEPT !.caller = "ok"])
      BY Zenon, <1>2, <2>3 DEF WaitInv, WaiterLabels, Callers, ReceiveDone
    <3> QED BY Zenon, <2>3, <3>1 DEF ReceiveDone
  <2>4. CASE ContextDone(w)
    <3>1. WaitInv(u, h, [x EXCEPT !.caller = "cancelled"])
      BY Zenon, <1>2, <2>4 DEF WaitInv, WaiterLabels, Callers, ContextDone
    <3> QED BY Zenon, <2>4, <3>1 DEF ContextDone
  <2> QED BY Zenon, <2>1, <2>2, <2>3, <2>4
<1>5. PICK y : waiting' = [waiting EXCEPT ![w] = y] /\ WaitInv(u, h, y)
  BY Zenon, <1>4
<1>6. y \in R
  BY Zenon, <1>5 DEF WaitInv
<1>7. Domains'
  BY Zenon, <1>1, <1>5, <1>6 DEF IInv, Domains, chainVars, callVars
<1>8. WaitsInv'
  BY Zenon, <1>1, <1>5 DEF IInv, Domains, WaitsInv, chainVars
<1> QED
  BY Zenon, <1>1, <1>7, <1>8
  DEF IInv, ProcsInv, CallsInv, storeVars, chainVars, callVars

-----------------------------------------------------------------------------
(***************************************************************************)
(* The goroutines' side of the snapshot channel.                           *)
(***************************************************************************)
LEMMA CheckFrequencyInv ==
  ASSUME IInv, NEW g \in Goroutines, CheckFrequency(g)
  PROVE  IInv'
<1>1. PICK l \in {"queue", "set"} : Goto(g, l)
  BY Zenon DEF CheckFrequency
<1>2. Domains' /\ CallChanges(g)
  BY Zenon, <1>1 DEF CheckFrequency, Goto, IInv, Domains, Labels, CallChanges, chainVars
<1>3. pc'[g] = l /\ block'[g] = block[g] /\ work'[g] = work[g]
  BY Zenon, <1>1 DEF CheckFrequency, Goto, IInv, Domains
<1>4. CallInv(blocks, snapshot[ProcOf[g]], pc'[g], block'[g], work'[g])
  BY Zenon, <1>3, CurrentState DEF CheckFrequency, CallInv
<1> QED
  BY Zenon, <1>2, <1>4, LocalStep DEF CheckFrequency, chainVars

\* Queueing a snapshot, or dropping it when the channel is full.
LEMMA QueueSnapshotInv ==
  ASSUME IInv, NEW g \in Goroutines, QueueSnapshot(g)
  PROVE  IInv'
<1> DEFINE p == ProcOf[g]
<1>1. PICK l \in {"mark", "set"} :
        /\ Goto(g, l)
        /\ pending' \in {pending, [pending EXCEPT ![p] = <<work[g]>>]}
  BY Zenon DEF QueueSnapshot
<1>2. /\ UNCHANGED <<storeVars, up, height, snapshot, lastQueued, saving, block,
                     work, goal, waiting, crashes>>
      /\ pc[g] = "queue"
  BY Zenon DEF QueueSnapshot
<1>3. Domains' /\ CallChanges(g)
  BY Zenon, <1>1, <1>2 DEF Goto, IInv, Domains, Labels, CallChanges
<1>4. pc'[g] = l /\ block'[g] = block[g] /\ work'[g] = work[g]
  BY Zenon, <1>1, <1>2 DEF Goto, IInv, Domains
<1>5. CallInv(blocks, snapshot[p], pc'[g], block'[g], work'[g])
  BY Zenon, <1>2, <1>4, CurrentState DEF CallInv
<1>6. Good(blocks, work[g])
  BY Zenon, <1>2, CurrentState DEF CallInv, Good
<1>7. GoodQueue(blocks, pending'[p])
  <2>1. GoodQueue(blocks, pending[p])
    BY Zenon, CurrentState DEF IInv, ProcsInv, ProcInv
  <2>2. GoodQueue(blocks, <<work[g]>>)
    BY Zenon, <1>6 DEF GoodQueue
  <2>3. pending'[p] \in {pending[p], <<work[g]>>}
    BY Zenon, <1>1, CurrentState DEF IInv, Domains
  <2> QED
    BY Zenon, <2>1, <2>2, <2>3
<1>8. /\ StoreInv(blocks') /\ Good(blocks', stored')
      /\ finalized' \subseteq DOMAIN blocks' /\ Grows(blocks, blocks')
  BY Zenon, <1>2 DEF IInv, storeVars, Grows
<1> QED
  BY Zenon, <1>2, <1>3, <1>5, <1>7, <1>8, CallStep DEF storeVars

\* MarkQueued and RecoverMark write lastQueuedSnapshotMS.
LEMMA MarkInv ==
  ASSUME IInv, NEW g \in Goroutines, MarkQueued(g) \/ RecoverMark(g)
  PROVE  IInv'
<1>1. PICK l \in {"set", "height"} :
        /\ Goto(g, l)
        /\ \/ pc[g] = "mark" /\ l = "set"
           \/ pc[g] = "loaded" /\ l = "height"
  BY Zenon DEF MarkQueued, RecoverMark
<1>2. /\ lastQueued' = [lastQueued EXCEPT ![ProcOf[g]] = TimestampMS(work[g])]
      /\ UNCHANGED <<storeVars, up, height, snapshot, pending, saving, block,
                     work, goal, waiting, crashes>>
  BY Zenon DEF MarkQueued, RecoverMark
<1>3. TimestampMS(work[g]) \in Nat
  BY Zenon, CurrentState DEF CallInv, IsSnapshot
<1>4. Domains' /\ CallChanges(g)
  BY Zenon, <1>1, <1>2, <1>3 DEF Goto, IInv, Domains, Labels, CallChanges
<1>5. pc'[g] = l /\ block'[g] = block[g] /\ work'[g] = work[g]
  BY Zenon, <1>1, <1>2 DEF Goto, IInv, Domains
<1>6. CallInv(blocks, snapshot[ProcOf[g]], pc'[g], block'[g], work'[g])
  BY Zenon, <1>1, <1>5, CurrentState DEF CallInv
<1> QED
  BY Zenon, <1>2, <1>4, <1>6, LocalStep

-----------------------------------------------------------------------------
(***************************************************************************)
(* Reading, applying, generating and saving blocks; errors of the store.   *)
(***************************************************************************)
LEMMA CommitBlockInv ==
  ASSUME IInv, NEW g \in Goroutines, NEW h \in 0..(MaxHeight - 1),
         CommitBlock(g, h)
  PROVE  IInv'
<1> DEFINE cur == snapshot[ProcOf[g]]
<1>1. PICK b \in RemoteBlocks(h) :
        SaveBlock(b) /\ block' = [block EXCEPT ![g] = b]
  BY Zenon DEF CommitBlock
<1>2. h \in DOMAIN blocks \cup {0} /\ h <= Height(cur)
  BY Zenon DEF CommitBlock
<1>3. b.height = h + 1 /\ b.timestampMS \in Nat
  BY Zenon, <1>2, RemoteBlockFields, CurrentState
<1>4. b.height \in 1..MaxHeight /\ b.height - 1 \in DOMAIN blocks \cup {0}
  BY <1>2, <1>3, ChainAssumptions
<1>5. stored' = stored /\ finalized' = finalized
  BY Zenon DEF CommitBlock
<1>6. /\ StoreInv(blocks') /\ Grows(blocks, blocks')
      /\ Good(blocks', stored') /\ finalized' \subseteq DOMAIN blocks'
      /\ b.height \in DOMAIN blocks' /\ blocks'[b.height] = b
  BY Zenon, <1>1, <1>3, <1>4, <1>5, SaveBlockStore
<1>7. Domains'
  BY Zenon, <1>1 DEF CommitBlock, Goto, IInv, Domains, Labels, chainVars
<1>8. CallChanges(g)
  BY Zenon, <1>1 DEF CommitBlock, Goto, IInv, Domains, CallChanges, chainVars
<1>9. pc'[g] = "saved" /\ block'[g] = b /\ work'[g] = work[g]
  BY Zenon, <1>1 DEF CommitBlock, Goto, IInv, Domains
<1>10. CallInv(blocks', cur, pc'[g], block'[g], work'[g])
  <2>1. IsSnapshot(work[g])
    BY Zenon, CurrentState DEF CallInv
  <2>2. b.height <= Height(cur) + 1
    BY <1>2, <1>3, CurrentState
  <2> QED
    BY Zenon, <1>6, <1>9, <2>1, <2>2 DEF CallInv
<1>11. GoodQueue(blocks', pending'[ProcOf[g]])
  BY Zenon, <1>6, QueueMono, CurrentState
  DEF IInv, ProcsInv, ProcInv, CommitBlock, chainVars
<1> QED
  BY Zenon, <1>6, <1>7, <1>8, <1>10, <1>11, CallStep

\* CommitBlock reads the state and applies its block to it.
LEMMA ReadStateInv ==
  ASSUME IInv, NEW g \in Goroutines, ReadState(g)
  PROVE  IInv'
<1> DEFINE cur == snapshot[ProcOf[g]]
           b   == block[g]
           r   == ApplyBlock(cur, b)
<1>1. CASE Return(g)
  BY Zenon, <1>1, ReturnInv DEF ReadState
<1>2. CASE /\ b.height > Height(cur)
           /\ b.contractsRoot = r.snap.contracts
           /\ work' = [work EXCEPT ![g] = r.snap]
           /\ Goto(g, "finalize")
           /\ UNCHANGED <<block, goal>>
  <2>1. /\ b.height \in DOMAIN blocks /\ blocks[b.height] = b
        /\ b.height <= Height(cur) + 1
    BY Zenon, CurrentState DEF ReadState, CallInv
  <2>2. /\ b.height = Height(cur) + 1
        /\ b.height <= MaxHeight
        /\ b.timestampMS \in Nat
    BY <1>2, <2>1, CurrentState, ChainAssumptions DEF StoreInv
  <2>3. /\ r.snap.header = b /\ IsSnapshot(r.snap)
        /\ Matches(Put(blocks, b), r.snap)
    BY Zenon, <1>2, <2>2, CurrentState, ApplyBlockMatches
  <2>4. Good(blocks, r.snap)
    <3>1. \A i \in DOMAIN blocks : Put(blocks, b)[i] = blocks[i]
      BY Zenon, <2>1 DEF Put
    <3>2. DOMAIN Put(blocks, b) = DOMAIN blocks
      BY Zenon, <2>1 DEF Put
    <3>3. StoreInv(Put(blocks, b)) /\ Grows(Put(blocks, b), blocks)
      BY Zenon, <3>1, <3>2, CurrentState DEF StoreInv, Grows
    <3> QED
      BY Zenon, <2>3, <3>3, GoodMono DEF Good
  <2>5. Height(r.snap) >= 1
    BY <2>2, <2>3, CurrentState DEF Height
  <2> HIDE DEF r
  <2>6. Domains' /\ CallChanges(g)
    BY Zenon, <1>2 DEF ReadState, Goto, IInv, Domains, Labels, CallChanges, chainVars
  <2>7. pc'[g] = "finalize" /\ block'[g] = b /\ work'[g] = r.snap
    BY Zenon, <1>2 DEF Goto, IInv, Domains
  <2>8. CallInv(blocks, cur, pc'[g], block'[g], work'[g])
    BY Zenon, <2>4, <2>5, <2>7 DEF CallInv, Good
  <2> QED
    BY Zenon, <2>6, <2>8, LocalStep DEF ReadState, chainVars
<1>3. \/ b.height <= Height(cur) \/ ~r.ok
      \/ b.contractsRoot # r.snap.contracts \/ b.noncesRoot # r.snap.nonces
      => Return(g)
  BY Zenon DEF ReadState
<1> QED
  <2>1. SUFFICES ASSUME b.height > Height(cur), r.ok,
                        b.contractsRoot = r.snap.contracts,
                        b.noncesRoot = r.snap.nonces
                 PROVE  IInv'
    <3>1. b.height \in Int /\ Height(cur) \in Int
      <4>1. CallInv(blocks, cur, pc[g], b, work[g]) /\ Height(cur) \in 0..MaxHeight
        BY Zenon, CurrentState
      <4>2. b.height \in DOMAIN blocks
        BY Zenon, <4>1 DEF ReadState, CallInv
      <4> QED
        BY <4>1, <4>2, CurrentState
    <3> HIDE DEF r
    <3> QED BY <1>1, <1>3, <2>1, <3>1
  <2> QED
    BY Zenon, <1>1, <1>2, <2>1 DEF ReadState

\* A generator takes the state.
LEMMA TakeStateInv ==
  ASSUME IInv, NEW g \in Goroutines, TakeState(g)
  PROVE  IInv'
<1> DEFINE cur == snapshot[ProcOf[g]]
<1>1. Domains' /\ CallChanges(g)
  BY Zenon DEF TakeState, Goto, IInv, Domains, Labels, CallChanges, chainVars
<1>2. pc'[g] = "generate" /\ work'[g] = cur
  BY Zenon DEF TakeState, Goto, IInv, Domains
<1>3. IsSnapshot(cur) /\ Matches(blocks, cur) /\ Height(cur) \in 1..(MaxHeight - 1)
  BY Zenon, CurrentState DEF TakeState, Good
<1>4. Height(cur) <= Height(cur)
  BY <1>3, ChainAssumptions
<1>5. CallInv(blocks, cur, pc'[g], block'[g], work'[g])
  BY Zenon, <1>2, <1>3, <1>4 DEF CallInv
<1> QED
  BY Zenon, <1>1, <1>5, LocalStep DEF TakeState, chainVars

\* A block generated from an older state than the Chain's is not news to the
\* Chain; one generated from the Chain's own state extends what matches.
LEMMA GeneratedIsRight ==
  ASSUME NEW bl, NEW cur, NEW s, NEW ts \in Nat, NEW txs, NEW m,
         StoreInv(bl), Good(bl, cur), Good(bl, s),
         Height(s) \in 1..(MaxHeight - 1), Height(s) <= Height(cur),
         m = GenerateBlock(cur, s.header, ts, txs)
  PROVE  CallInv(bl, cur, "save", m.block, m.snap)
<1> DEFINE b == m.block
<1>1. /\ b.height = Height(s) + 1
      /\ b.timestampMS = ts
      /\ DOMAIN m.snap = DOMAIN Empty
      /\ m.snap.header = b
      /\ m.snap.contracts = b.contractsRoot
      /\ m.snap.initial = IF cur.initial = ZeroID THEN BlockID(b) ELSE cur.initial
      /\ m.snap.refs = Append(cur.refs, BlockID(b))
  BY GenerateBlockFields DEF Good, Height
<1>2. b.height \in 1..MaxHeight /\ Height(cur) \in 0..MaxHeight
  BY <1>1, ChainAssumptions DEF Good, IsSnapshot
<1>3. IsSnapshot(m.snap)
  BY <1>1, <1>2, ChainAssumptions DEF IsSnapshot, Height, TimestampMS
<1>4. b.height - 1 \in DOMAIN bl \cup {0}
  <2>1. b.height - 1 = Height(s)
    BY <1>1, ChainAssumptions
  <2> QED
    BY Zenon, <2>1 DEF Good, Matches
<1>5. b.height <= Height(cur) \/ Matches(Put(bl, b), m.snap)
  <2>1. CASE Height(s) = Height(cur)
    <3>1. b.height = Height(cur) + 1 /\ b.height <= MaxHeight
      BY <1>1, <1>2, <2>1, ChainAssumptions
    <3> QED
      BY Zenon, <1>1, <3>1, HeadedMatches
  <2>2. CASE Height(s) < Height(cur)
    BY <1>1, <1>2, <2>2, ChainAssumptions
  <2> QED
    BY <1>2, <2>1, <2>2, ChainAssumptions
<1> QED
  BY Zenon, <1>1, <1>2, <1>3, <1>4, <1>5 DEF CallInv

\* GenerateBlock, on a state that others may have moved since.
LEMMA GenerateInv ==
  ASSUME IInv, NEW g \in Goroutines, Generate(g)
  PROVE  IInv'
<1> DEFINE cur == snapshot[ProcOf[g]]
           prev == work[g].header
<1>1. PICK d \in Delays, txs \in Batches :
        LET made == GenerateBlock(cur, prev, prev.timestampMS + d, txs)
        IN  /\ block' = [block EXCEPT ![g] = made.block]
            /\ work' = [work EXCEPT ![g] = made.snap]
  BY Zenon DEF Generate
<1> DEFINE ts == prev.timestampMS + d
           made == GenerateBlock(cur, prev, ts, txs)
<1>2. /\ Good(blocks, work[g])
      /\ Height(work[g]) \in 1..(MaxHeight - 1)
      /\ Height(work[g]) <= Height(cur)
  BY Zenon, CurrentState DEF Generate, CallInv, Good
<1>3. ts \in Nat
  BY <1>2, ChainAssumptions DEF Good, IsSnapshot, TimestampMS
<1>4. Domains' /\ CallChanges(g)
  BY Zenon, <1>1 DEF Generate, Goto, IInv, Domains, Labels, CallChanges, chainVars
<1>5. pc'[g] = "save" /\ block'[g] = made.block /\ work'[g] = made.snap
  BY Zenon, <1>1 DEF Generate, Goto, IInv, Domains
<1>6. CallInv(blocks, cur, "save", made.block, made.snap)
  <2> HIDE DEF ts
  <2> QED
    BY Zenon, <1>2, <1>3, CurrentState, GeneratedIsRight
<1> HIDE DEF made
<1>7. CallInv(blocks, cur, pc'[g], block'[g], work'[g])
  BY Zenon, <1>5, <1>6
<1> QED
  BY Zenon, <1>4, <1>7, LocalStep DEF Generate, chainVars

\* CommitAppliedBlock saves the block.
LEMMA SaveAppliedInv ==
  ASSUME IInv, NEW g \in Goroutines, SaveApplied(g)
  PROVE  IInv'
<1> DEFINE cur == snapshot[ProcOf[g]]
           b == block[g]
           s == work[g]
<1>1. CASE Return(g) /\ UNCHANGED blocks
  BY Zenon, <1>1, ReturnInv DEF SaveApplied, storeVars
<1>2. CASE SaveBlock(b) /\ Goto(g, "applied") /\ UNCHANGED <<block, work, goal>>
  <2>1. /\ IsSnapshot(s)
        /\ b.height \in 1..MaxHeight
        /\ b.height - 1 \in DOMAIN blocks \cup {0}
        /\ b.timestampMS \in Nat
        /\ b.height <= Height(cur) \/ (s.header = b /\ Matches(Put(blocks, b), s))
    BY Zenon, CurrentState DEF SaveApplied, CallInv
  <2>2. stored' = stored /\ finalized' = finalized
    BY Zenon DEF SaveApplied
  <2>3. /\ blocks' = Put(blocks, b)
        /\ StoreInv(blocks') /\ Grows(blocks, blocks')
        /\ Good(blocks', stored') /\ finalized' \subseteq DOMAIN blocks'
        /\ b.height \in DOMAIN blocks'
    BY Zenon, <1>2, <2>1, <2>2, SaveBlockStore
  <2>4. Domains' /\ CallChanges(g)
    BY Zenon, <1>2 DEF SaveApplied, Goto, IInv, Domains, Labels, CallChanges, chainVars
  <2>5. pc'[g] = "applied" /\ block'[g] = b /\ work'[g] = s
    BY Zenon, <1>2 DEF Goto, IInv, Domains
  <2>6. CallInv(blocks', cur, pc'[g], block'[g], work'[g])
    BY Zenon, <2>1, <2>3, <2>5 DEF CallInv
  <2>7. GoodQueue(blocks', pending'[ProcOf[g]])
    BY Zenon, <2>3, QueueMono, CurrentState
    DEF IInv, ProcsInv, ProcInv, SaveApplied, chainVars
  <2> QED
    BY Zenon, <2>3, <2>4, <2>6, <2>7, CallStep
<1> QED
  BY Zenon, <1>1, <1>2 DEF SaveApplied

\* CommitAppliedBlock compares the heights.
LEMMA ReadAppliedInv ==
  ASSUME IInv, NEW g \in Goroutines, ReadApplied(g)
  PROVE  IInv'
<1> DEFINE cur == snapshot[ProcOf[g]]
<1>1. CASE Return(g)
  BY Zenon, <1>1, ReturnInv DEF ReadApplied
<1>2. CASE /\ ~(block[g].height <= Height(cur))
           /\ Goto(g, "finalize") /\ UNCHANGED <<block, work, goal>>
  <2>1. Domains' /\ CallChanges(g)
    BY Zenon, <1>2 DEF ReadApplied, Goto, IInv, Domains, Labels, CallChanges, chainVars
  <2>2. pc'[g] = "finalize" /\ block'[g] = block[g] /\ work'[g] = work[g]
    BY Zenon, <1>2 DEF Goto, IInv, Domains
  <2>3. /\ block[g].height \in 1..MaxHeight
        /\ IsSnapshot(work[g])
        /\ work[g].header = block[g] /\ Matches(blocks, work[g])
    BY Zenon, <1>2, CurrentState DEF ReadApplied, CallInv
  <2>4. CallInv(blocks, cur, pc'[g], block'[g], work'[g])
    BY <2>2, <2>3, ChainAssumptions DEF CallInv, Height
  <2> QED
    BY Zenon, <2>1, <2>4, LocalStep DEF ReadApplied, chainVars
<1> QED
  BY Zenon, <1>1, <1>2 DEF ReadApplied

\* A Store call fails and the call returns.
LEMMA StoreErrorInv ==
  ASSUME IInv, NEW g \in Goroutines, StoreError(g)
  PROVE  IInv'
BY Zenon, ReturnInv DEF StoreError

-----------------------------------------------------------------------------
(***************************************************************************)
(* Installing a state, finalizing a height, recovering.                    *)
(***************************************************************************)
LEMMA FinalizeHeightInv ==
  ASSUME IInv, NEW g \in Goroutines, FinalizeHeight(g)
  PROVE  IInv'
<1>1. Height(work[g]) \in DOMAIN blocks
  <2>1. CallInv(blocks, snapshot[ProcOf[g]], pc[g], block[g], work[g])
    BY Zenon, CurrentState
  <2>2. Matches(blocks, work[g]) /\ Height(work[g]) >= 1
    BY Zenon, <2>1 DEF FinalizeHeight, CallInv
  <2> QED
    BY <2>2 DEF Matches
<1>2. finalized' \subseteq DOMAIN blocks
  BY Zenon, <1>1 DEF FinalizeHeight, IInv
<1>3. Domains'
  BY ChainAssumptions
  DEF IInv, Domains, FinalizeHeight, Return, chainVars, Labels
<1>4. CallChanges(g)
  BY Zenon DEF IInv, Domains, FinalizeHeight, Return, CallChanges, chainVars
<1>5. pc'[g] = "idle" /\ block'[g] = NilHeader /\ work'[g] = Empty
  BY Zenon DEF IInv, Domains, FinalizeHeight, Return
<1>6. CallInv(blocks, snapshot[ProcOf[g]], pc'[g], block'[g], work'[g])
  BY Zenon, <1>5, EmptyGood DEF CallInv, Good
<1>7. UNCHANGED <<blocks, stored, pending>>
  BY Zenon DEF FinalizeHeight, chainVars
<1>8. StoreInv(blocks) /\ Grows(blocks, blocks) /\ Good(blocks, stored)
  BY Zenon DEF IInv, Grows
<1>9. GoodQueue(blocks, pending[ProcOf[g]])
  BY Zenon, CurrentState DEF IInv, ProcsInv, ProcInv
<1> QED
  BY Zenon, <1>2, <1>3, <1>4, <1>6, <1>7, <1>8, <1>9, CallStep

\* setState installs a snapshot unless a later one is there.
LEMMA InstallStateInv ==
  ASSUME IInv, NEW g \in Goroutines, InstallState(g)
  PROVE  IInv'
<1> DEFINE p == ProcOf[g]
           s == work[g]
<1>1. /\ p \in Procs /\ Good(blocks, s) /\ Height(s) \in DOMAIN blocks
      /\ Height(s) \in Int
  <2>1. CallInv(blocks, snapshot[p], pc[g], block[g], s) /\ p \in Procs
    BY Zenon, CurrentState
  <2>2. IsSnapshot(s) /\ Matches(blocks, s) /\ Height(s) >= 1
    BY Zenon, <2>1 DEF InstallState, CallInv
  <2>3. Height(s) \in Int
    BY <2>2, ChainAssumptions DEF IsSnapshot
  <2>4. Height(s) \in DOMAIN blocks
    BY <2>2 DEF Matches
  <2> QED
    BY Zenon, <2>1, <2>2, <2>3, <2>4 DEF Good
<1>2. /\ pc[g] = "set"
      /\ SetState(p, s)
      /\ pc' = [pc EXCEPT ![g] = "announce"]
      /\ UNCHANGED <<storeVars, up, lastQueued, pending, saving, block, work,
                     goal, crashes>>
  BY Zenon DEF InstallState, Goto
<1>3. CASE Height(s) <= Height(snapshot[p])
  <2>1. UNCHANGED <<height, snapshot, waiting>>
    BY Zenon, <1>2, <1>3 DEF SetState
  <2>2. Domains' /\ CallChanges(g)
    BY Zenon, <1>2, <2>1 DEF IInv, Domains, Labels, CallChanges
  <2>3. pc'[g] = "announce" /\ block'[g] = block[g] /\ work'[g] = s
    BY Zenon, <1>2 DEF IInv, Domains
  <2>4. CallInv(blocks, snapshot[p], pc'[g], block'[g], work'[g])
    BY Zenon, <1>2, <2>3, CurrentState DEF CallInv
  <2> QED
    BY Zenon, <1>2, <2>2, <2>4, LocalStep
<1>4. CASE ~(Height(s) <= Height(snapshot[p]))
  <2>1. snapshot' = [snapshot EXCEPT ![p] = s]
    BY Zenon, <1>2, <1>4 DEF SetState
  <2>2. ASSUME NEW q \in Procs
        PROVE  /\ snapshot'[q] = IF q = p THEN s ELSE snapshot[q]
               /\ IsSnapshot(snapshot[q]) /\ IsSnapshot(snapshot'[q])
               /\ Height(snapshot[q]) <= Height(snapshot'[q])
    <3>1. snapshot'[q] = IF q = p THEN s ELSE snapshot[q]
      BY Zenon, <2>1 DEF IInv, Domains
    <3>2. IsSnapshot(snapshot[q]) /\ IsSnapshot(s)
      BY Zenon, <1>1 DEF IInv, ProcsInv, ProcInv, Good
    <3>3. Height(snapshot[q]) \in Int
      BY <3>2, ChainAssumptions DEF IsSnapshot
    <3> QED
      BY <1>1, <1>4, <3>1, <3>2, <3>3
  <2>3. CallsInv'
    <3> SUFFICES ASSUME NEW k \in Goroutines
                 PROVE  CallInv(blocks, snapshot'[ProcOf[k]], pc'[k], block[k],
                                work[k])
      BY Zenon, <1>2 DEF CallsInv, storeVars
    <3>1. ProcOf[k] \in Procs /\ StoreInv(blocks) /\ Grows(blocks, blocks)
      BY Zenon, ChainAssumptions DEF IInv, Grows
    <3>2. CallInv(blocks, snapshot[ProcOf[k]], pc[k], block[k], work[k])
      BY Zenon DEF IInv, CallsInv
    <3>3. CallInv(blocks, snapshot'[ProcOf[k]], pc[k], block[k], work[k])
      BY Zenon, <2>2, <3>1, <3>2, CallMono
    <3>4. CASE k = g
      BY Zenon, <1>2, <3>3, <3>4 DEF CallInv, IInv, Domains
    <3>5. CASE k # g
      BY Zenon, <1>2, <3>3, <3>5 DEF IInv, Domains
    <3> QED BY Zenon, <3>4, <3>5
  <2>4. CASE Height(s) > height[p]
    <3>1. height' = [height EXCEPT ![p] = Height(s)] /\ Broadcast(p)
      BY Zenon, <1>2, <1>4, <2>4 DEF SetState
    <3>2. /\ WaitsInv'
          /\ waiting' \in [Waiters -> [pc : WaiterLabels, height : 0..MaxHeight,
                                       caller : Callers]]
      BY Zenon, <1>1, <1>2, <2>4, <3>1, BroadcastInv
    <3>3. Domains'
      BY Zenon, <1>2, <2>1, <3>1, <3>2 DEF IInv, Domains, Labels
    <3>4. ASSUME NEW q \in Procs
          PROVE  ProcInv(blocks, height'[q], snapshot'[q], pending[q], saving[q])
      <4>1. ProcInv(blocks, height[q], snapshot[q], pending[q], saving[q])
        BY Zenon DEF IInv, ProcsInv
      <4>2. height'[q] = IF q = p THEN Height(s) ELSE height[q]
        BY Zenon, <3>1 DEF IInv, Domains
      <4>3. CASE q = p
        BY <1>1, <2>2, <4>1, <4>2, <4>3 DEF ProcInv
      <4>4. CASE q # p
        BY Zenon, <2>2, <4>1, <4>2, <4>4 DEF ProcInv
      <4> QED
        BY Zenon, <4>3, <4>4
    <3> QED
      BY Zenon, <1>2, <2>3, <3>2, <3>3, <3>4 DEF IInv, ProcsInv, storeVars
  <2>5. CASE ~(Height(s) > height[p])
    <3>1. UNCHANGED <<height, waiting>>
      BY Zenon, <1>2, <1>4, <2>5 DEF SetState
    <3>2. Domains' /\ WaitsInv'
      BY Zenon, <1>2, <2>1, <3>1 DEF IInv, Domains, Labels, WaitsInv
    <3>3. ASSUME NEW q \in Procs
          PROVE  ProcInv(blocks, height[q], snapshot'[q], pending[q], saving[q])
      <4>1. ProcInv(blocks, height[q], snapshot[q], pending[q], saving[q])
        BY Zenon DEF IInv, ProcsInv
      <4>2. height[q] \in Int
        <5>1. height[q] \in DOMAIN blocks \cup {0}
          BY Zenon, <4>1 DEF ProcInv
        <5> QED
          BY <5>1, CurrentState
      <4> QED
        BY <1>1, <2>2, <2>5, <4>1, <4>2 DEF ProcInv
    <3> QED
      BY Zenon, <1>2, <2>3, <3>1, <3>2, <3>3 DEF IInv, ProcsInv, storeVars
  <2> QED BY Zenon, <2>4, <2>5
<1> QED BY Zenon, <1>3, <1>4

\* Recover reads the saved snapshot and its block.
LEMMA RecoverLoadInv ==
  ASSUME IInv, NEW g \in Goroutines, RecoverLoad(g)
  PROVE  IInv'
<1>1. /\ Good(blocks, stored)
      /\ block[g] = NilHeader
  BY Zenon, CurrentState DEF RecoverLoad, CallInv, IInv
<1>2. PICK l \in {"loaded", "height"} :
        /\ Goto(g, l)
        /\ DOMAIN block' = Goroutines
        /\ block'[g] = stored.header
        /\ \A k \in Goroutines \ {g} : block'[k] = block[k]
  <2>1. CASE Height(stored) > 0
    <3>1. blocks[Height(stored)] = stored.header
      BY <1>1, <2>1 DEF Good, Matches, StateAt
    <3> QED
      BY Zenon, <2>1, <3>1 DEF RecoverLoad, IInv, Domains
  <2>2. CASE ~(Height(stored) > 0)
    <3>1. Height(stored) = 0
      BY <1>1, <2>2, ChainAssumptions DEF Good, IsSnapshot
    <3>2. stored.header = NilHeader
      BY Zenon, <1>1, <3>1 DEF Good, Matches, StateAt, Empty
    <3>3. block' = block /\ Goto(g, "height")
      BY Zenon, <2>2 DEF RecoverLoad
    <3> QED
      BY Zenon, <1>1, <3>2, <3>3 DEF IInv, Domains
  <2> QED BY Zenon, <2>1, <2>2
<1>3. /\ work' = [work EXCEPT ![g] = stored]
      /\ UNCHANGED <<storeVars, up, chainVars, saving, goal, waiting, crashes>>
  BY Zenon DEF RecoverLoad
<1>4. Domains' /\ CallChanges(g)
  BY Zenon, <1>2, <1>3 DEF Goto, IInv, Domains, Labels, CallChanges, chainVars
<1>5. pc'[g] = l /\ block'[g] = stored.header /\ work'[g] = stored
  BY Zenon, <1>2, <1>3 DEF Goto, IInv, Domains
<1>6. CallInv(blocks, snapshot[ProcOf[g]], pc'[g], block'[g], work'[g])
  BY Zenon, <1>1, <1>5 DEF CallInv, Good
<1> QED
  BY Zenon, <1>3, <1>4, <1>6, LocalStep DEF chainVars

\* Recover applies the next stored block.
LEMMA ReplayBlockInv ==
  ASSUME IInv, NEW g \in Goroutines, ReplayBlock(g)
  PROVE  IInv'
<1> DEFINE h == Height(work[g]) + 1
           b == blocks[h]
           r == ApplyBlock(work[g], b)
<1>1. CASE Return(g)
  BY Zenon, <1>1, ReturnInv DEF ReplayBlock
<1>2. CASE /\ h \in DOMAIN blocks
           /\ b.contractsRoot = r.snap.contracts
           /\ block' = [block EXCEPT ![g] = b]
           /\ work' = [work EXCEPT ![g] = r.snap]
           /\ UNCHANGED <<pc, goal>>
  <2>1. Good(blocks, work[g])
    <3>1. CallInv(blocks, snapshot[ProcOf[g]], pc[g], block[g], work[g])
      BY Zenon, CurrentState
    <3> QED
      BY Zenon, <3>1 DEF ReplayBlock, CallInv, Good
  <2>2. /\ b.height = Height(work[g]) + 1
        /\ b.height <= MaxHeight
        /\ b.timestampMS \in Nat
    BY <1>2, CurrentState, ChainAssumptions DEF StoreInv
  <2>3. /\ r.snap.header = b /\ IsSnapshot(r.snap)
        /\ Matches(Put(blocks, b), r.snap)
    BY Zenon, <1>2, <2>1, <2>2, CurrentState, ApplyBlockMatches
  <2>4. Good(blocks, r.snap)
    <3>1. /\ DOMAIN Put(blocks, b) = DOMAIN blocks
          /\ \A i \in DOMAIN blocks : Put(blocks, b)[i] = blocks[i]
      BY Zenon, <1>2, <2>2 DEF Put
    <3>2. StoreInv(Put(blocks, b)) /\ Grows(Put(blocks, b), blocks)
      BY Zenon, <3>1, CurrentState DEF StoreInv, Grows
    <3> QED
      BY Zenon, <2>3, <3>2, GoodMono DEF Good
  <2> HIDE DEF r
  <2>5. Domains' /\ CallChanges(g)
    BY Zenon, <1>2 DEF ReplayBlock, IInv, Domains, CallChanges, chainVars
  <2>6. pc'[g] = "replay" /\ block'[g] = b /\ work'[g] = r.snap
    BY Zenon, <1>2 DEF ReplayBlock, IInv, Domains
  <2>7. CallInv(blocks, snapshot[ProcOf[g]], pc'[g], block'[g], work'[g])
    BY Zenon, <2>3, <2>4, <2>6 DEF CallInv, Good
  <2> QED
    BY Zenon, <2>5, <2>7, LocalStep DEF ReplayBlock, chainVars
<1> QED
  BY Zenon, <1>1, <1>2 DEF ReplayBlock

\* Recover has applied all of them.
LEMMA ReplayDoneInv ==
  ASSUME IInv, NEW g \in Goroutines, ReplayDone(g)
  PROVE  IInv'
<1> DEFINE b == block[g]
           s == work[g]
<1>1. CASE Return(g)
  BY Zenon, <1>1, ReturnInv DEF ReplayDone
<1>2. CASE /\ b # NilHeader
           /\ Goto(g, "save") /\ UNCHANGED <<block, work, goal>>
  <2>1. Good(blocks, s) /\ b = s.header
    BY Zenon, CurrentState DEF ReplayDone, CallInv, Good
  <2>2. Height(s) # 0
    BY Zenon, <1>2, <2>1 DEF Good, Matches, StateAt, Empty
  <2>3. b.height \in DOMAIN blocks /\ blocks[b.height] = b
    BY Zenon, <2>1, <2>2 DEF Good, Matches, StateAt, Height
  <2>4. b.height \in 1..MaxHeight /\ b.timestampMS \in Nat
    BY Zenon, <2>3, CurrentState DEF StoreInv
  <2>5. b.height - 1 \in DOMAIN blocks \cup {0}
    BY <2>3, <2>4, ChainAssumptions DEF IInv, StoreInv
  <2>6. Matches(Put(blocks, b), s)
    <3>1. Grows(blocks, Put(blocks, b))
      BY Zenon, <2>3 DEF Grows, Put
    <3> QED
      BY Zenon, <2>1, <3>1, CurrentState, GoodMono DEF Good
  <2>7. Domains' /\ CallChanges(g)
    BY Zenon, <1>2 DEF ReplayDone, Goto, IInv, Domains, Labels, CallChanges, chainVars
  <2>8. pc'[g] = "save" /\ block'[g] = b /\ work'[g] = s
    BY Zenon, <1>2 DEF Goto, IInv, Domains
  <2>9. CallInv(blocks, snapshot[ProcOf[g]], pc'[g], block'[g], work'[g])
    BY Zenon, <2>1, <2>4, <2>5, <2>6, <2>8 DEF CallInv, Good
  <2> QED
    BY Zenon, <2>7, <2>9, LocalStep DEF ReplayDone, chainVars
<1> QED
  BY Zenon, <1>1, <1>2 DEF ReplayDone

-----------------------------------------------------------------------------
(***************************************************************************)
(* The invariant.  Every stored block replays, every snapshot is exactly   *)
(* the state of its height, and a block that is about to be saved replays  *)
(* too unless the Chain has passed it.                                     *)
(***************************************************************************)
StoreReplays(bl) ==
  \A h \in DOMAIN bl : /\ Replays(StateAt(bl, h - 1), bl[h], StateAt(bl, h))
                       /\ RightTxs(Pool, bl[h])

Exact(bl, s) == s = StateAt(bl, Height(s))

\* A goroutine at label l with block b, snapshot s and goal n, while the
\* state of its Chain is cur.
CallExact(bl, cur, l, b, s, n) ==
  /\ l \in {"generate", "finalize", "queue", "mark", "set", "announce",
            "loaded", "height", "replay"} => Exact(bl, s)
  /\ l = "save" =>
       \/ b.height <= Height(cur)
       \/ /\ Replays(StateAt(bl, b.height - 1), b, s) /\ RightTxs(Pool, b)
          /\ s = StateAt(Put(bl, b), b.height)
  /\ l = "applied" => b.height <= Height(cur) \/ Exact(bl, s)
  /\ l = "replay" => n \in DOMAIN bl \cup {0}

ReplayInv ==
  /\ StoreReplays(blocks)
  /\ \A s \in LiveSnapshots : Exact(blocks, s)
  /\ \A g \in Goroutines :
       CallExact(blocks, snapshot[ProcOf[g]], pc[g], block[g], work[g], goal[g])

-----------------------------------------------------------------------------
\* More blocks do not change the state of a height.
LEMMA StateMono ==
  ASSUME NEW bl, NEW bl2, StoreInv(bl), Grows(bl, bl2),
         NEW h \in DOMAIN bl \cup {0}
  PROVE  StateAt(bl2, h) = StateAt(bl, h)
<1>1. CASE h = 0
  BY Zenon, <1>1 DEF StateAt
<1>2. CASE h # 0
  <2>1. PICK n \in 0..MaxHeight : DOMAIN bl = 1..n
    BY Zenon DEF StoreInv
  <2>2. h \in 1..n /\ bl2[h] = bl[h] /\ bl2[1] = bl[1]
    BY <1>2, <2>1, ChainAssumptions DEF Grows
  <2>3. [i \in 1..h |-> BlockID(bl2[i])] = [i \in 1..h |-> BlockID(bl[i])]
    BY <2>1, <2>2 DEF Grows
  <2> QED
    BY Zenon, <1>2, <2>2, <2>3 DEF StateAt
<1> QED
  BY Zenon, <1>1, <1>2

\* The state that b commits to does not change when others save blocks.
LEMMA PutStateMono ==
  ASSUME NEW bl, NEW bl2, NEW b, StoreInv(bl), Grows(bl, bl2),
         b.height \in 1..MaxHeight, b.height - 1 \in DOMAIN bl \cup {0}
  PROVE  StateAt(Put(bl2, b), b.height) = StateAt(Put(bl, b), b.height)
<1> DEFINE h == b.height
<1>1. PICK n \in 0..MaxHeight : DOMAIN bl = 1..n
  BY Zenon DEF StoreInv
<1>2. \A i \in 1..h : Put(bl2, b)[i] = Put(bl, b)[i]
  <2>1. \A i \in 1..h : i = h \/ i \in DOMAIN bl
    BY <1>1, ChainAssumptions
  <2> QED
    BY Zenon, <2>1 DEF Grows, Put
<1>3. [i \in 1..h |-> BlockID(Put(bl2, b)[i])]
        = [i \in 1..h |-> BlockID(Put(bl, b)[i])]
  BY Zenon, <1>2
<1>4. h # 0 /\ h \in 1..h /\ 1 \in 1..h
  BY ChainAssumptions
<1> QED
  BY Zenon, <1>2, <1>3, <1>4 DEF StateAt

\* The state of a height, by its fields.
LEMMA StateFields ==
  ASSUME NEW bl, StoreInv(bl), NEW h \in DOMAIN bl
  PROVE  /\ h \in Nat \ {0}
         /\ IsState(StateAt(bl, h))
         /\ StateAt(bl, h).header = bl[h] /\ Height(StateAt(bl, h)) = h
         /\ StateAt(bl, h).initial = BlockID(bl[1])
         /\ StateAt(bl, h).initial # ZeroID
         /\ StateAt(bl, h).refs = [i \in 1..h |-> BlockID(bl[i])]
<1>1. h \in Nat \ {0} /\ bl[h].height = h
  BY ChainAssumptions DEF StoreInv
<1>2. PICK r : r = [i \in 1..h |-> BlockID(bl[i])]
  BY Zenon
<1>3. StateAt(bl, h) =
        State(bl[h].contractsRoot, bl[h].noncesRoot, bl[h], BlockID(bl[1]), r)
  BY Zenon, <1>1, <1>2 DEF StateAt, State
<1>4. BlockID(bl[1]) # ZeroID
  BY Zenon DEF BlockID, ZeroID
<1> QED
  BY <1>1, <1>2, <1>3, <1>4 DEF State, IsState, Height

\* The state after a block put on top of height h.
LEMMA NextState ==
  ASSUME NEW bl, StoreInv(bl), NEW h \in DOMAIN bl \cup {0}, NEW b,
         b.height = h + 1
  PROVE  StateAt(Put(bl, b), b.height) =
           State(b.contractsRoot, b.noncesRoot, b,
                 IF h = 0 THEN BlockID(b) ELSE StateAt(bl, h).initial,
                 Append(StateAt(bl, h).refs, BlockID(b)))
<1>1. PICK n \in 0..MaxHeight : DOMAIN bl = 1..n
  BY Zenon DEF StoreInv
<1>2. h \in 0..n /\ h \in Nat
  BY <1>1, ChainAssumptions
<1>3. PICK q : q = Put(bl, b)
  BY Zenon
<1>4. q[h + 1] = b /\ \A i \in 1..h : q[i] = bl[i]
  BY <1>1, <1>2, <1>3, ChainAssumptions DEF Put
<1>5. PICK r : r = StateAt(bl, h).refs
  BY Zenon
<1>6. r = [i \in 1..h |-> BlockID(bl[i])]
  <2>1. CASE h = 0
    BY <1>5, <2>1 DEF StateAt, Empty
  <2>2. CASE h # 0
    BY <1>5, <2>2, StateFields
  <2> QED BY Zenon, <2>1, <2>2
<1>7. Append(r, BlockID(b)) = [i \in 1..(h + 1) |-> BlockID(q[i])]
  <2>1. Append(r, BlockID(b)) = [i \in 1..(h + 1) |->
          IF i <= h THEN BlockID(bl[i]) ELSE BlockID(b)]
    BY <1>2, <1>6
  <2> QED
    BY <1>2, <1>4, <2>1
<1>8. BlockID(q[1]) = IF h = 0 THEN BlockID(b) ELSE StateAt(bl, h).initial
  <2>1. CASE h = 0
    BY <1>4, <2>1
  <2>2. CASE h # 0
    <3>1. q[1] = bl[1]
      BY <1>2, <1>4, <2>2
    <3>2. StateAt(bl, h).initial = BlockID(bl[1])
      BY Zenon, <2>2, StateFields
    <3> QED
      BY Zenon, <2>2, <3>1, <3>2
  <2> QED BY Zenon, <2>1, <2>2
<1>9. StateAt(q, h + 1) = State(b.contractsRoot, b.noncesRoot, b, BlockID(q[1]),
                               [i \in 1..(h + 1) |-> BlockID(q[i])])
  BY <1>2, <1>4 DEF StateAt, State
<1> QED
  BY Zenon, <1>3, <1>5, <1>7, <1>8, <1>9

\* What a generator makes at the state of a stored block.
LEMMA GenerateExact ==
  ASSUME GeneratedBlocksReplay,
         NEW bl, StoreInv(bl), StoreReplays(bl), NEW h \in DOMAIN bl,
         NEW d \in Delays, NEW txs \in Batches,
         NEW m, m = GenerateBlock(StateAt(bl, h), bl[h], bl[h].timestampMS + d, txs)
  PROVE  /\ m.block.height = h + 1
         /\ Replays(StateAt(bl, h), m.block, m.snap) /\ RightTxs(Pool, m.block)
         /\ m.snap = StateAt(Put(bl, m.block), h + 1)
<1>1. PICK s : s = StateAt(bl, h)
  BY Zenon
<1>2. PICK ts : ts = bl[h].timestampMS + d
  BY Zenon
<1>3. PICK b : b = m.block
  BY Zenon
<1>4. /\ h \in Nat \ {0} /\ IsState(s) /\ s.header = bl[h] /\ s.initial # ZeroID
      /\ s.refs = [i \in 1..h |-> BlockID(bl[i])]
  BY <1>1, StateFields
<1>5. PICK S : s.refs \in Seq(S)
  <2>1. s.refs \in Seq({BlockID(bl[i]) : i \in 1..h})
    BY <1>4
  <2> QED BY Zenon, <2>1
<1>6. bl[h].version = 3 /\ bl[h].refsCount \in Nat
  BY Zenon DEF StoreReplays, Replays
<1>7. bl[h].height = h /\ bl[h].timestampMS \in Nat
  BY Zenon DEF StoreInv
<1>8. ts \in Nat /\ ts > bl[h].timestampMS
  BY <1>2, <1>7, ChainAssumptions
<1>9. IsPool(Pool)
  BY Zenon, BatchAssumptions DEF IsPool, Pool
<1>10. txs \in Seq(Pool)
  <2>1. txs \in Seq(Range(txs)) /\ Range(txs) \subseteq Pool
    BY Zenon, BatchAssumptions DEF Pool
  <2> QED BY <2>1
<1>11. m = GenerateBlock(s, s.header, ts, txs)
  BY Zenon, <1>1, <1>2, <1>4
<1>12. /\ Replays(s, b, m.snap) /\ RightTxs(Pool, b)
       /\ m.snap = State(b.contractsRoot, b.noncesRoot, b, s.initial,
                         Append(s.refs, BlockID(b)))
  <2>1. /\ IsState(s) /\ s.initial # ZeroID /\ s.refs \in Seq(S)
        /\ s.header.height \in Nat \ {0} /\ s.header.timestampMS \in Nat
        /\ s.header.version = 3 /\ s.header.refsCount \in Nat
        /\ ts \in Nat /\ ts > s.header.timestampMS
        /\ IsPool(Pool) /\ txs \in Seq(Pool)
        /\ m = GenerateBlock(s, s.header, ts, txs)
    BY Zenon, <1>4, <1>5, <1>6, <1>7, <1>8, <1>9, <1>10, <1>11
  <2> QED
    BY ZenonT(30), <1>3, <2>1 DEF GeneratedBlocksReplay
<1>13. b.height = h + 1
  BY Zenon, <1>3, <1>7 DEF GenerateBlock
<1>14. StateAt(Put(bl, b), b.height) =
         State(b.contractsRoot, b.noncesRoot, b,
               IF h = 0 THEN BlockID(b) ELSE s.initial,
               Append(s.refs, BlockID(b)))
  BY <1>1, <1>13, NextState
<1> QED
  BY Zenon, <1>1, <1>3, <1>4, <1>12, <1>13, <1>14

\* The initial block.
LEMMA InitialExact ==
  ASSUME InitialBlockReplays,
         NEW bl, StoreInv(bl), NEW b, b = NewInitialBlock(InitialTimeMS)
  PROVE  /\ Replays(StateAt(bl, 0), b, StateAt(Put(bl, b), 1))
         /\ RightTxs(Pool, b)
<1>1. b.height = 0 + 1 /\ b.contractsRoot = {} /\ b.noncesRoot = {}
  BY DEF NewInitialBlock
<1>2. PICK r : r = Append(Empty.refs, BlockID(b))
  BY Zenon
<1>3. PICK s : s = State({}, {}, b, BlockID(b), r)
  BY Zenon
<1>4. Replays(Empty, b, s) /\ RightTxs(Pool, b)
  BY Zenon, <1>2, <1>3 DEF InitialBlockReplays
<1>5. StateAt(bl, 0) = Empty
  BY Zenon DEF StateAt
<1>6. StateAt(Put(bl, b), b.height) =
        State(b.contractsRoot, b.noncesRoot, b,
              IF 0 = 0 THEN BlockID(b) ELSE StateAt(bl, 0).initial,
              Append(StateAt(bl, 0).refs, BlockID(b)))
  BY Zenon, <1>1, NextState
<1>7. StateAt(Put(bl, b), 1) = s
  BY <1>1, <1>2, <1>3, <1>5, <1>6
<1> QED
  BY Zenon, <1>4, <1>5, <1>7

\* The store with one more block.
LEMMA PutReplays ==
  ASSUME NEW bl, NEW b, StoreInv(bl), StoreReplays(bl),
         b.height \in 1..MaxHeight, b.height - 1 \in DOMAIN bl \cup {0},
         b.timestampMS \in Nat, b.height \in DOMAIN bl => bl[b.height] = b,
         \/ b.height \in DOMAIN bl
         \/ /\ Replays(StateAt(bl, b.height - 1), b, StateAt(Put(bl, b), b.height))
            /\ RightTxs(Pool, b)
  PROVE  StoreReplays(Put(bl, b))
<1>1. PICK q : q = Put(bl, b)
  BY Zenon
<1>2. Grows(bl, q)
  BY Zenon, <1>1, PutStore
<1>3. DOMAIN q = DOMAIN bl \cup {b.height} /\ q[b.height] = b
  BY Zenon, <1>1 DEF Put
<1>4. ASSUME NEW h \in DOMAIN bl
      PROVE  Replays(StateAt(q, h - 1), q[h], StateAt(q, h)) /\ RightTxs(Pool, q[h])
  <2>1. PICK n \in 0..MaxHeight : DOMAIN bl = 1..n
    BY Zenon DEF StoreInv
  <2>2. h - 1 \in DOMAIN bl \cup {0} /\ h \in DOMAIN bl \cup {0}
    BY <2>1, ChainAssumptions
  <2>3. StateAt(q, h - 1) = StateAt(bl, h - 1) /\ StateAt(q, h) = StateAt(bl, h)
    BY Zenon, <1>2, <2>2, StateMono
  <2> QED
    BY Zenon, <1>2, <2>3 DEF StoreReplays, Grows
<1>5. CASE b.height \in DOMAIN bl
  BY Zenon, <1>1, <1>3, <1>4, <1>5 DEF StoreReplays
<1>6. CASE b.height \notin DOMAIN bl
  <2>1. StateAt(q, b.height - 1) = StateAt(bl, b.height - 1)
    BY Zenon, <1>2, StateMono
  <2> QED
    BY Zenon, <1>1, <1>3, <1>4, <1>6, <2>1 DEF StoreReplays
<1> QED
  BY Zenon, <1>5, <1>6

-----------------------------------------------------------------------------
(***************************************************************************)
(* Steps.                                                                  *)
(***************************************************************************)
LEMMA ExactMono ==
  ASSUME NEW bl, NEW bl2, StoreInv(bl), Grows(bl, bl2),
         NEW s, Matches(bl, s), Exact(bl, s)
  PROVE  Exact(bl2, s)
<1>1. Height(s) \in DOMAIN bl \cup {0}
  BY Zenon DEF Matches
<1>2. StateAt(bl2, Height(s)) = StateAt(bl, Height(s))
  BY Zenon, <1>1, StateMono
<1> QED
  BY Zenon, <1>2 DEF Exact

\* The store and the Chain may move on under a goroutine.
LEMMA CallExactMono ==
  ASSUME NEW bl, NEW bl2, StoreInv(bl), Grows(bl, bl2),
         NEW cur, NEW cur2, Height(cur) \in Int, Height(cur2) \in Int,
         Height(cur) <= Height(cur2),
         NEW l, NEW b, NEW s, NEW n, CallInv(bl, cur, l, b, s),
         CallExact(bl, cur, l, b, s, n)
  PROVE  CallExact(bl2, cur2, l, b, s, n)
<1>1. Matches(bl, s) /\ Exact(bl, s) => Exact(bl2, s)
  BY Zenon, ExactMono
<1>2. l \in {"generate", "finalize", "queue", "mark", "set", "announce",
             "loaded", "height", "replay"} => Exact(bl2, s)
  BY Zenon, <1>1 DEF CallInv, CallExact
<1>3. ASSUME l = "applied" PROVE b.height <= Height(cur2) \/ Exact(bl2, s)
  <2>1. b.height \in DOMAIN bl /\ (b.height <= Height(cur) \/ Matches(bl, s))
    BY Zenon, <1>3 DEF CallInv
  <2>2. b.height \in Int
    BY <2>1 DEF StoreInv
  <2>3. b.height <= Height(cur) \/ Exact(bl, s)
    BY Zenon, <1>3 DEF CallExact
  <2> QED
    BY <1>1, <2>1, <2>2, <2>3
<1>4. ASSUME l = "save"
      PROVE  \/ b.height <= Height(cur2)
             \/ /\ Replays(StateAt(bl2, b.height - 1), b, s) /\ RightTxs(Pool, b)
                /\ s = StateAt(Put(bl2, b), b.height)
  <2>1. b.height \in 1..MaxHeight /\ b.height - 1 \in DOMAIN bl \cup {0}
    BY Zenon, <1>4 DEF CallInv
  <2>2. StateAt(bl2, b.height - 1) = StateAt(bl, b.height - 1)
    BY Zenon, <2>1, StateMono
  <2>3. StateAt(Put(bl2, b), b.height) = StateAt(Put(bl, b), b.height)
    BY Zenon, <2>1, PutStateMono
  <2>4. b.height <= Height(cur) => b.height <= Height(cur2)
    BY <2>1, ChainAssumptions
  <2> QED
    BY Zenon, <1>4, <2>2, <2>3, <2>4 DEF CallExact
<1>5. l = "replay" => n \in DOMAIN bl2 \cup {0}
  BY Zenon DEF CallExact, Grows
<1> QED
  BY Zenon, <1>2, <1>3, <1>4, <1>5 DEF CallExact

\* A goroutine for which nothing changes but the store and its Chain.
SameCall(g) ==
  /\ pc'[g] = pc[g] /\ block'[g] = block[g]
  /\ work'[g] = work[g] /\ goal'[g] = goal[g]
  /\ Height(snapshot[ProcOf[g]]) <= Height(snapshot'[ProcOf[g]])

\* A snapshot that the Chain or the Store holds is that of its height.
LEMMA LiveMatch ==
  ASSUME IInv, NEW s \in LiveSnapshots
  PROVE  Matches(blocks, s)
<1>1. CASE s = stored
  BY Zenon, <1>1 DEF IInv, Good
<1>2. CASE \E p \in Procs : s = snapshot[p]
  BY Zenon, <1>2 DEF IInv, ProcsInv, ProcInv, Good
<1>3. ASSUME NEW p \in Procs, NEW q \in {pending[p], saving[p]}, s \in Range(q)
      PROVE  Matches(blocks, s)
  <2>1. GoodQueue(blocks, q)
    BY Zenon DEF IInv, ProcsInv, ProcInv
  <2>2. PICK i \in DOMAIN q : s = q[i]
    BY Zenon, <1>3 DEF Range
  <2>3. DOMAIN <<>> = {} /\ DOMAIN <<q[1]>> = {1}
    OBVIOUS
  <2>4. i = 1 /\ Good(blocks, q[1])
    BY Zenon, <2>1, <2>2, <2>3 DEF GoodQueue
  <2> QED
    BY Zenon, <2>2, <2>4 DEF Good
<1> QED
  BY Zenon, <1>1, <1>2, <1>3 DEF LiveSnapshots

\* A step preserves ReplayInv if the store still replays and if every snapshot
\* and every call is as before or exact.
LEMMA ReplayStep ==
  ASSUME IInv, IInv', ReplayInv, Grows(blocks, blocks'), StoreReplays(blocks'),
         \A s \in LiveSnapshots' : s \in LiveSnapshots \/ Exact(blocks', s),
         \A g \in Goroutines :
           \/ SameCall(g)
           \/ CallExact(blocks', snapshot'[ProcOf[g]], pc'[g], block'[g],
                        work'[g], goal'[g])
  PROVE  ReplayInv'
<1>1. StoreInv(blocks)
  BY Zenon DEF IInv
<1>2. ASSUME NEW s \in LiveSnapshots' PROVE Exact(blocks', s)
  <2>1. CASE s \in LiveSnapshots
    <3>1. Exact(blocks, s)
      BY Zenon, <2>1 DEF ReplayInv
    <3> QED
      BY Zenon, <1>1, <2>1, <3>1, LiveMatch, ExactMono
  <2> QED BY Zenon, <2>1
<1>3. ASSUME NEW g \in Goroutines, SameCall(g)
      PROVE  CallExact(blocks', snapshot'[ProcOf[g]], pc'[g], block'[g],
                       work'[g], goal'[g])
  <2>1. PICK cur : cur = snapshot[ProcOf[g]]
    BY Zenon
  <2>2. PICK cur2 : cur2 = snapshot'[ProcOf[g]]
    BY ZenonT(30)
  <2>3. Height(cur) \in Int /\ CallInv(blocks, cur, pc[g], block[g], work[g])
    BY SMTT(30), <2>1, CurrentState, ChainAssumptions
  <2>4. Height(cur2) \in Int
    <3>1. ProcOf[g] \in Procs
      BY Zenon, ChainAssumptions
    <3>2. IsSnapshot(snapshot'[ProcOf[g]])
      BY Zenon, <3>1 DEF IInv, ProcsInv, ProcInv, Good
    <3> QED
      BY <2>2, <3>2, ChainAssumptions DEF IsSnapshot
  <2>5. CallExact(blocks, cur, pc[g], block[g], work[g], goal[g])
    BY Zenon, <2>1 DEF ReplayInv
  <2>6. Height(cur) <= Height(cur2)
    BY Zenon, <1>3, <2>1, <2>2 DEF SameCall
  <2>7. CallExact(blocks', cur2, pc[g], block[g], work[g], goal[g])
    BY Zenon, <1>1, <2>3, <2>4, <2>5, <2>6, CallExactMono
  <2> QED
    BY Zenon, <1>3, <2>2, <2>7 DEF SameCall
<1>4. ASSUME NEW g \in Goroutines
      PROVE  CallExact(blocks', snapshot'[ProcOf[g]], pc'[g], block'[g],
                       work'[g], goal'[g])
  BY Zenon, <1>3
<1> QED
  BY Zenon, <1>2, <1>4 DEF ReplayInv

\* The variables of the other goroutines.
OthersSame(g) ==
  \A k \in Goroutines \ {g} :
    /\ pc'[k] = pc[k] /\ block'[k] = block[k]
    /\ work'[k] = work[k] /\ goal'[k] = goal[k]

\* A step of g that does not install leaves the calls of the others alone.
LEMMA OthersCall ==
  ASSUME IInv, NEW g \in Goroutines, OthersSame(g), snapshot' = snapshot,
         NEW k \in Goroutines, k # g
  PROVE  SameCall(k)
<1>1. Height(snapshot[ProcOf[k]]) <= Height(snapshot'[ProcOf[k]])
  BY CurrentState, ChainAssumptions
<1> QED
  BY Zenon, <1>1 DEF OthersSame, SameCall

\* The frequent case: only the variables of g change.
LEMMA LocalReplay ==
  ASSUME IInv, IInv', ReplayInv, NEW g \in Goroutines, OthersSame(g),
         UNCHANGED <<blocks, stored, snapshot, pending, saving>>,
         CallExact(blocks, snapshot[ProcOf[g]], pc'[g], block'[g], work'[g],
                   goal'[g])
  PROVE  ReplayInv'
<1>1. Grows(blocks, blocks') /\ StoreReplays(blocks')
  BY Zenon DEF Grows, ReplayInv
<1>2. \A s \in LiveSnapshots' : s \in LiveSnapshots
  BY Zenon DEF LiveSnapshots
<1>3. \A k \in Goroutines :
        \/ SameCall(k)
        \/ CallExact(blocks', snapshot'[ProcOf[k]], pc'[k], block'[k],
                     work'[k], goal'[k])
  BY Zenon, OthersCall
<1> QED
  BY Zenon, <1>1, <1>2, <1>3, ReplayStep

\* The end of a call preserves ReplayInv.
LEMMA ReturnReplays ==
  ASSUME IInv, IInv', ReplayInv, NEW g \in Goroutines, Return(g),
         UNCHANGED <<blocks, stored, snapshot, pending, saving>>
  PROVE  ReplayInv'
<1>1. OthersSame(g) /\ pc'[g] = "idle"
  BY Zenon DEF Return, OthersSame, IInv, Domains
<1>2. CallExact(blocks, snapshot[ProcOf[g]], pc'[g], block'[g], work'[g], goal'[g])
  BY Zenon, <1>1 DEF CallExact
<1> QED
  BY Zenon, <1>1, <1>2, LocalReplay

\* Going on to another label with the same exact snapshot.
LEMMA GotoReplays ==
  ASSUME IInv, IInv', ReplayInv, NEW g \in Goroutines,
         pc[g] \in {"finalize", "queue", "mark", "set", "loaded"},
         NEW l \in {"queue", "mark", "set", "announce", "height"}, Goto(g, l),
         UNCHANGED <<blocks, stored, snapshot, pending, saving, block, work, goal>>
  PROVE  ReplayInv'
<1>1. OthersSame(g) /\ pc'[g] = l
  BY Zenon DEF Goto, OthersSame, IInv, Domains
<1>2. Exact(blocks, work[g])
  BY Zenon DEF ReplayInv, CallExact
<1>3. CallExact(blocks, snapshot[ProcOf[g]], pc'[g], block'[g], work'[g], goal'[g])
  BY Zenon, <1>1, <1>2 DEF CallExact
<1> QED
  BY Zenon, <1>1, <1>3, LocalReplay

\* The state of a Chain is exact.
LEMMA CurrentExact ==
  ASSUME IInv, ReplayInv, NEW g \in Goroutines,
         NEW cur, cur = snapshot[ProcOf[g]]
  PROVE  /\ cur = StateAt(blocks, Height(cur))
         /\ Height(cur) \in DOMAIN blocks \cup {0}
         /\ Height(cur) \in 0..MaxHeight
<1>1. ProcOf[g] \in Procs
  BY Zenon, ChainAssumptions
<1>2. cur \in LiveSnapshots
  BY Zenon, <1>1 DEF LiveSnapshots
<1>3. Exact(blocks, cur) /\ Matches(blocks, cur)
  BY Zenon, <1>2, LiveMatch DEF ReplayInv
<1> QED
  BY Zenon, <1>3, CurrentState DEF Exact, Matches

\* Applying a stored block to the state before it.
LEMMA StoredApplies ==
  ASSUME NEW bl, StoreInv(bl), StoreReplays(bl), NEW h \in DOMAIN bl, NEW s,
         s = StateAt(bl, h - 1)
  PROVE  /\ ApplyBlock(s, bl[h]) = [ok |-> TRUE, snap |-> StateAt(bl, h)]
         /\ Exact(bl, StateAt(bl, h))
<1>1. ApplyBlock(s, bl[h]) = [ok |-> TRUE, snap |-> StateAt(bl, h)]
  BY Zenon DEF StoreReplays, Replays
<1>2. Height(StateAt(bl, h)) = h
  BY Zenon, StateFields
<1> QED
  BY Zenon, <1>1, <1>2 DEF Exact

\* CommitBlock applies its block to the state it reads.
LEMMA ReadStateReplays ==
  ASSUME IInv, IInv', ReplayInv, NEW g \in Goroutines, ReadState(g)
  PROVE  ReplayInv'
<1>1. PICK cur : cur = snapshot[ProcOf[g]]
  BY Zenon
<1>2. PICK b : b = block[g]
  BY Zenon
<1>3. PICK r : r = ApplyBlock(cur, b)
  BY Zenon
<1>4. UNCHANGED <<blocks, stored, snapshot, pending, saving>>
  BY Zenon DEF ReadState, storeVars, chainVars
<1>5. \/ Return(g)
      \/ /\ ~(b.height <= Height(cur))
         /\ work' = [work EXCEPT ![g] = r.snap]
         /\ Goto(g, "finalize") /\ UNCHANGED <<block, goal>>
  BY Zenon, <1>1, <1>2, <1>3 DEF ReadState
<1>6. CASE Return(g)
  BY Zenon, <1>4, <1>6, ReturnReplays
<1>7. CASE /\ ~(b.height <= Height(cur))
           /\ work' = [work EXCEPT ![g] = r.snap]
           /\ Goto(g, "finalize") /\ UNCHANGED <<block, goal>>
  <2>1. OthersSame(g) /\ pc'[g] = "finalize" /\ work'[g] = r.snap
    BY Zenon, <1>7 DEF Goto, OthersSame, IInv, Domains
  <2>2. CallInv(blocks, cur, "saved", b, work[g])
    BY Zenon, <1>1, <1>2, CurrentState DEF ReadState
  <2>3. /\ b.height \in DOMAIN blocks /\ blocks[b.height] = b
        /\ b.height <= Height(cur) + 1
    BY Zenon, <2>2 DEF CallInv
  <2>4. StoreInv(blocks) /\ StoreReplays(blocks)
    BY Zenon DEF IInv, ReplayInv
  <2>5. cur = StateAt(blocks, Height(cur)) /\ Height(cur) \in 0..MaxHeight
    BY Zenon, <1>1, CurrentExact
  <2>6. b.height \in Int
    BY <2>3, <2>4 DEF StoreInv
  <2>7. Height(cur) = b.height - 1
    BY SMTT(30), <1>7, <2>3, <2>5, <2>6, ChainAssumptions
  <2>8. r.snap = StateAt(blocks, b.height) /\ Exact(blocks, r.snap)
    BY <1>3, <2>3, <2>4, <2>5, <2>7, StoredApplies
  <2>9. CallExact(blocks, snapshot[ProcOf[g]], pc'[g], block'[g], work'[g], goal'[g])
    BY Zenon, <2>1, <2>8 DEF CallExact
  <2> QED
    BY Zenon, <1>4, <2>1, <2>9, LocalReplay
<1> QED
  BY Zenon, <1>5, <1>6, <1>7

\* A generator takes the state.
LEMMA TakeStateReplays ==
  ASSUME IInv, IInv', ReplayInv, NEW g \in Goroutines, TakeState(g)
  PROVE  ReplayInv'
<1>1. UNCHANGED <<blocks, stored, snapshot, pending, saving>>
  BY Zenon DEF TakeState, storeVars, chainVars
<1>2. /\ OthersSame(g) /\ pc'[g] = "generate"
      /\ work'[g] = snapshot[ProcOf[g]]
  BY Zenon DEF TakeState, Goto, OthersSame, IInv, Domains
<1>3. Exact(blocks, work'[g])
  BY Zenon, <1>2, CurrentExact DEF Exact
<1>4. CallExact(blocks, snapshot[ProcOf[g]], pc'[g], block'[g], work'[g], goal'[g])
  BY Zenon, <1>2, <1>3 DEF CallExact
<1> QED
  BY Zenon, <1>1, <1>2, <1>4, LocalReplay

\* GenerateBlock works on the state of the Chain: if that is the state the
\* generator took, the block replays; if not, the Chain has passed it.
LEMMA GenerateStepReplays ==
  ASSUME GeneratedBlocksReplay,
         IInv, IInv', ReplayInv, NEW g \in Goroutines, Generate(g)
  PROVE  ReplayInv'
<1>1. PICK cur : cur = snapshot[ProcOf[g]]
  BY Zenon
<1>2. PICK w : w = work[g]
  BY Zenon
<1>3. PICK d \in Delays, txs \in Batches :
        /\ block' = [block EXCEPT ![g] =
             GenerateBlock(cur, w.header, w.header.timestampMS + d, txs).block]
        /\ work' = [work EXCEPT ![g] =
             GenerateBlock(cur, w.header, w.header.timestampMS + d, txs).snap]
  BY Zenon, <1>1, <1>2 DEF Generate
<1>4. PICK m : m = GenerateBlock(cur, w.header, w.header.timestampMS + d, txs)
  BY Zenon
<1>5. UNCHANGED <<blocks, stored, snapshot, pending, saving>>
  BY Zenon DEF Generate, storeVars, chainVars
<1>6. /\ OthersSame(g) /\ pc'[g] = "save"
      /\ block'[g] = m.block /\ work'[g] = m.snap
  BY Zenon, <1>3, <1>4 DEF Generate, Goto, OthersSame, IInv, Domains
<1>7. StoreInv(blocks) /\ StoreReplays(blocks)
  BY Zenon DEF IInv, ReplayInv
<1>8. /\ cur = StateAt(blocks, Height(cur))
      /\ Height(cur) \in DOMAIN blocks \cup {0}
      /\ Height(cur) \in 0..MaxHeight
  BY Zenon, <1>1, CurrentExact
<1>9. CallInv(blocks, cur, "generate", block[g], w)
  BY Zenon, <1>1, <1>2, CurrentState DEF Generate
<1>10. Matches(blocks, w) /\ Height(w) \in 1..(MaxHeight - 1) /\ Height(w) <= Height(cur)
  BY Zenon, <1>9 DEF CallInv
<1>11. Height(w) \in DOMAIN blocks /\ w.header = blocks[Height(w)]
  <2>1. Height(w) # 0
    BY <1>10, ChainAssumptions
  <2> QED
    BY Zenon, <1>10, <2>1 DEF Matches, StateAt
<1>12. m.block.height = Height(w) + 1
  BY Zenon, <1>4 DEF GenerateBlock, Height
<1>13. \/ m.block.height <= Height(cur)
       \/ /\ Replays(StateAt(blocks, m.block.height - 1), m.block, m.snap)
          /\ RightTxs(Pool, m.block)
          /\ m.snap = StateAt(Put(blocks, m.block), m.block.height)
  <2>1. CASE Height(w) < Height(cur)
    BY <1>8, <1>10, <1>12, <2>1, ChainAssumptions
  <2>2. CASE Height(w) = Height(cur)
    <3>1. m = GenerateBlock(StateAt(blocks, Height(w)), blocks[Height(w)],
                            blocks[Height(w)].timestampMS + d, txs)
      BY Zenon, <1>4, <1>8, <1>11, <2>2
    <3>2. /\ Replays(StateAt(blocks, Height(w)), m.block, m.snap)
          /\ RightTxs(Pool, m.block)
          /\ m.snap = StateAt(Put(blocks, m.block), Height(w) + 1)
      BY <1>7, <1>11, <3>1, GenerateExact
    <3>3. m.block.height - 1 = Height(w)
      BY <1>10, <1>12
    <3> QED
      BY Zenon, <1>12, <3>2, <3>3
  <2> QED
    BY SMTT(30), <1>8, <1>10, <2>1, <2>2, ChainAssumptions
<1>14. CallExact(blocks, snapshot[ProcOf[g]], pc'[g], block'[g], work'[g], goal'[g])
  BY Zenon, <1>1, <1>6, <1>13 DEF CallExact
<1> QED
  BY Zenon, <1>5, <1>6, <1>14, LocalReplay

\* CommitAppliedBlock compares the heights.
LEMMA ReadAppliedReplays ==
  ASSUME IInv, IInv', ReplayInv, NEW g \in Goroutines, ReadApplied(g)
  PROVE  ReplayInv'
<1>1. UNCHANGED <<blocks, stored, snapshot, pending, saving>>
  BY Zenon DEF ReadApplied, storeVars, chainVars
<1>2. CASE Return(g)
  BY Zenon, <1>1, <1>2, ReturnReplays
<1>3. CASE /\ ~(block[g].height <= Height(snapshot[ProcOf[g]]))
           /\ Goto(g, "finalize") /\ UNCHANGED <<block, work, goal>>
  <2>1. OthersSame(g) /\ pc'[g] = "finalize" /\ work'[g] = work[g]
    BY Zenon, <1>3 DEF Goto, OthersSame, IInv, Domains
  <2>2. Exact(blocks, work[g])
    BY Zenon, <1>3 DEF ReadApplied, ReplayInv, CallExact
  <2>3. CallExact(blocks, snapshot[ProcOf[g]], pc'[g], block'[g], work'[g], goal'[g])
    BY Zenon, <2>1, <2>2 DEF CallExact
  <2> QED
    BY Zenon, <1>1, <2>1, <2>3, LocalReplay
<1> QED
  BY Zenon, <1>2, <1>3 DEF ReadApplied

\* The steps that touch neither the store nor a snapshot.
LEMMA FinalizeReplays ==
  ASSUME IInv, IInv', ReplayInv, NEW g \in Goroutines,
         \/ CheckFrequency(g) \/ MarkQueued(g) \/ RecoverMark(g)
         \/ FinalizeHeight(g) \/ StoreError(g)
  PROVE  ReplayInv'
<1>1. UNCHANGED <<blocks, stored, snapshot, pending, saving>>
  BY Zenon DEF CheckFrequency, MarkQueued, RecoverMark, FinalizeHeight, StoreError,
         storeVars, chainVars
<1>2. CASE CheckFrequency(g)
  <2>1. PICK l \in {"queue", "set"} : Goto(g, l)
    BY Zenon, <1>2 DEF CheckFrequency
  <2>2. pc[g] = "finalize" /\ UNCHANGED <<block, work, goal>>
    BY Zenon, <1>2 DEF CheckFrequency
  <2> QED
    BY Zenon, <1>1, <2>1, <2>2, GotoReplays
<1>3. CASE MarkQueued(g)
  <2>1. pc[g] = "mark" /\ Goto(g, "set") /\ UNCHANGED <<block, work, goal>>
    BY Zenon, <1>3 DEF MarkQueued
  <2> QED
    BY Zenon, <1>1, <2>1, GotoReplays
<1>4. CASE RecoverMark(g)
  <2>1. pc[g] = "loaded" /\ Goto(g, "height") /\ UNCHANGED <<block, work, goal>>
    BY Zenon, <1>4 DEF RecoverMark
  <2> QED
    BY Zenon, <1>1, <2>1, GotoReplays
<1>5. CASE FinalizeHeight(g) \/ StoreError(g)
  BY Zenon, <1>1, <1>5, ReturnReplays DEF FinalizeHeight, StoreError
<1> QED
  BY Zenon, <1>2, <1>3, <1>4, <1>5

\* Steps that store a block.
LEMMA SaveReplays ==
  ASSUME IInv, IInv', ReplayInv, NEW g \in Goroutines, OthersSame(g),
         UNCHANGED <<stored, snapshot, pending, saving>>,
         Grows(blocks, blocks'), StoreReplays(blocks'),
         CallExact(blocks', snapshot[ProcOf[g]], pc'[g], block'[g], work'[g],
                   goal'[g])
  PROVE  ReplayInv'
<1>1. \A s \in LiveSnapshots' : s \in LiveSnapshots
  BY Zenon DEF LiveSnapshots
<1>2. \A k \in Goroutines :
        \/ SameCall(k)
        \/ CallExact(blocks', snapshot'[ProcOf[k]], pc'[k], block'[k],
                     work'[k], goal'[k])
  BY Zenon, OthersCall
<1> QED
  BY Zenon, <1>1, <1>2, ReplayStep

\* A block from the network replays after the state it was made for.
LEMMA RemoteReplays ==
  ASSUME GeneratedBlocksReplay, InitialBlockReplays, RootsChecked,
         StoreInv(blocks), StoreReplays(blocks),
         NEW h \in DOMAIN blocks \cup {0}, NEW b \in RemoteBlocks(h)
  PROVE  /\ Replays(StateAt(blocks, h), b, StateAt(Put(blocks, b), h + 1))
         /\ RightTxs(Pool, b)
<1>1. CASE h = 0
  <2>1. b = NewInitialBlock(InitialTimeMS)
    BY <1>1 DEF RemoteBlocks
  <2> QED
    BY <1>1, <2>1, InitialExact
<1>2. CASE h # 0
  <2>1. PICK d \in Delays, txs \in Batches :
          b = GenerateBlock(StateAt(blocks, h), blocks[h],
                            blocks[h].timestampMS + d, txs).block
    BY <1>2 DEF RemoteBlocks
  <2>2. PICK m : m = GenerateBlock(StateAt(blocks, h), blocks[h],
                                   blocks[h].timestampMS + d, txs)
    BY Zenon
  <2>3. h \in DOMAIN blocks
    BY Zenon, <1>2
  <2>4. /\ Replays(StateAt(blocks, h), m.block, m.snap) /\ RightTxs(Pool, m.block)
        /\ m.snap = StateAt(Put(blocks, m.block), h + 1)
    BY <2>2, <2>3, GenerateExact
  <2> QED
    BY Zenon, <2>1, <2>2, <2>4
<1> QED
  BY Zenon, <1>1, <1>2

\* CommitBlock saves a block: the store still replays.
LEMMA CommitBlockReplays ==
  ASSUME GeneratedBlocksReplay, InitialBlockReplays, RootsChecked,
         IInv, IInv', ReplayInv,
         NEW g \in Goroutines, NEW h \in 0..(MaxHeight - 1), CommitBlock(g, h)
  PROVE  ReplayInv'
<1>1. h \in DOMAIN blocks \cup {0} /\ stored' = stored /\ finalized' = finalized
  BY Zenon DEF CommitBlock
<1>2. PICK b \in RemoteBlocks(h) : SaveBlock(b) /\ block' = [block EXCEPT ![g] = b]
  BY Zenon DEF CommitBlock
<1>3. UNCHANGED <<stored, snapshot, pending, saving>>
  BY Zenon DEF CommitBlock, chainVars
<1>4. OthersSame(g) /\ pc'[g] = "saved"
  BY Zenon, <1>2 DEF CommitBlock, Goto, OthersSame, IInv, Domains
<1>5. StoreInv(blocks) /\ StoreReplays(blocks)
  BY Zenon DEF IInv, ReplayInv
<1>6. b.height = h + 1 /\ b.timestampMS \in Nat
  BY Zenon, <1>1, <1>5, RemoteBlockFields
<1>7. b.height \in 1..MaxHeight /\ b.height - 1 = h
  BY <1>6, ChainAssumptions
<1>8. blocks' = Put(blocks, b) /\ Grows(blocks, blocks')
  BY Zenon, <1>1, <1>2, <1>6, <1>7, SaveBlockStore
<1>9. b.height \in DOMAIN blocks => blocks[b.height] = b
  BY Zenon, <1>2 DEF SaveBlock, CanSaveBlock, BlockID
<1>10. /\ Replays(StateAt(blocks, b.height - 1), b, StateAt(Put(blocks, b), b.height))
       /\ RightTxs(Pool, b)
  BY Zenon, <1>1, <1>5, <1>6, <1>7, RemoteReplays
<1>11. StoreReplays(blocks')
  BY Zenon, <1>1, <1>5, <1>6, <1>7, <1>8, <1>9, <1>10, PutReplays
<1>12. CallExact(blocks', snapshot[ProcOf[g]], pc'[g], block'[g], work'[g], goal'[g])
  BY Zenon, <1>4 DEF CallExact
<1> QED
  BY Zenon, <1>3, <1>4, <1>8, <1>11, <1>12, SaveReplays

\* CommitAppliedBlock saves the block, unless its height is taken.
LEMMA SaveAppliedReplays ==
  ASSUME IInv, IInv', ReplayInv, NEW g \in Goroutines, SaveApplied(g)
  PROVE  ReplayInv'
<1>1. PICK b : b = block[g]
  BY Zenon
<1>2. PICK cur : cur = snapshot[ProcOf[g]]
  BY Zenon
<1>3. PICK s : s = work[g]
  BY Zenon
<1>4. UNCHANGED <<stored, finalized, snapshot, pending, saving>>
  BY Zenon DEF SaveApplied, chainVars
<1>5. CASE Return(g) /\ UNCHANGED blocks
  BY Zenon, <1>4, <1>5, ReturnReplays
<1>6. CASE SaveBlock(b) /\ Goto(g, "applied") /\ UNCHANGED <<block, work, goal>>
  <2>1. OthersSame(g) /\ pc'[g] = "applied" /\ block'[g] = b /\ work'[g] = s
    BY Zenon, <1>1, <1>3, <1>6 DEF Goto, OthersSame, IInv, Domains
  <2>2. StoreInv(blocks) /\ StoreReplays(blocks)
    BY Zenon DEF IInv, ReplayInv
  <2>3. CallInv(blocks, cur, "save", b, s)
    BY Zenon, <1>1, <1>2, <1>3, CurrentState DEF SaveApplied
  <2>4. /\ b.height \in 1..MaxHeight /\ b.height - 1 \in DOMAIN blocks \cup {0}
        /\ b.timestampMS \in Nat
        /\ b.height <= Height(cur) \/ s.header = b
    BY Zenon, <2>3 DEF CallInv
  <2>5. CallExact(blocks, cur, "save", b, s, goal[g])
    BY Zenon, <1>1, <1>2, <1>3 DEF SaveApplied, ReplayInv
  <2>6. \/ b.height <= Height(cur)
        \/ /\ Replays(StateAt(blocks, b.height - 1), b, s) /\ RightTxs(Pool, b)
           /\ s = StateAt(Put(blocks, b), b.height)
    BY Zenon, <2>5 DEF CallExact
  <2>7. blocks' = Put(blocks, b) /\ Grows(blocks, blocks')
    BY Zenon, <1>4, <1>6, <2>4, SaveBlockStore
  <2>8. b.height \in DOMAIN blocks => blocks[b.height] = b
    BY Zenon, <1>6 DEF SaveBlock, CanSaveBlock, BlockID
  <2>9. b.height <= Height(cur) => b.height \in DOMAIN blocks
    <3>1. Height(cur) \in DOMAIN blocks \cup {0}
      BY Zenon, <1>2, CurrentExact
    <3>2. PICK n \in 0..MaxHeight : DOMAIN blocks = 1..n
      BY Zenon, <2>2 DEF StoreInv
    <3> QED
      BY <2>4, <3>1, <3>2, ChainAssumptions
  <2>10. StoreReplays(blocks')
    <3>1. \/ b.height \in DOMAIN blocks
          \/ /\ Replays(StateAt(blocks, b.height - 1), b,
                        StateAt(Put(blocks, b), b.height))
             /\ RightTxs(Pool, b)
      BY Zenon, <2>6, <2>9
    <3> QED
      BY Zenon, <2>2, <2>4, <2>7, <2>8, <3>1, PutReplays
  <2>11. b.height <= Height(cur) \/ Exact(blocks', s)
    <3>1. s.header = b => Height(s) = b.height
      BY Zenon DEF Height
    <3> QED
      BY Zenon, <2>4, <2>6, <2>7, <3>1 DEF Exact
  <2>12. CallExact(blocks', cur, pc'[g], block'[g], work'[g], goal'[g])
    BY Zenon, <2>1, <2>11 DEF CallExact
  <2> QED
    BY Zenon, <1>2, <1>4, <2>1, <2>7, <2>10, <2>12, SaveReplays
<1> QED
  BY Zenon, <1>1, <1>5, <1>6 DEF SaveApplied

\* Queueing a snapshot.
LEMMA QueueSnapshotReplays ==
  ASSUME IInv, IInv', ReplayInv, NEW g \in Goroutines, QueueSnapshot(g)
  PROVE  ReplayInv'
<1>1. PICK p : p = ProcOf[g] /\ p \in Procs
  BY Zenon, ChainAssumptions
<1>2. pc[g] = "queue" /\ UNCHANGED <<blocks, stored, snapshot, saving, block, work, goal>>
  BY Zenon DEF QueueSnapshot, storeVars
<1>3. CASE Goto(g, "set") /\ UNCHANGED pending
  BY Zenon, <1>2, <1>3, GotoReplays
<1>4. CASE pending' = [pending EXCEPT ![p] = <<work[g]>>] /\ Goto(g, "mark")
  <2>1. OthersSame(g) /\ pc'[g] = "mark"
    BY Zenon, <1>2, <1>4 DEF Goto, OthersSame, IInv, Domains
  <2>2. Exact(blocks, work[g])
    BY Zenon, <1>2 DEF ReplayInv, CallExact
  <2>3. Grows(blocks, blocks') /\ StoreReplays(blocks')
    BY Zenon, <1>2 DEF Grows, ReplayInv
  <2>4. Range(<<work[g]>>) = {work[g]}
    BY DEF Range
  <2>5. \A q \in Procs : Range(pending'[q]) \subseteq Range(pending[q]) \cup {work[g]}
    BY Zenon, <1>1, <1>4, <2>4 DEF IInv, Domains
  <2>6. LiveSnapshots' \subseteq LiveSnapshots \cup {work[g]}
    BY <1>2, <2>5 DEF LiveSnapshots
  <2>7. \A s \in LiveSnapshots' : s \in LiveSnapshots \/ Exact(blocks', s)
    BY Zenon, <1>2, <2>2, <2>6
  <2>8. CallExact(blocks', snapshot'[ProcOf[g]], pc'[g], block'[g], work'[g], goal'[g])
    BY Zenon, <1>2, <2>1, <2>2 DEF CallExact
  <2>9. \A k \in Goroutines :
          \/ SameCall(k)
          \/ CallExact(blocks', snapshot'[ProcOf[k]], pc'[k], block'[k],
                       work'[k], goal'[k])
    BY Zenon, <1>2, <2>1, <2>8, OthersCall
  <2> QED
    BY Zenon, <2>3, <2>7, <2>9, ReplayStep
<1> QED
  BY Zenon, <1>1, <1>3, <1>4 DEF QueueSnapshot

\* setState installs an exact snapshot.
LEMMA InstallStateReplays ==
  ASSUME IInv, IInv', ReplayInv, NEW g \in Goroutines, InstallState(g)
  PROVE  ReplayInv'
<1>1. PICK p : p = ProcOf[g] /\ p \in Procs
  BY Zenon, ChainAssumptions
<1>2. /\ pc[g] = "set" /\ Goto(g, "announce")
      /\ UNCHANGED <<blocks, stored, pending, saving, block, work, goal>>
  BY Zenon DEF InstallState, storeVars
<1>3. CASE UNCHANGED snapshot
  BY Zenon, <1>2, <1>3, GotoReplays
<1>4. CASE /\ ~(Height(work[g]) <= Height(snapshot[p]))
           /\ snapshot' = [snapshot EXCEPT ![p] = work[g]]
  <2>1. OthersSame(g) /\ pc'[g] = "announce"
    BY Zenon, <1>2 DEF Goto, OthersSame, IInv, Domains
  <2>2. Exact(blocks, work[g])
    BY Zenon, <1>2 DEF ReplayInv, CallExact
  <2>3. Grows(blocks, blocks') /\ StoreReplays(blocks')
    BY Zenon, <1>2 DEF Grows, ReplayInv
  <2>4. \A q \in Procs : snapshot'[q] = IF q = p THEN work[g] ELSE snapshot[q]
    BY Zenon, <1>1, <1>4 DEF IInv, Domains
  <2>5. LiveSnapshots' \subseteq LiveSnapshots \cup {work[g]}
    BY <1>2, <2>4 DEF LiveSnapshots
  <2>6. \A s \in LiveSnapshots' : s \in LiveSnapshots \/ Exact(blocks', s)
    BY Zenon, <1>2, <2>2, <2>5
  <2>7. CallExact(blocks', snapshot'[ProcOf[g]], pc'[g], block'[g], work'[g], goal'[g])
    BY Zenon, <1>2, <2>1, <2>2 DEF CallExact
  <2>8. ASSUME NEW k \in Goroutines, k # g PROVE SameCall(k)
    <3>1. ProcOf[k] \in Procs /\ Height(snapshot[ProcOf[k]]) \in 0..MaxHeight
      BY Zenon, CurrentState
    <3>2. CallInv(blocks, snapshot[p], pc[g], block[g], work[g])
      BY Zenon, <1>1, CurrentState
    <3>3. Height(work[g]) \in 0..MaxHeight
      BY Zenon, <3>2 DEF CallInv, IsSnapshot
    <3>4. Height(snapshot[ProcOf[k]]) <= Height(snapshot'[ProcOf[k]])
      BY <1>4, <2>4, <3>1, <3>3, ChainAssumptions
    <3> QED
      BY Zenon, <2>1, <2>8, <3>4 DEF OthersSame, SameCall
  <2> QED
    BY Zenon, <2>3, <2>6, <2>7, <2>8, ReplayStep
<1> QED
  BY Zenon, <1>1, <1>3, <1>4 DEF InstallState, SetState

\* Recover starts from the saved snapshot.
LEMMA RecoverLoadReplays ==
  ASSUME IInv, IInv', ReplayInv, NEW g \in Goroutines, RecoverLoad(g)
  PROVE  ReplayInv'
<1>1. UNCHANGED <<blocks, stored, snapshot, pending, saving>>
  BY Zenon DEF RecoverLoad, storeVars, chainVars
<1>2. /\ OthersSame(g) /\ pc'[g] \in {"loaded", "height"}
      /\ work'[g] = stored
  BY Zenon DEF RecoverLoad, Goto, OthersSame, IInv, Domains
<1>3. Exact(blocks, stored)
  BY Zenon DEF ReplayInv, LiveSnapshots
<1>4. CallExact(blocks, snapshot[ProcOf[g]], pc'[g], block'[g], work'[g], goal'[g])
  BY Zenon, <1>2, <1>3 DEF CallExact
<1> QED
  BY Zenon, <1>1, <1>2, <1>4, LocalReplay

\* Recover takes the height of the store as its goal.
LEMMA RecoverHeightReplays ==
  ASSUME IInv, IInv', ReplayInv, StoreHeight \in DOMAIN blocks \cup {0},
         NEW g \in Goroutines, RecoverHeight(g)
  PROVE  ReplayInv'
<1>1. UNCHANGED <<blocks, stored, snapshot, pending, saving>>
  BY Zenon DEF RecoverHeight, storeVars, chainVars
<1>2. /\ OthersSame(g) /\ pc[g] = "height" /\ pc'[g] = "replay"
      /\ work'[g] = work[g] /\ goal'[g] = StoreHeight
  BY Zenon DEF RecoverHeight, Goto, OthersSame, IInv, Domains
<1>3. Exact(blocks, work[g])
  BY Zenon, <1>2 DEF ReplayInv, CallExact
<1>4. CallExact(blocks, snapshot[ProcOf[g]], pc'[g], block'[g], work'[g], goal'[g])
  BY Zenon, <1>2, <1>3 DEF CallExact
<1> QED
  BY Zenon, <1>1, <1>2, <1>4, LocalReplay

\* The block that Recover replays next.
LEMMA ReplayNext ==
  ASSUME IInv, ReplayInv, NEW g \in Goroutines, pc[g] = "replay",
         NEW h, h = Height(work[g]) + 1, h <= goal[g]
  PROVE  /\ h \in DOMAIN blocks
         /\ ApplyBlock(work[g], blocks[h]) = [ok |-> TRUE, snap |-> StateAt(blocks, h)]
         /\ Exact(blocks, StateAt(blocks, h))
<1>1. PICK w : w = work[g]
  BY Zenon
<1>2. StoreInv(blocks) /\ StoreReplays(blocks)
  BY Zenon DEF IInv, ReplayInv
<1>3. CallInv(blocks, snapshot[ProcOf[g]], "replay", block[g], w)
  BY Zenon, <1>1, CurrentState
<1>4. Height(w) \in 0..MaxHeight
  BY Zenon, <1>3 DEF CallInv, IsSnapshot
<1>5. Exact(blocks, w) /\ goal[g] \in DOMAIN blocks \cup {0}
  BY Zenon, <1>1 DEF ReplayInv, CallExact
<1>6. PICK n \in 0..MaxHeight : DOMAIN blocks = 1..n
  BY Zenon, <1>2 DEF StoreInv
<1>7. h \in DOMAIN blocks /\ h - 1 = Height(w)
  BY <1>1, <1>4, <1>5, <1>6, ChainAssumptions
<1> QED
  BY Zenon, <1>1, <1>2, <1>5, <1>7, StoredApplies DEF Exact

\* Recover applies the next stored block, which replays.
LEMMA ReplayBlockReplays ==
  ASSUME IInv, IInv', ReplayInv, NEW g \in Goroutines, ReplayBlock(g)
  PROVE  ReplayInv'
<1>1. PICK h : h = Height(work[g]) + 1
  BY Zenon
<1>2. PICK r : r = ApplyBlock(work[g], blocks[h])
  BY Zenon
<1>3. UNCHANGED <<blocks, stored, snapshot, pending, saving>>
  BY Zenon DEF ReplayBlock, storeVars, chainVars
<1>4. pc[g] = "replay" /\ h <= goal[g]
  BY Zenon, <1>1 DEF ReplayBlock
<1>5. CASE Return(g)
  BY Zenon, <1>3, <1>5, ReturnReplays
<1>6. CASE /\ block' = [block EXCEPT ![g] = blocks[h]]
           /\ work' = [work EXCEPT ![g] = r.snap]
           /\ UNCHANGED <<pc, goal>>
  <2>1. /\ OthersSame(g) /\ pc'[g] = "replay" /\ work'[g] = r.snap
        /\ goal'[g] = goal[g]
    BY Zenon, <1>4, <1>6 DEF OthersSame, IInv, Domains
  <2>2. r.snap = StateAt(blocks, h) /\ Exact(blocks, StateAt(blocks, h))
    <3>1. /\ ApplyBlock(work[g], blocks[h]) = [ok |-> TRUE, snap |-> StateAt(blocks, h)]
          /\ Exact(blocks, StateAt(blocks, h))
      BY Zenon, <1>1, <1>4, ReplayNext
    <3> QED
      BY <1>2, <3>1
  <2>3. goal[g] \in DOMAIN blocks \cup {0}
    BY Zenon, <1>4 DEF ReplayInv, CallExact
  <2>4. CallExact(blocks, snapshot[ProcOf[g]], pc'[g], block'[g], work'[g], goal'[g])
    BY Zenon, <2>1, <2>2, <2>3 DEF CallExact
  <2> QED
    BY Zenon, <1>3, <2>1, <2>4, LocalReplay
<1> QED
  BY Zenon, <1>1, <1>2, <1>5, <1>6 DEF ReplayBlock

\* The last block that Recover replayed is in the store already.
LEMMA ReplayDoneReplays ==
  ASSUME IInv, IInv', ReplayInv, NEW g \in Goroutines, ReplayDone(g)
  PROVE  ReplayInv'
<1>1. PICK b : b = block[g]
  BY Zenon
<1>2. PICK w : w = work[g]
  BY Zenon
<1>3. UNCHANGED <<blocks, stored, snapshot, pending, saving>>
  BY Zenon DEF ReplayDone, storeVars, chainVars
<1>4. CASE Return(g)
  BY Zenon, <1>3, <1>4, ReturnReplays
<1>5. CASE b # NilHeader /\ Goto(g, "save") /\ UNCHANGED <<block, work, goal>>
  <2>1. OthersSame(g) /\ pc'[g] = "save" /\ block'[g] = b /\ work'[g] = w
    BY Zenon, <1>1, <1>2, <1>5 DEF Goto, OthersSame, IInv, Domains
  <2>2. StoreInv(blocks) /\ StoreReplays(blocks)
    BY Zenon DEF IInv, ReplayInv
  <2>3. CallInv(blocks, snapshot[ProcOf[g]], "replay", b, w)
    BY Zenon, <1>1, <1>2, CurrentState DEF ReplayDone
  <2>4. Matches(blocks, w) /\ b = w.header
    BY Zenon, <2>3 DEF CallInv
  <2>5. PICK h : h = Height(w)
    BY Zenon
  <2>6. h # 0
    <3>1. StateAt(blocks, 0) = Empty /\ Empty.header = NilHeader
      BY Zenon DEF StateAt, Empty
    <3> QED
      BY Zenon, <1>5, <2>4, <2>5, <3>1 DEF Matches
  <2>7. h \in DOMAIN blocks /\ b = blocks[h] /\ b.height = h
    BY Zenon, <2>4, <2>5, <2>6 DEF Matches, StateAt, Height
  <2>8. w = StateAt(blocks, h)
    BY Zenon, <1>2, <2>5 DEF ReplayDone, ReplayInv, CallExact, Exact
  <2>9. StateAt(Put(blocks, b), h) = StateAt(blocks, h)
    <3>1. Grows(blocks, Put(blocks, b))
      BY Zenon, <2>7 DEF Grows, Put
    <3> QED
      BY <2>2, <2>7, <3>1, StateMono
  <2>10. /\ Replays(StateAt(blocks, b.height - 1), b, w) /\ RightTxs(Pool, b)
         /\ w = StateAt(Put(blocks, b), b.height)
    BY Zenon, <2>2, <2>7, <2>8, <2>9 DEF StoreReplays
  <2>11. CallExact(blocks, snapshot[ProcOf[g]], pc'[g], block'[g], work'[g], goal'[g])
    BY Zenon, <2>1, <2>10 DEF CallExact
  <2> QED
    BY Zenon, <1>3, <2>1, <2>11, LocalReplay
<1> QED
  BY Zenon, <1>1, <1>4, <1>5 DEF ReplayDone

\* The empty snapshot is exact whatever is stored.
LEMMA EmptyExact ==
  ASSUME NEW bl
  PROVE  Exact(bl, Empty)
BY Zenon, EmptyGood DEF Exact, StateAt

\* A crash loses what the process held.
LEMMA CrashReplays ==
  ASSUME IInv, IInv', ReplayInv, NEW p \in Procs, Crash(p)
  PROVE  ReplayInv'
<1>1. UNCHANGED <<blocks, stored>>
  BY Zenon DEF Crash, storeVars
<1>2. Grows(blocks, blocks') /\ StoreReplays(blocks')
  BY Zenon, <1>1 DEF Grows, ReplayInv
<1>3. \A q \in Procs :
        /\ snapshot'[q] = IF q = p THEN Empty ELSE snapshot[q]
        /\ pending'[q] = IF q = p THEN <<>> ELSE pending[q]
        /\ saving'[q] = IF q = p THEN <<>> ELSE saving[q]
  BY Zenon DEF Crash, IInv, Domains
<1>4. Range(<<>>) = {}
  BY SMTT(30) DEF Range
<1>5. LiveSnapshots' \subseteq LiveSnapshots \cup {Empty}
  <2>1. \A q \in Procs : /\ snapshot'[q] \in {Empty, snapshot[q]}
                         /\ Range(pending'[q]) \subseteq Range(pending[q])
                         /\ Range(saving'[q]) \subseteq Range(saving[q])
    BY Zenon, <1>3, <1>4
  <2> QED
    BY <1>1, <2>1 DEF LiveSnapshots
<1>6. \A s \in LiveSnapshots' : s \in LiveSnapshots \/ Exact(blocks', s)
  BY Zenon, <1>5, EmptyExact
<1>7. ASSUME NEW g \in Goroutines
      PROVE  \/ SameCall(g)
             \/ CallExact(blocks', snapshot'[ProcOf[g]], pc'[g], block'[g],
                          work'[g], goal'[g])
  <2>1. CASE ProcOf[g] = p
    <3>1. pc'[g] = "idle"
      BY Zenon, <2>1 DEF Crash
    <3> QED
      BY Zenon, <3>1 DEF CallExact
  <2>2. CASE ProcOf[g] # p
    <3>1. ProcOf[g] \in Procs /\ Height(snapshot[ProcOf[g]]) \in 0..MaxHeight
      BY Zenon, CurrentState
    <3>2. Height(snapshot[ProcOf[g]]) <= Height(snapshot'[ProcOf[g]])
      BY <1>3, <2>2, <3>1, ChainAssumptions
    <3> QED
      BY Zenon, <2>2, <3>2 DEF Crash, SameCall
  <2> QED BY Zenon, <2>1, <2>2
<1> QED
  BY Zenon, <1>2, <1>6, <1>7, ReplayStep

\* The saver goroutine takes a queued snapshot.
LEMMA TakePendingReplays ==
  ASSUME IInv, IInv', ReplayInv, NEW p \in Procs, TakePending(p)
  PROVE  ReplayInv'
<1>1. UNCHANGED <<blocks, stored, snapshot, callVars>>
  BY Zenon DEF TakePending, storeVars
<1>2. \A q \in Procs :
        /\ pending'[q] = IF q = p THEN <<>> ELSE pending[q]
        /\ saving'[q] = IF q = p THEN pending[q] ELSE saving[q]
  BY Zenon DEF TakePending, IInv, Domains
<1>3. Range(<<>>) = {}
  BY DEF Range
<1>4. \A q \in Procs : Range(pending'[q]) \cup Range(saving'[q])
                         \subseteq Range(pending[q]) \cup Range(saving[q])
  BY Zenon, <1>2, <1>3
<1>5. LiveSnapshots' \subseteq LiveSnapshots
  BY <1>1, <1>4 DEF LiveSnapshots
<1> QED
  BY Zenon, <1>1, <1>5 DEF ReplayInv, callVars

\* The saver goroutine saves it, or fails to.
LEMMA SaveSnapshotReplays ==
  ASSUME IInv, IInv', ReplayInv, NEW p \in Procs, SaveSnapshot(p)
  PROVE  ReplayInv'
<1>1. UNCHANGED <<blocks, snapshot, pending, callVars>>
  BY Zenon DEF SaveSnapshot, chainVars
<1>2. \A q \in Procs : saving'[q] = IF q = p THEN <<>> ELSE saving[q]
  BY Zenon DEF SaveSnapshot, IInv, Domains
<1>3. Range(<<>>) = {}
  BY DEF Range
<1>4. \A q \in Procs : Range(saving'[q]) \subseteq Range(saving[q])
  BY Zenon, <1>2, <1>3
<1>5. stored' = stored \/ stored' \in Range(saving[p])
  <2>1. stored' \in {stored, saving[p][1]} /\ saving[p] # <<>>
    BY Zenon DEF SaveSnapshot
  <2>2. GoodQueue(blocks, saving[p])
    BY Zenon DEF IInv, ProcsInv, ProcInv
  <2>3. PICK x : saving[p] = <<x>>
    BY Zenon, <2>1, <2>2 DEF GoodQueue
  <2>4. saving[p][1] = x /\ Range(saving[p]) = {x}
    BY <2>3 DEF Range
  <2> QED
    BY Zenon, <2>1, <2>4
<1>6. LiveSnapshots' \subseteq LiveSnapshots
  BY <1>1, <1>4, <1>5 DEF LiveSnapshots
<1> QED
  BY Zenon, <1>1, <1>6 DEF ReplayInv, callVars

-----------------------------------------------------------------------------
\* ReplayInv holds at the start.
LEMMA InitReplays == Init => ReplayInv
<1> SUFFICES ASSUME Init PROVE ReplayInv
  BY Zenon
<1>1. StoreReplays(blocks)
  <2>1. DOMAIN blocks = {}
    BY DEF Init
  <2> QED
    BY Zenon, <2>1 DEF StoreReplays
<1>2. LiveSnapshots \subseteq {Empty}
  <2>1. Range(<<>>) = {}
    BY DEF Range
  <2> QED
    BY Zenon, <2>1 DEF Init, LiveSnapshots
<1>3. \A g \in Goroutines : pc[g] = "idle"
  BY Zenon DEF Init
<1> QED
  BY Zenon, <1>1, <1>2, <1>3, EmptyExact DEF ReplayInv, CallExact

\* Every step preserves ReplayInv, given what SnapshotProofs shows of blocks
\* that are generated.
LEMMA NextReplays ==
  ASSUME GeneratedBlocksReplay, InitialBlockReplays, RootsChecked,
         IInv, IInv', ReplayInv, StoreHeight \in DOMAIN blocks \cup {0},
         [Next]_vars
  PROVE  ReplayInv'
<1>1. ASSUME UNCHANGED <<blocks, stored, snapshot, pending, saving, callVars>>
      PROVE  ReplayInv'
  BY Zenon, <1>1 DEF ReplayInv, LiveSnapshots, callVars
<1>2. ASSUME NEW p \in Procs,
             \/ NewChain(p) \/ Crash(p) \/ TakePending(p) \/ SaveSnapshot(p)
             \/ \E h \in 1..MaxHeight : HearHeight(p, h)
      PROVE  ReplayInv'
  <2>1. CASE NewChain(p) \/ \E h \in 1..MaxHeight : HearHeight(p, h)
    BY Zenon, <1>1, <2>1 DEF NewChain, HearHeight, storeVars
  <2> QED
    BY Zenon, <1>2, <2>1, CrashReplays, TakePendingReplays, SaveSnapshotReplays
<1>3. ASSUME NEW g \in Goroutines,
             \/ \E h \in 0..(MaxHeight - 1) : CommitBlock(g, h)
             \/ TakeState(g) \/ RecoverLoad(g)
             \/ Continue(g) \/ StoreError(g)
      PROVE  ReplayInv'
  <2>1. CASE Continue(g)
    BY Zenon, <2>1, ReadStateReplays, GenerateStepReplays, SaveAppliedReplays,
       ReadAppliedReplays, FinalizeReplays, QueueSnapshotReplays,
       InstallStateReplays, RecoverHeightReplays, ReplayBlockReplays,
       ReplayDoneReplays
    DEF Continue
  <2> QED
    BY Zenon, <1>3, <2>1, CommitBlockReplays, TakeStateReplays, RecoverLoadReplays,
       FinalizeReplays
<1>4. ASSUME NEW w \in Waiters,
             \/ \E h \in 1..MaxHeight : BlockWaiter(w, h) \/ BlockSoonWaiter(w, h)
             \/ TestHeight(w) \/ ReceiveDone(w) \/ ContextDone(w)
      PROVE  ReplayInv'
  <2>1. UNCHANGED <<storeVars, chainVars, saving, callVars>>
    BY Zenon, <1>4 DEF BlockWaiter, BlockSoonWaiter, TestHeight, ReceiveDone, ContextDone
  <2> QED
    BY Zenon, <1>1, <2>1 DEF storeVars, chainVars
<1>5. CASE UNCHANGED vars
  BY Zenon, <1>1, <1>5 DEF vars, storeVars, chainVars
<1> QED
  BY Zenon, <1>2, <1>3, <1>4, <1>5 DEF Next

-----------------------------------------------------------------------------
\* What the invariant gives.
LEMMA ReplayInvBlocks ==
  ASSUME ReplayInv, DOMAIN blocks = 1..StoreHeight
  PROVE  StoredBlocksReplay
<1>1. StoreReplays(blocks)
  BY Zenon DEF ReplayInv
<1>2. ASSUME NEW h \in DOMAIN blocks,
             NEW r, r = ApplyBlock(StateAt(blocks, h - 1), blocks[h])
      PROVE  /\ ValidateBlock(blocks[h], StateAt(blocks, h - 1).header)
             /\ r.ok /\ r.snap = StateAt(blocks, h)
  <2>1. Replays(StateAt(blocks, h - 1), blocks[h], StateAt(blocks, h))
    BY Zenon, <1>1 DEF StoreReplays
  <2> QED
    BY <1>2, <2>1 DEF Replays
<1> QED
  BY Zenon, <1>2 DEF StoredBlocksReplay

\* With ReplayInv, every block that Recover reads is there and applies.
LEMMA ReplayInvRecover ==
  ASSUME IInv, ReplayInv
  PROVE  RecoverReplays
<1>1. ASSUME NEW g \in Goroutines, pc[g] = "replay",
             Height(work[g]) < goal[g],
             NEW h, h = Height(work[g]) + 1
      PROVE  /\ h \in DOMAIN blocks
             /\ ApplyBlock(work[g], blocks[h]) =
                  [ok |-> TRUE, snap |-> StateAt(blocks, h)]
  <2>1. IsSnapshot(work[g]) /\ goal[g] \in 0..MaxHeight
    BY Zenon DEF IInv, CallsInv, CallInv, Domains
  <2>2. h <= goal[g]
    BY <1>1, <2>1, ChainAssumptions DEF IsSnapshot
  <2> QED
    BY Zenon, <1>1, <2>2, ReplayNext
<1> QED
  BY Zenon, <1>1 DEF RecoverReplays
=============================================================================
