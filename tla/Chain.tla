------------------------------- MODULE Chain --------------------------------
(***************************************************************************)
(* The Chain object of package protocol: processes that share one Store,   *)
(* each holding a Chain (its height, its latest state snapshot, the        *)
(* channel to its snapshot saver), goroutines that commit, generate and    *)
(* recover blocks through it, and goroutines that wait for a height.       *)
(*                                                                         *)
(* A step of a goroutine is the code between two accesses to state it      *)
(* shares: a Store call, a critical section of state.cond.L, a channel     *)
(* operation, or an access to lastQueuedSnapshotMS, which the code makes   *)
(* without a lock.  A process may crash between any two steps; what        *)
(* survives is the Store.                                                  *)
(*                                                                         *)
(* A call that fails at its first Store access changes nothing, so it is   *)
(* a stuttering step and has no action.                                    *)
(***************************************************************************)
EXTENDS Generator, FiniteSets

CONSTANTS
  Procs,            \* processes sharing the store, one Chain each
  Goroutines,       \* goroutines calling into the Chains
  ProcOf,           \* the process of each goroutine and of each waiter
  Waiters,          \* goroutines started by BlockWaiter and BlockSoonWaiter
  InitialTimeMS,    \* timestamp of the initial block
  Delays,           \* timestamp increments a generator may choose
  Batches,          \* transaction sequences a generator may be given
  SaveFrequencyMS,  \* saveSnapshotFrequencyMS
  Slop,             \* BlockSoonWaiter's slop
  StoreFails,       \* may a Store call fail
  RootsChecked,     \* do signers sign only blocks whose roots they computed
  MaxHeight,        \* bound: blocks per chain
  MaxCrashes        \* bound: crashes per behaviour

ASSUME ChainAssumptions ==
  /\ ProcOf \in [Goroutines \cup Waiters -> Procs]
  /\ InitialTimeMS \in Nat
  /\ Delays \subseteq Nat \ {0}
  /\ SaveFrequencyMS \in Nat
  /\ Slop \in Nat
  /\ MaxHeight \in Nat

\* What a generator is given are transactions of version 3, the one that
\* blocks of version 3, which are all that GenerateBlock makes, may hold.
ASSUME BatchAssumptions ==
  \A txs \in Batches :
    /\ txs \in Seq(Range(txs))
    /\ \A tx \in Range(txs) : IsTx(tx) /\ tx.version = 3

\* The transactions that generators are given.
Pool == UNION {Range(txs) : txs \in Batches}

VARIABLES
  blocks,      \* Store: height -> block, on the heights saved so far
  stored,      \* Store: the latest saved snapshot
  finalized,   \* Store: heights announced by FinalizeHeight
  up,          \* process -> is it running
  height,      \* process -> c.state.height
  snapshot,    \* process -> c.state.snapshot
  lastQueued,  \* process -> c.lastQueuedSnapshotMS
  pending,     \* process -> c.pendingSnapshots, a channel of capacity 1
  saving,      \* process -> the snapshot its saver goroutine holds, if any
  pc,          \* goroutine -> where it is
  block,       \* goroutine -> its block argument or variable
  work,        \* goroutine -> its snapshot argument or variable
  goal,        \* goroutine -> the height Recover replays up to
  waiting,     \* waiter -> [pc, height, caller]
  crashes

storeVars == <<blocks, stored, finalized>>
chainVars == <<height, snapshot, lastQueued, pending>>
callVars  == <<pc, block, work, goal>>
vars == <<storeVars, up, chainVars, saving, callVars, waiting, crashes>>

-----------------------------------------------------------------------------
(***************************************************************************)
(* The blocks the network may hand to CommitBlock to follow block h: those *)
(* a generator at the state of block h makes.  If signers do not compare   *)
(* the roots, also such blocks with another contracts root, which          *)
(* validation.Block does not look at.                                      *)
(***************************************************************************)
RemoteBlocks(h) ==
  IF h = 0 THEN {NewInitialBlock(InitialTimeMS)}
  ELSE LET made == {GenerateBlock(StateAt(blocks, h), blocks[h],
                                  blocks[h].timestampMS + d, txs).block :
                      d \in Delays, txs \in Batches}
       IN  made \cup IF RootsChecked THEN {}
                     ELSE {[b EXCEPT !.contractsRoot = @ \cup {0}] :
                             b \in made}

-----------------------------------------------------------------------------
(***************************************************************************)
(* The Store.  SaveBlock refuses a second block at a height.               *)
(***************************************************************************)
StoreHeight == Cardinality(DOMAIN blocks)

\* Fault: a second block at a height replaces the first.
CanSaveBlock_Overwrites(b) == TRUE

CanSaveBlock(b) ==
  b.height \in DOMAIN blocks => BlockID(blocks[b.height]) = BlockID(b)

SaveBlock(b) ==
  /\ CanSaveBlock(b)
  /\ blocks' = [h \in DOMAIN blocks \cup {b.height} |->
                  IF h = b.height THEN b ELSE blocks[h]]

(***************************************************************************)
(* Critical sections of state.cond.L.                                      *)
(***************************************************************************)
\* Fault: nobody is woken.
Broadcast_Forgotten(p) == UNCHANGED waiting

\* cond.Broadcast: every parked waiter of process p goes on to test again.
Broadcast(p) ==
  waiting' = [w \in Waiters |->
                IF ProcOf[w] = p /\ waiting[w].pc = "parked"
                THEN [waiting[w] EXCEPT !.pc = "test"] ELSE waiting[w]]

\* Fault: whichever goroutine comes last wins.
SetState_LastWins(p, s) ==
  /\ snapshot' = [snapshot EXCEPT ![p] = s]
  /\ height' = [height EXCEPT ![p] = Height(s)]
  /\ Broadcast(p)

\* Fault: the height is left behind.
SetState_NoHeight(p, s) ==
  /\ snapshot' = [snapshot EXCEPT ![p] =
                    IF Height(s) > Height(@) THEN s ELSE @]
  /\ UNCHANGED <<height, waiting>>

SetState(p, s) ==
  IF Height(s) <= Height(snapshot[p])
  THEN UNCHANGED <<height, snapshot, waiting>>
  ELSE /\ snapshot' = [snapshot EXCEPT ![p] = s]
       /\ IF Height(s) > height[p]
          THEN /\ height' = [height EXCEPT ![p] = Height(s)]
               /\ Broadcast(p)
          ELSE UNCHANGED <<height, waiting>>

\* Fault: the height rises without a broadcast.
SetHeight_Silent(p, h) ==
  /\ h > height[p]
  /\ height' = [height EXCEPT ![p] = h]
  /\ UNCHANGED waiting

SetHeight(p, h) ==
  /\ h > height[p]
  /\ height' = [height EXCEPT ![p] = h]
  /\ Broadcast(p)

-----------------------------------------------------------------------------
(***************************************************************************)
(* Processes: start, crash, and the two goroutines NewChain starts.        *)
(***************************************************************************)
Init ==
  /\ blocks = <<>>
  /\ stored = Empty
  /\ finalized = {}
  /\ up = [p \in Procs |-> FALSE]
  /\ height = [p \in Procs |-> 0]
  /\ snapshot = [p \in Procs |-> Empty]
  /\ lastQueued = [p \in Procs |-> 0]
  /\ pending = [p \in Procs |-> <<>>]
  /\ saving = [p \in Procs |-> <<>>]
  /\ pc = [g \in Goroutines |-> "idle"]
  /\ block = [g \in Goroutines |-> NilHeader]
  /\ work = [g \in Goroutines |-> Empty]
  /\ goal = [g \in Goroutines |-> 0]
  /\ waiting = [w \in Waiters |->
                  [pc |-> "idle", height |-> 0, caller |-> "none"]]
  /\ crashes = 0

NewChain(p) ==
  /\ ~up[p]
  /\ up' = [up EXCEPT ![p] = TRUE]
  /\ height' = [height EXCEPT ![p] = StoreHeight]
  /\ UNCHANGED <<storeVars, snapshot, lastQueued, pending, saving, callVars,
                 waiting, crashes>>

\* Everything the process held in memory is gone.
Crash(p) ==
  /\ up[p]
  /\ crashes < MaxCrashes
  /\ crashes' = crashes + 1
  /\ up' = [up EXCEPT ![p] = FALSE]
  /\ height' = [height EXCEPT ![p] = 0]
  /\ snapshot' = [snapshot EXCEPT ![p] = Empty]
  /\ lastQueued' = [lastQueued EXCEPT ![p] = 0]
  /\ pending' = [pending EXCEPT ![p] = <<>>]
  /\ saving' = [saving EXCEPT ![p] = <<>>]
  /\ pc' = [g \in Goroutines |-> IF ProcOf[g] = p THEN "idle" ELSE pc[g]]
  /\ block' = [g \in Goroutines |->
                 IF ProcOf[g] = p THEN NilHeader ELSE block[g]]
  /\ work' = [g \in Goroutines |-> IF ProcOf[g] = p THEN Empty ELSE work[g]]
  /\ goal' = [g \in Goroutines |-> IF ProcOf[g] = p THEN 0 ELSE goal[g]]
  /\ waiting' = [w \in Waiters |->
                   IF ProcOf[w] = p
                   THEN [pc |-> "idle", height |-> 0, caller |-> "none"]
                   ELSE waiting[w]]
  /\ UNCHANGED storeVars

\* The listener: heights announced by any process arrive late, repeatedly,
\* in any order or not at all.  setHeight ignores one that is not higher.
HearHeight(p, h) ==
  /\ up[p]
  /\ h \in finalized
  /\ SetHeight(p, h)
  /\ UNCHANGED <<storeVars, up, snapshot, lastQueued, pending, saving,
                 callVars, crashes>>

TakePending(p) ==
  /\ up[p]
  /\ saving[p] = <<>>
  /\ pending[p] # <<>>
  /\ saving' = [saving EXCEPT ![p] = pending[p]]
  /\ pending' = [pending EXCEPT ![p] = <<>>]
  /\ UNCHANGED <<storeVars, up, height, snapshot, lastQueued, callVars,
                 waiting, crashes>>

\* An error from the store is only logged.
SaveSnapshot(p) ==
  /\ up[p]
  /\ saving[p] # <<>>
  /\ stored' \in {stored, saving[p][1]}
  /\ saving' = [saving EXCEPT ![p] = <<>>]
  /\ UNCHANGED <<blocks, finalized, up, chainVars, callVars, waiting, crashes>>

-----------------------------------------------------------------------------
(***************************************************************************)
(* Goroutines.  A call's variables die with it.                            *)
(***************************************************************************)
Return(g) ==
  /\ pc' = [pc EXCEPT ![g] = "idle"]
  /\ block' = [block EXCEPT ![g] = NilHeader]
  /\ work' = [work EXCEPT ![g] = Empty]
  /\ goal' = [goal EXCEPT ![g] = 0]

Goto(g, l) == pc' = [pc EXCEPT ![g] = l]

(***************************************************************************)
(* CommitBlock(b).  A caller hands over only a block it has validated      *)
(* against the state of its Chain, so b is at most one block ahead of it.  *)
(***************************************************************************)
CommitBlock(g, h) ==
  /\ pc[g] = "idle" /\ up[ProcOf[g]]
  /\ h <= Height(snapshot[ProcOf[g]])
  /\ h \in DOMAIN blocks \cup {0}
  /\ \E b \in RemoteBlocks(h) :
       /\ SaveBlock(b)
       /\ block' = [block EXCEPT ![g] = b]
  /\ Goto(g, "saved")
  /\ UNCHANGED <<stored, finalized, up, chainVars, saving, work, goal,
                 waiting, crashes>>

ReadState(g) ==
  LET cur == snapshot[ProcOf[g]]
      r   == ApplyBlock(cur, block[g])
  IN  /\ pc[g] = "saved"
      /\ IF \/ block[g].height <= Height(cur)
            \/ ~r.ok
            \/ block[g].contractsRoot # r.snap.contracts
            \/ block[g].noncesRoot # r.snap.nonces
         THEN Return(g)
         ELSE /\ work' = [work EXCEPT ![g] = r.snap]
              /\ Goto(g, "finalize")
              /\ UNCHANGED <<block, goal>>
      /\ UNCHANGED <<storeVars, up, chainVars, saving, waiting, crashes>>

(***************************************************************************)
(* A generator takes c.State(), later calls GenerateBlock with it, and     *)
(* commits the result with CommitAppliedBlock.  GenerateBlock takes the    *)
(* header from its argument and the trees from c.state.snapshot.  Its      *)
(* ApplyBlockHeader cannot fail here: that state has an initial block.     *)
(***************************************************************************)
TakeState(g) ==
  /\ pc[g] = "idle" /\ up[ProcOf[g]]
  /\ Height(snapshot[ProcOf[g]]) \in 1..(MaxHeight - 1)
  /\ work' = [work EXCEPT ![g] = snapshot[ProcOf[g]]]
  /\ Goto(g, "generate")
  /\ UNCHANGED <<storeVars, up, chainVars, saving, block, goal, waiting,
                 crashes>>

\* Fault: GenerateBlock works on c.state.snapshot itself, not on a copy.
Generate_NoCopy(g) ==
  /\ pc[g] = "generate"
  /\ \E d \in Delays, txs \in Batches :
       LET prev == work[g].header
           made == GenerateBlock(snapshot[ProcOf[g]], prev,
                                 prev.timestampMS + d, txs)
       IN  /\ block' = [block EXCEPT ![g] = made.block]
           /\ work' = [work EXCEPT ![g] = made.snap]
           /\ snapshot' = [snapshot EXCEPT ![ProcOf[g]] = made.snap]
  /\ Goto(g, "save")
  /\ UNCHANGED <<storeVars, up, height, lastQueued, pending, saving, goal,
                 waiting, crashes>>

Generate(g) ==
  /\ pc[g] = "generate"
  /\ \E d \in Delays, txs \in Batches :
       LET prev == work[g].header
           made == GenerateBlock(snapshot[ProcOf[g]], prev,
                                 prev.timestampMS + d, txs)
       IN  /\ block' = [block EXCEPT ![g] = made.block]
           /\ work' = [work EXCEPT ![g] = made.snap]
  /\ Goto(g, "save")
  /\ UNCHANGED <<storeVars, up, chainVars, saving, goal, waiting, crashes>>

\* CommitAppliedBlock(block[g], work[g]).
SaveApplied(g) ==
  /\ pc[g] = "save"
  /\ \/ /\ SaveBlock(block[g])
        /\ Goto(g, "applied")
        /\ UNCHANGED <<block, work, goal>>
     \/ /\ ~CanSaveBlock(block[g])
        /\ Return(g)
        /\ UNCHANGED blocks
  /\ UNCHANGED <<stored, finalized, up, chainVars, saving, waiting, crashes>>

\* Fault: off by one, the next block counts as already applied.
ReadApplied_OffByOne(g) ==
  /\ pc[g] = "applied"
  /\ IF block[g].height <= Height(snapshot[ProcOf[g]]) + 1
     THEN Return(g)
     ELSE Goto(g, "finalize") /\ UNCHANGED <<block, work, goal>>
  /\ UNCHANGED <<storeVars, up, chainVars, saving, waiting, crashes>>

ReadApplied(g) ==
  /\ pc[g] = "applied"
  /\ IF block[g].height <= Height(snapshot[ProcOf[g]])
     THEN Return(g)
     ELSE Goto(g, "finalize") /\ UNCHANGED <<block, work, goal>>
  /\ UNCHANGED <<storeVars, up, chainVars, saving, waiting, crashes>>

(***************************************************************************)
(* finalizeCommitState(work[g]).                                           *)
(***************************************************************************)
CheckFrequency(g) ==
  /\ pc[g] = "finalize"
  /\ Goto(g, IF TimestampMS(work[g]) > lastQueued[ProcOf[g]] + SaveFrequencyMS
             THEN "queue" ELSE "set")
  /\ UNCHANGED <<storeVars, up, chainVars, saving, block, work, goal, waiting,
                 crashes>>

\* Fault: the channel takes any number of snapshots.
QueueSnapshot_Unbounded(g) ==
  LET p == ProcOf[g]
  IN  /\ pc[g] = "queue"
      /\ pending' = [pending EXCEPT ![p] = Append(@, work[g])]
      /\ Goto(g, "mark")
      /\ UNCHANGED <<storeVars, up, height, snapshot, lastQueued, saving,
                     block, work, goal, waiting, crashes>>

QueueSnapshot(g) ==
  LET p == ProcOf[g]
  IN  /\ pc[g] = "queue"
      /\ IF pending[p] = <<>>
         THEN /\ pending' = [pending EXCEPT ![p] = <<work[g]>>]
              /\ Goto(g, "mark")
         ELSE Goto(g, "set") /\ UNCHANGED pending
      /\ UNCHANGED <<storeVars, up, height, snapshot, lastQueued, saving,
                     block, work, goal, waiting, crashes>>

MarkQueued(g) ==
  /\ pc[g] = "mark"
  /\ lastQueued' = [lastQueued EXCEPT ![ProcOf[g]] = TimestampMS(work[g])]
  /\ Goto(g, "set")
  /\ UNCHANGED <<storeVars, up, height, snapshot, pending, saving, block,
                 work, goal, waiting, crashes>>

InstallState(g) ==
  /\ pc[g] = "set"
  /\ SetState(ProcOf[g], work[g])
  /\ Goto(g, "announce")
  /\ UNCHANGED <<storeVars, up, lastQueued, pending, saving, block, work,
                 goal, crashes>>

\* Fault: the next height is announced.
FinalizeHeight_Next(g) ==
  /\ pc[g] = "announce"
  /\ finalized' = finalized \cup {Height(work[g]) + 1}
  /\ Return(g)
  /\ UNCHANGED <<blocks, stored, up, chainVars, saving, waiting, crashes>>

\* FinalizeHeight may fail; its error goes to the caller.
FinalizeHeight(g) ==
  /\ pc[g] = "announce"
  /\ finalized' \in {finalized, finalized \cup {Height(work[g])}}
  /\ Return(g)
  /\ UNCHANGED <<blocks, stored, up, chainVars, saving, waiting, crashes>>

(***************************************************************************)
(* Recover: load the latest snapshot, replay the blocks above it, commit   *)
(* the last one.  It compares the contracts root only.                     *)
(***************************************************************************)
RecoverLoad(g) ==
  /\ pc[g] = "idle" /\ up[ProcOf[g]]
  /\ work' = [work EXCEPT ![g] = stored]
  /\ IF Height(stored) > 0
     THEN /\ Height(stored) \in DOMAIN blocks
          /\ block' = [block EXCEPT ![g] = blocks[Height(stored)]]
          /\ Goto(g, "loaded")
     ELSE Goto(g, "height") /\ UNCHANGED block
  /\ UNCHANGED <<storeVars, up, chainVars, saving, goal, waiting, crashes>>

RecoverMark(g) ==
  /\ pc[g] = "loaded"
  /\ lastQueued' = [lastQueued EXCEPT ![ProcOf[g]] = TimestampMS(work[g])]
  /\ Goto(g, "height")
  /\ UNCHANGED <<storeVars, up, height, snapshot, pending, saving, block,
                 work, goal, waiting, crashes>>

RecoverHeight(g) ==
  /\ pc[g] = "height"
  /\ goal' = [goal EXCEPT ![g] = StoreHeight]
  /\ Goto(g, "replay")
  /\ UNCHANGED <<storeVars, up, chainVars, saving, block, work, waiting,
                 crashes>>

ReplayBlock(g) ==
  LET h == Height(work[g]) + 1
      r == ApplyBlock(work[g], blocks[h])
  IN  /\ pc[g] = "replay"
      /\ h <= goal[g]
      /\ IF /\ h \in DOMAIN blocks
            /\ r.ok
            /\ blocks[h].contractsRoot = r.snap.contracts
         THEN /\ block' = [block EXCEPT ![g] = blocks[h]]
              /\ work' = [work EXCEPT ![g] = r.snap]
              /\ UNCHANGED <<pc, goal>>
         ELSE Return(g)
      /\ UNCHANGED <<storeVars, up, chainVars, saving, waiting, crashes>>

\* Fault: the last block may be left out.
ReplayDone_Early(g) ==
  /\ pc[g] = "replay"
  /\ Height(work[g]) + 1 >= goal[g]
  /\ IF block[g] = NilHeader
     THEN Return(g)
     ELSE Goto(g, "save") /\ UNCHANGED <<block, work, goal>>
  /\ UNCHANGED <<storeVars, up, chainVars, saving, waiting, crashes>>

ReplayDone(g) ==
  /\ pc[g] = "replay"
  /\ Height(work[g]) >= goal[g]
  /\ IF block[g] = NilHeader
     THEN Return(g)
     ELSE Goto(g, "save") /\ UNCHANGED <<block, work, goal>>
  /\ UNCHANGED <<storeVars, up, chainVars, saving, waiting, crashes>>

(***************************************************************************)
(* A Store call of g fails and g returns the error.  A SaveBlock that      *)
(* reports an error may nevertheless have saved the block.                 *)
(***************************************************************************)
StoreError(g) ==
  /\ StoreFails
  /\ \/ pc[g] \in {"saved", "save", "applied", "height"}
     \/ pc[g] = "replay" /\ Height(work[g]) < goal[g]
  /\ Return(g)
  /\ UNCHANGED <<storeVars, up, chainVars, saving, waiting, crashes>>

-----------------------------------------------------------------------------
(***************************************************************************)
(* Waiting for a height.  waiting[w].pc is the goroutine that waits on the *)
(* condition variable; waiting[w].caller is the BlockSoonWaiter goroutine  *)
(* around it ("plain" when there is none).                                 *)
(***************************************************************************)
StartWait(w, h, caller) ==
  waiting' = [waiting EXCEPT ![w] =
                [pc |-> "test", height |-> h, caller |-> caller]]

BlockWaiter(w, h) ==
  /\ up[ProcOf[w]]
  /\ waiting[w].pc = "idle" /\ waiting[w].caller = "none"
  /\ StartWait(w, h, "plain")
  /\ UNCHANGED <<storeVars, up, chainVars, saving, callVars, crashes>>

BlockSoonWaiter(w, h) ==
  /\ up[ProcOf[w]]
  /\ waiting[w].pc = "idle" /\ waiting[w].caller = "none"
  /\ IF h > height[ProcOf[w]] + Slop
     THEN waiting' = [waiting EXCEPT ![w].caller = "distant"]
     ELSE StartWait(w, h, "soon")
  /\ UNCHANGED <<storeVars, up, chainVars, saving, callVars, crashes>>

TestHeight(w) ==
  /\ waiting[w].pc = "test"
  /\ waiting' = [waiting EXCEPT ![w].pc =
                   IF height[ProcOf[w]] < waiting[w].height
                   THEN "parked" ELSE "done"]
  /\ UNCHANGED <<storeVars, up, chainVars, saving, callVars, crashes>>

ReceiveDone(w) ==
  /\ waiting[w].pc = "done" /\ waiting[w].caller = "soon"
  /\ waiting' = [waiting EXCEPT ![w].caller = "ok"]
  /\ UNCHANGED <<storeVars, up, chainVars, saving, callVars, crashes>>

\* ctx.Done wins the select; the goroutine behind BlockWaiter stays.
ContextDone(w) ==
  /\ waiting[w].caller = "soon"
  /\ waiting' = [waiting EXCEPT ![w].caller = "cancelled"]
  /\ UNCHANGED <<storeVars, up, chainVars, saving, callVars, crashes>>

-----------------------------------------------------------------------------
Continue(g) ==
  \/ ReadState(g)
  \/ Generate(g) \/ SaveApplied(g) \/ ReadApplied(g)
  \/ CheckFrequency(g) \/ QueueSnapshot(g) \/ MarkQueued(g)
  \/ InstallState(g) \/ FinalizeHeight(g)
  \/ RecoverMark(g) \/ RecoverHeight(g) \/ ReplayBlock(g) \/ ReplayDone(g)

Next ==
  \/ \E p \in Procs :
       \/ NewChain(p) \/ Crash(p)
       \/ TakePending(p) \/ SaveSnapshot(p)
       \/ \E h \in 1..MaxHeight : HearHeight(p, h)
  \/ \E g \in Goroutines :
       \/ \E h \in 0..(MaxHeight - 1) : CommitBlock(g, h)
       \/ TakeState(g) \/ RecoverLoad(g)
       \/ Continue(g) \/ StoreError(g)
  \/ \E w \in Waiters :
       \/ \E h \in 1..MaxHeight : BlockWaiter(w, h) \/ BlockSoonWaiter(w, h)
       \/ TestHeight(w) \/ ReceiveDone(w) \/ ContextDone(w)

Spec == Init /\ [][Next]_vars

\* The Go scheduler runs every goroutine that can run.
Fairness ==
  /\ \A g \in Goroutines : WF_vars(Continue(g))
  /\ \A p \in Procs : WF_vars(TakePending(p)) /\ WF_vars(SaveSnapshot(p))
  /\ \A w \in Waiters : WF_vars(TestHeight(w)) /\ WF_vars(ReceiveDone(w))

FairSpec == Spec /\ Fairness

-----------------------------------------------------------------------------
(***************************************************************************)
(* Properties.                                                             *)
(***************************************************************************)
IsSnapshot(s) ==
  /\ DOMAIN s = DOMAIN Empty
  /\ Height(s) \in 0..MaxHeight
  /\ TimestampMS(s) \in Nat

Labels == {"idle", "saved", "generate", "save", "applied", "finalize",
           "queue", "mark", "set", "announce", "loaded", "height", "replay"}

WaiterLabels == {"idle", "test", "parked", "done"}
Callers == {"none", "plain", "soon", "ok", "distant", "cancelled"}

\* Every variable holds a value of its kind: heights within the bound,
\* channels with at most the one snapshot their capacity allows.
TypeOK ==
  /\ \A h \in DOMAIN blocks :
       /\ h \in 1..MaxHeight
       /\ blocks[h].height = h
       /\ blocks[h].timestampMS \in Nat
  /\ IsSnapshot(stored)
  /\ finalized \subseteq 1..MaxHeight
  /\ up \in [Procs -> BOOLEAN]
  /\ DOMAIN height = Procs /\ \A p \in Procs : height[p] \in 0..MaxHeight
  /\ DOMAIN snapshot = Procs /\ \A p \in Procs : IsSnapshot(snapshot[p])
  /\ lastQueued \in [Procs -> Nat]
  /\ DOMAIN pending = Procs /\ \A p \in Procs : Len(pending[p]) <= 1
  /\ DOMAIN saving = Procs /\ \A p \in Procs : Len(saving[p]) <= 1
  /\ pc \in [Goroutines -> Labels]
  /\ DOMAIN block = Goroutines
  /\ DOMAIN work = Goroutines /\ \A g \in Goroutines : IsSnapshot(work[g])
  /\ goal \in [Goroutines -> 0..MaxHeight]
  /\ waiting \in [Waiters -> [pc : WaiterLabels, height : 0..MaxHeight,
                              caller : Callers]]
  /\ crashes \in Nat

\* The snapshots a process has installed, queued or is saving, and the one
\* in the store.
LiveSnapshots ==
  {stored} \cup {snapshot[p] : p \in Procs}
           \cup UNION {Range(pending[p]) \cup Range(saving[p]) : p \in Procs}

\* s agrees with the stored blocks up to its height: header, initial block,
\* block IDs and contracts.
Matches(bl, s) ==
  LET t == StateAt(bl, Height(s))
  IN  /\ Height(s) \in DOMAIN bl \cup {0}
      /\ s.header = t.header
      /\ s.initial = t.initial
      /\ s.refs = t.refs
      /\ s.contracts = t.contracts

\* Every snapshot that is current, queued, being saved or saved is the state
\* that the stored blocks up to its height commit to, whichever goroutine,
\* process, generator or recovery produced it (CommitBlock,
\* CommitAppliedBlock, Recover, queueSnapshot).
SnapshotsMatchBlocks == \A s \in LiveSnapshots : Matches(blocks, s)

\* The same of the nonces.  Recover does not compare the nonces root, so
\* here it depends on replay being deterministic.
NoncesMatchBlocks ==
  \A s \in LiveSnapshots : s.nonces = StateAt(blocks, Height(s)).nonces

\* The stored blocks are a chain without gaps, each valid after the one
\* before it, and replaying any of them on the state of its predecessor
\* succeeds and gives both roots in its header.  SaveBlock is "the
\* linearization point": what it stores must be recoverable.
StoredBlocksReplay ==
  /\ DOMAIN blocks = 1..StoreHeight
  /\ \A h \in DOMAIN blocks :
       LET r == ApplyBlock(StateAt(blocks, h - 1), blocks[h])
       IN  /\ ValidateBlock(blocks[h], StateAt(blocks, h - 1).header)
           /\ r.ok
           /\ r.snap = StateAt(blocks, h)

\* No transaction is in the chain twice: spent contracts and recorded nonces
\* keep it out, and once PruneNonces forgets a nonce the time range that
\* goes with it has passed (CheckTransactionTime, ApplyTx, PruneNonces).
TxAppliedOnce ==
  \A h, k \in DOMAIN blocks :
    \A i \in DOMAIN blocks[h].txs, j \in DOMAIN blocks[k].txs :
      blocks[h].txs[i] = blocks[k].txs[j] => h = k /\ i = j

\* What the Chain says of itself never runs ahead of the store: the state is
\* at most at the height, and the height, the saved snapshot and every
\* announced height are those of saved blocks (setState, setHeight, NewChain,
\* FinalizeHeight).
HeightsAreStored ==
  /\ \A p \in Procs :
       Height(snapshot[p]) <= height[p] /\ height[p] <= StoreHeight
  /\ Height(stored) <= StoreHeight
  /\ finalized \subseteq DOMAIN blocks

\* Recover never fails to replay: the blocks it needs are there and apply,
\* although a stale snapshot may have been saved over a newer one and other
\* processes keep committing meanwhile.
RecoverReplays ==
  \A g \in Goroutines :
    pc[g] = "replay" /\ Height(work[g]) < goal[g] =>
      LET h == Height(work[g]) + 1
      IN  /\ h \in DOMAIN blocks
          /\ ApplyBlock(work[g], blocks[h]) =
               [ok |-> TRUE, snap |-> StateAt(blocks, h)]

\* A saved block is never replaced or removed (SaveBlock).
StoreAppendOnly ==
  [][\A h \in DOMAIN blocks :
       h \in DOMAIN blocks' /\ blocks'[h] = blocks[h]]_vars

\* While a process runs, its height and its state only move forward,
\* although goroutines install states out of order (setState, setHeight).
ChainNeverGoesBack ==
  [][\A p \in Procs : up[p] /\ up'[p] =>
       /\ height'[p] >= height[p]
       /\ Height(snapshot'[p]) >= Height(snapshot[p])]_vars

\* No lost wakeup: a goroutine parked on the condition variable is waiting
\* for a height not reached yet (BlockWaiter, Broadcast in setState and
\* setHeight).
NoLostWakeup ==
  \A w \in Waiters :
    waiting[w].pc = "parked" => height[ProcOf[w]] < waiting[w].height

\* When a waiter reports success the block it waited for can be read from
\* the store (BlockWaiter, BlockSoonWaiter).
WaiterSeesBlock ==
  \A w \in Waiters :
    waiting[w].pc = "done" \/ waiting[w].caller = "ok" =>
      waiting[w].height \in DOMAIN blocks

\* A block that a goroutine has saved becomes part of its Chain's state
\* unless the process crashes (CommitBlock, CommitAppliedBlock).
SavedBlockBecomesState ==
  \A g \in Goroutines, h \in 1..MaxHeight :
    pc[g] \in {"saved", "applied"} /\ block[g].height = h
      ~> Height(snapshot[ProcOf[g]]) >= h \/ ~up[ProcOf[g]]

\* Recover brings the Chain up to the height it found in the store, unless
\* the process crashes again.
RecoverReachesStore ==
  \A g \in Goroutines, h \in 1..MaxHeight :
    pc[g] = "replay" /\ goal[g] = h
      ~> Height(snapshot[ProcOf[g]]) >= h \/ ~up[ProcOf[g]]

\* Whoever waits for a height that the Chain reaches is told so.
WaiterWakes ==
  \A w \in Waiters :
    (/\ waiting[w].pc \in {"test", "parked"}
     /\ height[ProcOf[w]] >= waiting[w].height)
      ~> (waiting[w].pc = "done" \/ ~up[ProcOf[w]])

\* Stated by the package documentation: "Blocks produced by GenerateBlock
\* are already known to be valid."  The block GenerateBlock returns replays,
\* with the roots in its header, on the state of the block it follows.
GeneratedBlocksValid ==
  \A g \in Goroutines :
    pc[g] = "save" /\ goal[g] = 0 =>
      LET r == ApplyBlock(StateAt(blocks, block[g].height - 1), block[g])
      IN  /\ r.ok
          /\ r.snap.contracts = block[g].contractsRoot
          /\ r.snap.nonces = block[g].noncesRoot

\* Stated by the specification of the blockchain state: "The size of this
\* set is equal to block.header.refscount."  ApplyBlockHeader appends to
\* RefIDs and nothing removes from it.
RefIDsMatchRefsCount ==
  \A p \in Procs : Len(snapshot[p].refs) = snapshot[p].header.refsCount
=============================================================================
