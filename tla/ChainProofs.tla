---------------------------- MODULE ChainProofs -----------------------------
(***************************************************************************)
(* The theorems about module Chain, for all processes, goroutines, waiters,*)
(* batches of transactions and bounds.                                     *)
(***************************************************************************)
EXTENDS ChainInvariant, SnapshotProofs, ChainLedger, FiniteSetTheorems

\* The height of a store without gaps.
LEMMA StoreHeightOf ==
  ASSUME NEW n \in Nat, DOMAIN blocks = 1..n
  PROVE  StoreHeight = n
BY FS_Interval, SMT DEF StoreHeight

\* NewChain starts with the empty state.
LEMMA NewChainInv ==
  ASSUME IInv, NEW p \in Procs, NewChain(p)
  PROVE  IInv'
<1>1. PICK n \in 0..MaxHeight : DOMAIN blocks = 1..n
  BY Zenon DEF IInv, StoreInv
<1>2. StoreHeight = n
  BY SMTT(30), <1>1, StoreHeightOf, ChainAssumptions
<1>3. Domains'
  BY Zenon DEF NewChain, IInv, Domains, storeVars, callVars
<1>4. ProcsInv'
  <2> SUFFICES ASSUME NEW q \in Procs
               PROVE  ProcInv(blocks, height'[q], snapshot[q], pending[q], saving[q])
    BY Zenon DEF ProcsInv, NewChain, storeVars
  <2>1. ProcInv(blocks, height[q], snapshot[q], pending[q], saving[q])
    BY Zenon DEF IInv, ProcsInv
  <2>2. height'[q] = IF q = p THEN n ELSE height[q]
    BY Zenon, <1>2 DEF NewChain, IInv, Domains
  <2>3. n \in DOMAIN blocks \cup {0} /\ Height(snapshot[q]) <= n
    BY SMTT(30), <1>1, <2>1, ChainAssumptions DEF ProcInv, Good, Matches
  <2> QED
    BY Zenon, <2>1, <2>2, <2>3 DEF ProcInv
<1>5. WaitsInv'
  <2> SUFFICES ASSUME NEW w \in Waiters
               PROVE  WaitInv(up'[ProcOf[w]], height'[ProcOf[w]], waiting[w])
    BY Zenon DEF WaitsInv, NewChain
  <2>1. WaitInv(up[ProcOf[w]], height[ProcOf[w]], waiting[w])
    BY Zenon DEF IInv, WaitsInv
  <2>2. CASE ProcOf[w] = p
    BY Zenon, <2>1, <2>2 DEF NewChain, WaitInv
  <2>3. CASE ProcOf[w] # p
    BY Zenon, <2>1, <2>3, ChainAssumptions DEF NewChain, WaitInv, IInv, Domains
  <2> QED BY Zenon, <2>2, <2>3
<1> QED
  BY Zenon, <1>3, <1>4, <1>5 DEF IInv, CallsInv, NewChain, storeVars, callVars

\* Recover takes the height of the store as its goal.
LEMMA RecoverHeightInv ==
  ASSUME IInv, NEW g \in Goroutines, RecoverHeight(g)
  PROVE  IInv'
<1>1. StoreHeight \in 0..MaxHeight
  BY SMTT(30), StoreHeightOf, ChainAssumptions DEF IInv, StoreInv
<1>2. Domains' /\ CallChanges(g)
  BY Zenon, <1>1
  DEF RecoverHeight, Goto, IInv, Domains, Labels, CallChanges, chainVars
<1>3. pc'[g] = "replay" /\ block'[g] = block[g] /\ work'[g] = work[g]
  BY Zenon DEF RecoverHeight, Goto, IInv, Domains
<1>4. CallInv(blocks, snapshot[ProcOf[g]], pc'[g], block'[g], work'[g])
  BY Zenon, <1>3, CurrentState DEF RecoverHeight, CallInv
<1> QED
  BY Zenon, <1>2, <1>4, LocalStep DEF RecoverHeight, chainVars

\* Every step preserves the invariant.
LEMMA NextInv == IInv /\ [Next]_vars => IInv'
<1> SUFFICES ASSUME IInv, [Next]_vars PROVE IInv'
  BY Zenon
<1>1. ASSUME NEW p \in Procs,
             \/ NewChain(p) \/ Crash(p)
             \/ TakePending(p) \/ SaveSnapshot(p)
             \/ \E h \in 1..MaxHeight : HearHeight(p, h)
      PROVE  IInv'
  BY Zenon, <1>1, NewChainInv, CrashInv, TakePendingInv, SaveSnapshotInv, HearHeightInv
<1>2. ASSUME NEW g \in Goroutines,
             \/ \E h \in 0..(MaxHeight - 1) : CommitBlock(g, h)
             \/ TakeState(g) \/ RecoverLoad(g)
             \/ Continue(g) \/ StoreError(g)
      PROVE  IInv'
  BY Zenon, <1>2, CommitBlockInv, TakeStateInv, RecoverLoadInv, ReadStateInv,
     GenerateInv, SaveAppliedInv, ReadAppliedInv, CheckFrequencyInv,
     QueueSnapshotInv, MarkInv, InstallStateInv, FinalizeHeightInv,
     RecoverHeightInv, ReplayBlockInv, ReplayDoneInv, StoreErrorInv
  DEF Continue
<1>3. CASE UNCHANGED vars
  BY Zenon, <1>3
  DEF vars, storeVars, chainVars, callVars, IInv, Domains, ProcsInv, CallsInv,
      WaitsInv
<1> QED
  BY Zenon, <1>1, <1>2, <1>3, WaiterInv DEF Next

-----------------------------------------------------------------------------
(***************************************************************************)
(* The theorems.                                                           *)
(***************************************************************************)

\* IInv holds in every state the processes, goroutines and waiters reach,
\* whatever they interleave and wherever they crash.
THEOREM InductiveInvariant == Spec => []IInv
BY InitInv, NextInv, PTL DEF Spec

\* Every variable of the Chain keeps a value of its kind; in particular the
\* channel to the snapshot saver never holds more than one snapshot.
THEOREM TypeCorrect == Spec => []TypeOK
<1>1. IInv => TypeOK
  <2> SUFFICES ASSUME IInv PROVE TypeOK
    BY Zenon
  <2>1. \A h \in DOMAIN blocks :
          /\ h \in 1..MaxHeight
          /\ blocks[h].height = h
          /\ blocks[h].timestampMS \in Nat
    BY ChainAssumptions DEF IInv, StoreInv
  <2>2. IsSnapshot(stored) /\ finalized \subseteq 1..MaxHeight
    BY Zenon, <2>1 DEF IInv, Good
  <2>3. ASSUME NEW p \in Procs
        PROVE  /\ height[p] \in 0..MaxHeight
               /\ IsSnapshot(snapshot[p])
               /\ Len(pending[p]) <= 1 /\ Len(saving[p]) <= 1
    <3>1. ProcInv(blocks, height[p], snapshot[p], pending[p], saving[p])
      BY Zenon DEF IInv, ProcsInv
    <3>2. ASSUME NEW q, GoodQueue(blocks, q) PROVE Len(q) <= 1
      <4>1. Len(<<>>) = 0 /\ \A x : Len(<<x>>) = 1
        BY Zenon
      <4>2. CASE q = <<>>
        BY <4>1, <4>2
      <4>3. CASE \E x : q = <<x>>
        BY <4>1, <4>3
      <4> QED BY Zenon, <3>2, <4>2, <4>3 DEF GoodQueue
    <3>3. height[p] \in 0..MaxHeight /\ IsSnapshot(snapshot[p])
      BY SMTT(30), <2>1, <3>1, ChainAssumptions DEF ProcInv, Good
    <3>4. Len(pending[p]) <= 1 /\ Len(saving[p]) <= 1
      BY Zenon, <3>1, <3>2 DEF ProcInv
    <3> QED
      BY Zenon, <3>3, <3>4
  <2>4. \A g \in Goroutines : IsSnapshot(work[g])
    BY Zenon DEF IInv, CallsInv, CallInv
  <2> QED
    BY Zenon, <2>1, <2>2, <2>3, <2>4 DEF TypeOK, IInv, Domains
<1> QED
  BY <1>1, InductiveInvariant, PTL

\* Every snapshot that is current, queued for saving or saved has the header,
\* initial block, block IDs and contracts of the stored blocks up to its
\* height, although commits, generators and recoveries race and crash.
THEOREM SnapshotsMatch == Spec => []SnapshotsMatchBlocks
<1>1. IInv => SnapshotsMatchBlocks
  <2> SUFFICES ASSUME IInv, NEW s \in LiveSnapshots
               PROVE  Matches(blocks, s)
    BY Zenon DEF SnapshotsMatchBlocks
  <2>1. CASE s = stored
    BY Zenon, <2>1 DEF IInv, Good
  <2>2. ASSUME NEW p \in Procs, s = snapshot[p]
        PROVE  Matches(blocks, s)
    BY Zenon, <2>2 DEF IInv, ProcsInv, ProcInv, Good
  <2>3. ASSUME NEW q, GoodQueue(blocks, q), s \in Range(q)
        PROVE  Matches(blocks, s)
    <3>1. PICK i \in DOMAIN q : s = q[i]
      BY Zenon, <2>3 DEF Range
    <3>2. q = <<q[1]>> /\ Good(blocks, q[1])
      BY <2>3, <3>1 DEF GoodQueue
    <3>3. DOMAIN <<q[1]>> = {1}
      OBVIOUS
    <3> QED
      BY Zenon, <3>1, <3>2, <3>3 DEF Good
  <2>4. ASSUME NEW p \in Procs, s \in Range(pending[p]) \cup Range(saving[p])
        PROVE  Matches(blocks, s)
    BY Zenon, <2>3, <2>4 DEF IInv, ProcsInv, ProcInv
  <2> QED
    BY Zenon, <2>1, <2>2, <2>4 DEF LiveSnapshots
<1> QED
  BY <1>1, InductiveInvariant, PTL

\* The height and state a Chain reports, the snapshot in the store and every
\* announced height belong to blocks that are in the store.
THEOREM HeightsStored == Spec => []HeightsAreStored
<1>1. IInv => HeightsAreStored
  <2> SUFFICES ASSUME IInv PROVE HeightsAreStored
    BY Zenon
  <2>1. PICK n \in 0..MaxHeight : DOMAIN blocks = 1..n
    BY Zenon DEF IInv, StoreInv
  <2>2. StoreHeight = n
    BY SMTT(30), <2>1, StoreHeightOf, ChainAssumptions
  <2>3. \A p \in Procs : Height(snapshot[p]) <= height[p] /\ height[p] <= n
    BY SMTT(30), <2>1, ChainAssumptions DEF IInv, ProcsInv, ProcInv
  <2>4. Height(stored) <= n
    BY SMTT(30), <2>1, ChainAssumptions DEF IInv, Good, Matches
  <2> QED
    BY Zenon, <2>2, <2>3, <2>4 DEF HeightsAreStored, IInv
<1> QED
  BY <1>1, InductiveInvariant, PTL

\* No goroutine stays parked on the condition variable for a height that the
\* Chain has reached: every rise of the height is followed by a broadcast
\* before anyone can park.
THEOREM WakeupsNotLost == Spec => []NoLostWakeup
<1>1. IInv => NoLostWakeup
  BY Zenon DEF IInv, WaitsInv, WaitInv, NoLostWakeup
<1> QED
  BY <1>1, InductiveInvariant, PTL

\* A waiter that reports success finds the block it waited for in the store.
THEOREM WaitersSeeBlocks == Spec => []WaiterSeesBlock
<1>1. IInv => WaiterSeesBlock
  <2> SUFFICES ASSUME IInv, NEW w \in Waiters,
                      waiting[w].pc = "done" \/ waiting[w].caller = "ok"
               PROVE  waiting[w].height \in DOMAIN blocks
    BY Zenon DEF WaiterSeesBlock
  <2>1. PICK n \in 0..MaxHeight : DOMAIN blocks = 1..n
    BY Zenon DEF IInv, StoreInv
  <2>2. ProcOf[w] \in Procs
    BY Zenon, ChainAssumptions
  <2>3. height[ProcOf[w]] \in 0..n
    BY SMTT(30), <2>1, <2>2, ChainAssumptions DEF IInv, ProcsInv, ProcInv
  <2>4. /\ waiting[w].height \in Int
        /\ waiting[w].height >= 1 /\ waiting[w].height <= height[ProcOf[w]]
    BY DEF IInv, WaitsInv, WaitInv
  <2> QED
    BY SMTT(30), <2>1, <2>3, <2>4, ChainAssumptions
<1> QED
  BY <1>1, InductiveInvariant, PTL

\* No step of any goroutine, process or crash replaces or removes a saved
\* block.
THEOREM AppendOnly == Spec => StoreAppendOnly
<1> DEFINE Keep == \A h \in DOMAIN blocks :
                     h \in DOMAIN blocks' /\ blocks'[h] = blocks[h]
<1>1. ASSUME NEW b, SaveBlock(b) PROVE Keep
  BY Zenon, <1>1 DEF SaveBlock, CanSaveBlock, BlockID
<1>2. ASSUME [Next]_vars PROVE Keep
  <2>1. CASE UNCHANGED blocks
    BY Zenon, <2>1
  <2>2. CASE \E g \in Goroutines, h \in 0..(MaxHeight - 1) : CommitBlock(g, h)
    BY Zenon, <1>1, <2>2 DEF CommitBlock
  <2>3. CASE \E g \in Goroutines : SaveApplied(g)
    BY Zenon, <1>1, <2>1, <2>3 DEF SaveApplied
  <2> HIDE DEF Keep
  <2>4. ASSUME NEW p \in Procs,
               \/ NewChain(p) \/ Crash(p) \/ TakePending(p) \/ SaveSnapshot(p)
               \/ \E h \in 1..MaxHeight : HearHeight(p, h)
        PROVE  Keep
    BY Zenon, <2>1, <2>4
    DEF NewChain, Crash, TakePending, SaveSnapshot, HearHeight, storeVars
  <2>5. ASSUME NEW g \in Goroutines,
               TakeState(g) \/ RecoverLoad(g) \/ Continue(g) \/ StoreError(g)
        PROVE  Keep
    BY Zenon, <2>1, <2>3, <2>5
    DEF Continue, TakeState, RecoverLoad, ReadState, Generate, ReadApplied,
        CheckFrequency, QueueSnapshot, MarkQueued, InstallState,
        FinalizeHeight, RecoverMark, RecoverHeight, ReplayBlock, ReplayDone,
        StoreError, storeVars
  <2>6. ASSUME NEW w \in Waiters,
               \/ \E h \in 1..MaxHeight :
                    BlockWaiter(w, h) \/ BlockSoonWaiter(w, h)
               \/ TestHeight(w) \/ ReceiveDone(w) \/ ContextDone(w)
        PROVE  Keep
    BY Zenon, <2>1, <2>6
    DEF BlockWaiter, BlockSoonWaiter, TestHeight, ReceiveDone, ContextDone,
        storeVars
  <2>7. CASE UNCHANGED vars
    BY Zenon, <2>1, <2>7 DEF vars, storeVars
  <2> QED
    BY Zenon, <1>2, <2>2, <2>4, <2>5, <2>6, <2>7 DEF Next
<1>3. [Next]_vars => [Keep]_vars
  BY Zenon, <1>2
<1> QED
  BY <1>3, PTL DEF Spec, StoreAppendOnly

\* While a process runs, neither its height nor its state goes back, in
\* whatever order its goroutines install the states they computed.
THEOREM NeverGoesBack == Spec => ChainNeverGoesBack
<1> DEFINE Forward == \A p \in Procs : up[p] /\ up'[p] =>
                        /\ height'[p] >= height[p]
                        /\ Height(snapshot'[p]) >= Height(snapshot[p])
<1>1. ASSUME IInv PROVE \A p \in Procs : /\ height[p] \in Int
                                         /\ Height(snapshot[p]) \in Int
  BY SMTT(30), <1>1, ChainAssumptions
  DEF IInv, ProcsInv, ProcInv, Good, IsSnapshot, StoreInv
<1>2. ASSUME IInv, [Next]_vars PROVE Forward
  <2>1. CASE UNCHANGED <<height, snapshot>>
    BY SMTT(30), <1>1, <1>2, <2>1
  <2>2. ASSUME NEW p \in Procs, NewChain(p) PROVE Forward
    BY SMTT(30), <1>1, <1>2, <2>2 DEF NewChain, IInv, Domains
  <2>3. ASSUME NEW p \in Procs, Crash(p) PROVE Forward
    BY SMTT(30), <1>1, <1>2, <2>3 DEF Crash, IInv, Domains
  <2>4. ASSUME NEW p \in Procs, NEW h \in 1..MaxHeight, HearHeight(p, h)
        PROVE  Forward
    BY SMTT(30), <1>1, <1>2, <2>4 DEF HearHeight, SetHeight, IInv, Domains
  <2>5. ASSUME NEW g \in Goroutines, InstallState(g) PROVE Forward
    <3>1. ProcOf[g] \in Procs
      BY Zenon, ChainAssumptions
    <3>2. IsSnapshot(work[g])
      BY Zenon, <1>2 DEF IInv, CallsInv, CallInv
    <3>3. Height(work[g]) \in Int
      BY <3>2, ChainAssumptions DEF IsSnapshot
    <3> QED
      BY SMTT(30), <1>1, <1>2, <2>5, <3>1, <3>3 DEF InstallState, SetState, IInv, Domains
  <2> HIDE DEF Forward
  <2>6. ASSUME NEW p \in Procs, TakePending(p) \/ SaveSnapshot(p)
        PROVE  Forward
    BY Zenon, <2>1, <2>6 DEF TakePending, SaveSnapshot, chainVars
  <2>7. ASSUME NEW g \in Goroutines,
               \/ \E h \in 0..(MaxHeight - 1) : CommitBlock(g, h)
               \/ TakeState(g) \/ RecoverLoad(g)
               \/ Continue(g) \/ StoreError(g)
        PROVE  Forward
    BY Zenon, <2>1, <2>5, <2>7
    DEF Continue, CommitBlock, SaveApplied, TakeState, RecoverLoad, ReadState,
        Generate, ReadApplied, CheckFrequency, QueueSnapshot, MarkQueued,
        FinalizeHeight, RecoverMark, RecoverHeight, ReplayBlock, ReplayDone,
        StoreError, chainVars
  <2>8. ASSUME NEW w \in Waiters,
               \/ \E h \in 1..MaxHeight :
                    BlockWaiter(w, h) \/ BlockSoonWaiter(w, h)
               \/ TestHeight(w) \/ ReceiveDone(w) \/ ContextDone(w)
        PROVE  Forward
    BY Zenon, <2>1, <2>8
    DEF BlockWaiter, BlockSoonWaiter, TestHeight, ReceiveDone, ContextDone,
        chainVars
  <2>9. CASE UNCHANGED vars
    BY Zenon, <2>1, <2>9 DEF vars, chainVars
  <2> QED
    BY Zenon, <1>2, <2>2, <2>3, <2>4, <2>6, <2>7, <2>8, <2>9 DEF Next
<1>3. IInv /\ [Next]_vars => [Forward]_vars
  BY Zenon, <1>2
<1> QED
  BY <1>3, InductiveInvariant, PTL DEF Spec, ChainNeverGoesBack

-----------------------------------------------------------------------------
(***************************************************************************)
(* The Chain implements Ledger.  A step that saves a block extends the     *)
(* log, a step that installs a state advances a replica, a crash restarts  *)
(* one, and every other step leaves the ledger as it is.  What makes the   *)
(* saved block the next one and the installed state a prefix of the log is *)
(* IInv.                                                                   *)
(***************************************************************************)
LEMMA SaveExtends ==
  ASSUME IInv, NEW b, SaveBlock(b),
         b.height \in 1..MaxHeight,
         b.height - 1 \in DOMAIN blocks \cup {0},
         UNCHANGED snapshot
  PROVE  L!Extend \/ UNCHANGED <<storedIDs, appliedIDs>>
<1>1. PICK n \in 0..MaxHeight : DOMAIN blocks = 1..n
  BY Zenon DEF IInv, StoreInv
<1>2. /\ DOMAIN blocks' = DOMAIN blocks \cup {b.height}
      /\ \A h \in DOMAIN blocks : blocks'[h] = blocks[h]
  BY Zenon DEF SaveBlock, CanSaveBlock, BlockID
<1>3. \A h \in DOMAIN blocks : storedIDs[h] = storedIDs'[h]
  BY Zenon, <1>2 DEF storedIDs
<1>4. UNCHANGED appliedIDs
  BY Zenon DEF appliedIDs
<1>5. CASE b.height \in DOMAIN blocks
  <2>1. DOMAIN blocks' = DOMAIN blocks
    BY Zenon, <1>2, <1>5
  <2> QED
    BY Zenon, <1>2, <1>4, <2>1 DEF storedIDs
<1>6. CASE b.height \notin DOMAIN blocks
  <2>1. b.height = n + 1 /\ n \in Nat
    BY SMTT(30), <1>1, <1>6, ChainAssumptions
  <2>2. DOMAIN storedIDs = 1..(b.height - 1) /\ DOMAIN storedIDs' = 1..b.height
    BY SMTT(30), <1>1, <1>2, <2>1 DEF storedIDs
  <2>3. b.height \in DOMAIN storedIDs'
    BY SMTT(30), <2>1, <2>2
  <2> QED
    BY Zenon, <1>3, <1>4, <2>2, <2>3 DEF L!Extend, storedIDs
<1> QED
  BY Zenon, <1>5, <1>6

\* setState is a step of the replica, or none.
LEMMA InstallAdvances ==
  ASSUME IInv, NEW g \in Goroutines, InstallState(g)
  PROVE  L!Advance(ProcOf[g]) \/ UNCHANGED <<storedIDs, appliedIDs>>
<1> DEFINE p == ProcOf[g]
           n == Height(work[g])
<1>1. /\ p \in Procs /\ Good(blocks, work[g]) /\ n \in DOMAIN blocks
      /\ n \in Nat /\ n # 0 /\ Height(snapshot[p]) \in Nat
  <2>1. /\ CallInv(blocks, snapshot[p], pc[g], block[g], work[g])
        /\ p \in Procs /\ Height(snapshot[p]) \in 0..MaxHeight
    BY Zenon, CurrentState
  <2>2. IsSnapshot(work[g]) /\ Matches(blocks, work[g]) /\ n >= 1
    BY Zenon, <2>1 DEF InstallState, CallInv
  <2>3. n \in Nat /\ n # 0 /\ Height(snapshot[p]) \in Nat
    BY SMTT(30), <2>1, <2>2, ChainAssumptions DEF IsSnapshot
  <2>4. n \in DOMAIN blocks
    BY Zenon, <2>2, <2>3 DEF Matches
  <2> QED
    BY Zenon, <2>1, <2>2, <2>3, <2>4 DEF Good
<1>2. UNCHANGED storedIDs
  BY Zenon DEF InstallState, storeVars, storedIDs
<1>3. CASE UNCHANGED snapshot
  BY Zenon, <1>2, <1>3 DEF appliedIDs
<1>4. CASE /\ n > Height(snapshot[p])
           /\ snapshot' = [snapshot EXCEPT ![p] = work[g]]
  <2>1. work[g].refs = [h \in 1..n |-> BlockID(blocks[h])]
    BY Zenon, <1>1 DEF Good, Matches, StateAt
  <2>2. 1..n \subseteq DOMAIN blocks
    <3>1. PICK k \in 0..MaxHeight : DOMAIN blocks = 1..k
      BY Zenon DEF IInv, StoreInv
    <3> QED
      BY SMTT(30), <1>1, <3>1, ChainAssumptions
  <2>3. work[g].refs = [h \in 1..n |-> storedIDs[h]]
    BY Zenon, <2>1, <2>2 DEF storedIDs
  <2>4. n \notin DOMAIN appliedIDs[p]
    <3>1. snapshot[p].refs = StateAt(blocks, Height(snapshot[p])).refs
      BY Zenon, CurrentState DEF Good, Matches
    <3>2. CASE Height(snapshot[p]) = 0
      BY SMTT(30), <1>1, <3>1, <3>2 DEF StateAt, Empty, appliedIDs
    <3>3. CASE Height(snapshot[p]) # 0
      BY SMTT(30), <1>1, <1>4, <3>1, <3>3 DEF StateAt, appliedIDs
    <3> QED
      BY Zenon, <3>2, <3>3
  <2>5. appliedIDs' = [appliedIDs EXCEPT ![p] = work[g].refs]
    BY Zenon, <1>4 DEF appliedIDs, IInv, Domains
  <2>6. n \in DOMAIN storedIDs
    BY Zenon, <1>1 DEF storedIDs
  <2> QED
    BY Zenon, <1>2, <2>3, <2>4, <2>5, <2>6 DEF L!Advance
<1> QED
  BY SMTT(30), <1>1, <1>3, <1>4 DEF InstallState, SetState

\* A crash is a restart of the replica.
LEMMA CrashRestarts ==
  ASSUME IInv, NEW p \in Procs, Crash(p)
  PROVE  L!Restart(p)
BY Zenon DEF Crash, IInv, Domains, storeVars, storedIDs, appliedIDs, Empty, L!Restart

\* Every step of the Chain is a step of the ledger, or none.
LEMMA StepRefines == IInv /\ [Next]_vars => [L!LedgerNext]_(L!ledgerVars)
<1> DEFINE Refines == [L!LedgerNext]_(L!ledgerVars)
<1> SUFFICES ASSUME IInv, [Next]_vars PROVE Refines
  BY Zenon
<1>1. CASE UNCHANGED <<blocks, snapshot>>
  BY Zenon, <1>1 DEF L!ledgerVars, storedIDs, appliedIDs
<1>2. ASSUME L!Extend \/ UNCHANGED <<storedIDs, appliedIDs>> PROVE Refines
  BY Zenon, <1>2 DEF L!LedgerNext, L!ledgerVars
<1>3. ASSUME NEW p \in Procs, Crash(p) PROVE Refines
  BY Zenon, <1>3, CrashRestarts DEF L!LedgerNext
<1>4. ASSUME NEW g \in Goroutines, InstallState(g) PROVE Refines
  <2>1. ProcOf[g] \in Procs
    BY Zenon, CurrentState
  <2> QED
    BY Zenon, <1>4, <2>1, InstallAdvances DEF L!LedgerNext, L!ledgerVars
<1>5. ASSUME NEW g \in Goroutines, NEW h \in 0..(MaxHeight - 1), CommitBlock(g, h)
      PROVE  Refines
  <2>1. PICK b \in RemoteBlocks(h) : SaveBlock(b)
    BY <1>5, Zenon DEF CommitBlock
  <2>2. h \in DOMAIN blocks \cup {0} /\ UNCHANGED snapshot
    BY Zenon, <1>5 DEF CommitBlock, chainVars
  <2>3. b.height = h + 1
    BY Zenon, <2>2, RemoteBlockFields DEF IInv
  <2>4. b.height \in 1..MaxHeight /\ b.height - 1 \in DOMAIN blocks \cup {0}
    BY SMTT(30), <2>2, <2>3, ChainAssumptions
  <2> QED
    BY Zenon, <1>2, <2>1, <2>2, <2>4, SaveExtends
<1>6. ASSUME NEW g \in Goroutines, SaveApplied(g) PROVE Refines
  <2>1. UNCHANGED snapshot
    BY Zenon, <1>6 DEF SaveApplied, chainVars
  <2>2. CASE UNCHANGED blocks
    BY Zenon, <1>1, <2>1, <2>2
  <2>3. CASE SaveBlock(block[g])
    <3>1. /\ block[g].height \in 1..MaxHeight
          /\ block[g].height - 1 \in DOMAIN blocks \cup {0}
      BY Zenon, <1>6, CurrentState DEF SaveApplied, CallInv
    <3> QED
      BY Zenon, <1>2, <2>1, <2>3, <3>1, SaveExtends
  <2> QED
    BY Zenon, <1>6, <2>2, <2>3 DEF SaveApplied
<1> HIDE DEF Refines
<1>7. ASSUME NEW p \in Procs,
             \/ NewChain(p) \/ TakePending(p) \/ SaveSnapshot(p)
             \/ \E h \in 1..MaxHeight : HearHeight(p, h)
      PROVE  Refines
  BY Zenon, <1>1, <1>7
  DEF NewChain, TakePending, SaveSnapshot, HearHeight, storeVars, chainVars
<1>8. ASSUME NEW g \in Goroutines,
             TakeState(g) \/ RecoverLoad(g) \/ Continue(g) \/ StoreError(g)
      PROVE  Refines
  BY Zenon, <1>1, <1>4, <1>6, <1>8
  DEF Continue, TakeState, RecoverLoad, ReadState, Generate, ReadApplied,
      CheckFrequency, QueueSnapshot, MarkQueued, FinalizeHeight, RecoverMark,
      RecoverHeight, ReplayBlock, ReplayDone, StoreError, storeVars, chainVars
<1>9. ASSUME NEW w \in Waiters,
             \/ \E h \in 1..MaxHeight :
                  BlockWaiter(w, h) \/ BlockSoonWaiter(w, h)
             \/ TestHeight(w) \/ ReceiveDone(w) \/ ContextDone(w)
      PROVE  Refines
  BY Zenon, <1>1, <1>9
  DEF BlockWaiter, BlockSoonWaiter, TestHeight, ReceiveDone, ContextDone,
      storeVars, chainVars
<1>10. CASE UNCHANGED vars
  BY Zenon, <1>1, <1>10 DEF vars, storeVars, chainVars
<1> QED
  BY Zenon, <1>3, <1>5, <1>7, <1>8, <1>9, <1>10 DEF Next

\* Every behaviour of the Chain, whatever its goroutines interleave and
\* wherever its processes crash, is a behaviour of one growing log with
\* replicas that have applied a prefix of it (SaveBlock, setState, Recover).
THEOREM Refinement == Spec => ImplementsLedger
<1>1. Init => L!LedgerInit
  BY DEF Init, L!LedgerInit, storedIDs, appliedIDs, Empty
<1> QED
  BY <1>1, StepRefines, InductiveInvariant, PTL
  DEF Spec, ImplementsLedger, L!LedgerSpec

-----------------------------------------------------------------------------
\* The blocks have the heights up to that of the store.
LEMMA StoreHeightDomain ==
  ASSUME IInv
  PROVE  /\ DOMAIN blocks = 1..StoreHeight
         /\ StoreHeight \in DOMAIN blocks \cup {0}
<1>1. PICK n \in 0..MaxHeight : DOMAIN blocks = 1..n
  BY Zenon DEF IInv, StoreInv
<1>2. n \in Nat
  BY ChainAssumptions
<1>3. StoreHeight = n
  BY Zenon, <1>1, <1>2, StoreHeightOf
<1> QED
  BY SMTT(30), <1>1, <1>2, <1>3

\* In every state, if signers sign only blocks whose roots they computed,
\* every stored block replays and every snapshot is exactly the state of
\* its height.
THEOREM ReplayInvariant ==
  ASSUME RootsChecked
  PROVE  Spec => []ReplayInv
<1>1. IInv /\ IInv' /\ ReplayInv /\ [Next]_vars => ReplayInv'
  BY Zenon, GeneratorReplays, StoreHeightDomain, NextReplays
<1> QED
  BY <1>1, InitReplays, InductiveInvariant, PTL DEF Spec

\* What SaveBlock stores can be replayed: the stored blocks are a chain
\* without gaps, each valid after the one before it, and applying it gives
\* both roots in its header.
THEOREM BlocksReplay ==
  ASSUME RootsChecked
  PROVE  Spec => []StoredBlocksReplay
<1>1. IInv /\ ReplayInv => StoredBlocksReplay
  BY StoreHeightDomain, ReplayInvBlocks
<1> QED
  BY <1>1, InductiveInvariant, ReplayInvariant, PTL

\* The nonces of every snapshot that is current, queued, being saved or
\* saved are those that the block of its height commits to, although Recover
\* does not compare them.
THEOREM NoncesMatch ==
  ASSUME RootsChecked
  PROVE  Spec => []NoncesMatchBlocks
<1>1. ReplayInv => NoncesMatchBlocks
  BY SMTT(30) DEF ReplayInv, Exact, NoncesMatchBlocks
<1> QED
  BY <1>1, ReplayInvariant, PTL

\* Recover never fails to replay a block: the blocks it needs are there and
\* apply, whatever snapshot it started from.
THEOREM RecoveryReplays ==
  ASSUME RootsChecked
  PROVE  Spec => []RecoverReplays
<1>1. IInv /\ ReplayInv => RecoverReplays
  BY Zenon, ReplayInvRecover
<1> QED
  BY <1>1, InductiveInvariant, ReplayInvariant, PTL

\* No transaction is in the chain twice, if transactions are anchored: a
\* contract that was spent does not come back, and a nonce is forgotten only
\* when the time range that goes with it has passed (ApplyTx, PruneNonces,
\* CheckTransactionTime).
THEOREM AppliedOnce ==
  ASSUME RootsChecked, Anchored(Pool)
  PROVE  Spec => []TxAppliedOnce
<1>1. IsPool(Pool)
  BY Zenon, BatchAssumptions DEF IsPool, Pool
<1>2. ASSUME IInv, ReplayInv PROVE TxAppliedOnce
  <2>1. PICK n \in Nat : DOMAIN blocks = 1..n
    BY SMTT(30), <1>2, ChainAssumptions DEF IInv, StoreInv
  <2>2. \A h \in 1..n : /\ blocks[h].height = h /\ blocks[h].timestampMS \in Nat
                        /\ IsState(StateAt(blocks, h))
    BY Zenon, <1>2, <2>1, StateFields DEF IInv, StoreInv
  <2>3. \A h \in 1..n :
          /\ Replays(StateAt(blocks, h - 1), blocks[h], StateAt(blocks, h))
          /\ RightTxs(Pool, blocks[h])
    BY Zenon, <1>2, <2>1 DEF ReplayInv, StoreReplays
  <2>4. ChainReplays(Pool, n, blocks)
    BY SMTT(30), <2>1, <2>2, <2>3 DEF ChainReplays
  <2>5. NoneTwice(blocks)
    BY <1>1, <2>4, ChainOnce
  <2> QED
    BY Zenon, <2>5 DEF NoneTwice, TxAppliedOnce
<1> QED
  BY <1>2, InductiveInvariant, ReplayInvariant, PTL
=============================================================================
