# A TLA+ model of the Chain Protocol node

This directory holds a verification development of the Go code under `src/`:
TLA+ modules for its parts, TLC configurations that check them on small
instances, and TLAPS proofs that hold for every value of the constants.
`PROJECT.json` lists the runs, the theorems, the source lines of every
definition, and the hazards the properties are aimed at.

## 1. The system

### 1.1 Parts and how they interact

```
 generator ── State, GenerateBlock, CommitAppliedBlock ─┐
 network ──── CommitBlock ──────────────────────────────┤
 start-up ─── Recover ──────────────────────────────────┤
                                                        v
  waiters <── condition variable ── Chain ──────────> Store <── other processes
                                     │  ^                │      with a Chain each
                   pendingSnapshots ─┘  └── heights ─────┘

 Chain ─> state.Snapshot ─> patricia.Tree       validation ─> bc.Block, merkle
 bc.Tx ─> txvm.VM (program -> log)              standard ─> asm, txvm programs
```

| Part | Source | State | Operations that change it |
|---|---|---|---|
| Chain | `protocol/*.go` | height, snapshot, lastQueuedSnapshotMS, pendingSnapshots | NewChain, CommitBlock, CommitAppliedBlock, GenerateBlock, Recover, setState, setHeight, BlockWaiter, BlockSoonWaiter, the heights and the saver goroutine |
| Store | `protocol/prottest/memstore` | blocks by height, latest snapshot | SaveBlock, SaveSnapshot, FinalizeHeight |
| Snapshot | `protocol/state/snapshot.go` | contracts tree, nonce tree, header, initial block ID, RefIDs | PruneNonces, ApplyBlockHeader, ApplyTx, ApplyBlock |
| Validation | `protocol/validation` | none | Block, BlockOnly, BlockPrev, BlockSig |
| Snapshot encoding | `protocol/state/serialize.go` | none | Bytes, FromBytes |
| TXVM | `protocol/txvm` | stacks, contracts, log, runlimit, call frames | one per instruction |
| Blocks, transactions | `protocol/bc` | none | NewTx (runs the VM), hashes, encodings |
| Trees | `protocol/patricia`, `protocol/merkle` | tree nodes | Insert, Delete, RootHash; Root |
| Checked arithmetic | `math/checked` | none | add, sub, mul, div, mod, negate, shifts |
| Standard contracts | `standard`, `standard/txresult` | none | multisig output, input, issue, retire; log parsing |
| Log rotation | `log/rotation` | base file, rotated files, partial line | Write |
| Assembler, builder | `protocol/txvm/asm`, `op`, `txvmutil` | none | assemble, disassemble, build |
| Signatures | `crypto/ed25519` with `ecmath`, `chainkd`, `internal/edwards25519` | none | key pairs, Sign, Verify, key derivation; field, group and scalar arithmetic |
| Hashes | `crypto/sha3`, `crypto/sha3pool` | sponge: lanes, buffer, mode | Write, Read, Sum, Reset, Clone; the permutation; the pool |
| Errors, logging | `errors`, `log` | error values; writer, prefixes | Wrap, WithDetail, WithData, Sub; SetOutput, SetPrefix, AddPrefixkv, Printkv |
| Tools, JSON, generated code | `cmd`, `encoding`, `*.pb.go` | none | - |

### 1.2 What is hard about it

- Several goroutines commit to one Chain, and several processes to one Store.
  Between a goroutine's Store call, its read of the state and its write of the
  state the others may do anything. `lastQueuedSnapshotMS` and, in
  `GenerateBlock`, `c.state.snapshot` are accessed without the lock.
- A process may stop between any two steps and must rebuild its state from the
  last snapshot some saver goroutine stored and the blocks above it.
- Heights arrive over a channel that promises nothing; waiters sleep on a
  condition variable that two different functions signal.
- A transaction is kept from being applied twice by two mechanisms that must
  meet exactly: the recorded nonce until it expires, the time range afterwards.
- A Store call may fail, also after it has taken effect.
- A TXVM program is anybody's. Values move between the stacks of contracts that
  call, yield to, wrap and spend each other, and nothing but the guards of the
  instructions keeps one from being copied or lost.
- The packages below are long straight-line programs and small loops (limb
  arithmetic, the unrolled permutation, jump resolution, tree surgery) that go
  wrong for few inputs, and slices that share arrays.

`PROJECT.json` lists the hazards line by line with the properties aimed at
them.

### 1.3 What correctness means here

1. The store is a chain: no gaps, every block valid after its predecessor,
   every block replayable, nothing ever replaced.
2. Whatever a process believes (state, height, queued and saved snapshots) is
   what the stored blocks say, and never ahead of them.
3. Time does not run backwards within a process.
4. Recovery always works and reaches the height of the store.
5. Nobody who waits is forgotten, and nobody is told too early.
6. No transaction is in the chain twice.
7. A program can neither make nor lose value except by what its log says, and
   its ID is that of its whole log; the `bc.Tx` made of it says what the log
   says.
8. The functions all this rests on compute what they are taken to compute:
   trees are sets, roots bind, encodings can be read back, arithmetic is exact,
   signatures verify.

## 2. Modules

| Module | Models | Kind |
|---|---|---|
| `Snapshot` | `state/snapshot.go` | operators on snapshot records |
| `Validation` | `validation.go` without BlockSig | operators |
| `Generator` | the pure part of GenerateBlock in `block.go`, `NewInitialBlock` | operators |
| `Replay` | - | what it means that a block replays |
| `Chain` | `protocol.go`, `block.go`, `recover.go`, `tx.go`, `memstore.go` | state machine, properties |
| `Ledger` | - | what package `protocol` promises: one growing log, replicas with a prefix of it |
| `ChainLedger` | - | the refinement mapping from `Chain` to `Ledger` |
| `MCChain` | - | values for the constants of `Chain` |
| `ChainInvariant` | - | the inductive invariants of `Chain`, the lemmas about their parts, one lemma per action |
| `SnapshotProofs` | - | what the loops over transactions and GenerateBlock compute, for every input |
| `ChainProofs` | - | the theorems about `Chain`; that it implements `Ledger` |
| `TxVM` | `txvm` (`vm.go`, `stack.go`, `contract.go`, `values.go`, `entries.go`, `log.go`, `tx.go`, ...) | state machine, properties |
| `TxVMAccounts` | - | the properties of `TxVM` about what nested stacks hold |
| `TxRecord` | `bc/tx.go` (NewTx and its hooks) | state machine on top of `TxVM` |
| `MCTxVM`, `MCTxRecord` | - | values for the constants of `TxVM` and `TxRecord` |
| `TxVMProofs` | - | the theorems about `TxVM` |
| `RecordProofs` | - | the theorems about `TxRecord` |
| `TotalProofs` | - | lemmas about the sums of `TxVMAccounts`, over nested stacks |
| `AccountProofs` | - | the theorems about `TxVMAccounts` |

The modules of functions share the variable of `Calls`: a caller makes one call
after another, and a call that has a loop takes a step per turn, so that the
properties see what is half done.

| Module | Models | Properties |
|---|---|---|
| `Scalars` | `ScMulAdd`, `ScReduce`, `ecmath/scalar.go` | `MulAddKeepsValue`, `ReduceReduces`, `ScalarOps` |
| `FieldElement` | the field part of `edwards25519.go` | `FeValue`, `FePostconditions`, `BytesCanonical`, `PowersRight` |
| `Edwards` | the group part of `edwards25519.go`, `ecmath/point.go` | `GroupLaw`, `Encodings`, `DoubleMultRight`, `BaseMultRight`, `LimbsFit` |
| `Signatures` | `ed25519.go`, `chainkd.go` | `SignaturesVerify`, `DerivationCommutes` |
| `Keccak` | `keccakf.go` | `KeccakRight` |
| `Sponge` | `sha3.go`, `shake.go`, `cshake.go`, `kmac.go`, `tuple_hash.go`, `hashes.go`, `sha3pool` | `SpongeFaithful`, `SumIsDigest`, `InputsSeparated`, `ReadsContinue` |
| `Patricia` | `patricia.go`, `state/serialize.go` | `TreeIsSet`, `RootIsCanonical`, `RestoreKeepsState` |
| `Merkle` | `merkle.go` | `RootBinds`, `RootBalanced` |
| `Checked`, `CheckedProofs` | `checked.go` | `CheckedExact` |
| `LogRotation` | `log/rotation/file.go` | `LogOrdered`, `BufferBounded` |
| `Bytecode` | `op.go`, the encoders of `item.go` and `asm.go`, `txvmutil/builder.go` | `EncodeProduces` (in `Programs`) |
| `DataMachine` | the instructions on plain data: `math.go`, `boolean.go`, `bitwise.go`, `strings.go`, `data.go`, `stack.go`, `control.go`, `crypto.go` | `InstructionLaws`, `MacrosMean` (in `Programs`) |
| `Assembler` | `asm.go` | `JumpsLand`, `JumpsOnlyGrow`, `DisassemblyAssembles` |
| `Programs` | `standard/checksig.go`; assembled programs on `DataMachine` | `MultisigExact` |
| `Scanner` | `scanner.go` | `TokensCover`, `StringsEnd` |
| `BlockFormat` | `bc/hash.go`, `bc/block.go`, `bc/blockheader.go` | `HashesKeepBytes`, `HeaderHashBinds`, `BlockSurvives` |
| `BlockChecks` | `BlockSig` and the run limits of `validation.go`; `protocol/tx.go` and `PruneNonces` with the width of their integers | `SignaturesExact`, `RunlimitCovers`, `NonceTakenOnce`, `NoncesKeptForWindow` |
| `Results` | `standard/txresult/result.go` and the logs of the standard contracts | `ResultsOwn` |
| `Logging` | `errors/errors.go`, `log/log.go`, and the Go slices that both share arrays in | `ErrorsKeep`, `EntriesWhole`, `PrefixesKept`, `PairsReadable` |
| `Calls`, `BitStrings` | - | the call machine; byte strings as sets of bits |
| `MCCrypto`, `MCData`, `MCBlocks`, `MCPackages` | - | values for the constants of these |

### 2.1 How state and actions correspond to the code

Variables of `Chain`, in the order of the code: the Store (`blocks`, `stored`,
`finalized`), the Chain object of each process (`up`, `height`, `snapshot`,
`lastQueued`, `pending`), its saver goroutine (`saving`), each goroutine that is
inside a call (`pc`, `block`, `work`, `goal`) and each waiter (`waiting`).

A step of a goroutine is the code between two accesses to shared state.

| Code | Steps |
|---|---|
| `CommitBlock` | `CommitBlock` (SaveBlock), `ReadState` (State, ApplyBlock, compare roots), then as `finalizeCommitState` |
| generator | `TakeState` (State), `Generate` (GenerateBlock), then as `CommitAppliedBlock` |
| `CommitAppliedBlock` | `SaveApplied`, `ReadApplied`, then as `finalizeCommitState` |
| `finalizeCommitState` | `CheckFrequency`, `QueueSnapshot`, `MarkQueued`, `InstallState` (setState), `FinalizeHeight` |
| `Recover` | `RecoverLoad`, `RecoverMark`, `RecoverHeight`, `ReplayBlock` per block, `ReplayDone`, then as `CommitAppliedBlock` |
| `NewChain`'s goroutines | `HearHeight` (setHeight); `TakePending`, `SaveSnapshot` |
| `BlockWaiter`, `BlockSoonWaiter` | the start, `TestHeight` (one turn of the loop), `ReceiveDone`, `ContextDone` |
| any failing Store call | `StoreError` (and the failing outcomes of `SaveApplied`, `SaveSnapshot`, `FinalizeHeight`) |
| end of a process | `Crash` |

Variables of `TxVM`: the fields of `VM` (`version`, `runlimit`, `argstack`,
`unwinding`, `log`, `finalized`, `txid`), and `calls`, the Go call stack: a frame
per `opCall` in progress, with the contract, its caller and the number of
`opExec`s it is inside of. `status` says where `Validate` is.

| Code | Steps |
|---|---|
| `Validate`, `validate` up to `exec` | `Validate` |
| `step` with one instruction | the action named after it: `opNonce`, `opIssue`, `opSplit`, `opMerge`, `opRetire`, `opDrop`, `opRoll`, `opBury`, `opReverse`, `opGet`, `opPut`, `opContract`, `opExec`, `opInput`, `opOutput`, `opYield`, `opWrap`, `opLog`, `opTimeRange`, `opFinalize` |
| `step` with an instruction on data | `DataInstruction` |
| `opCall` | `opCall` up to the first step of the callee, `Return` for the rest |
| the end of a program, and of `exec`'s loop | `Return`: back in `opExec`, in `opCall` or in `validate` |
| any `panic`, `recoverError` | `Panic` |

`TxRecord` adds `tx`, the fields of `bc.Tx` that the hooks fill in, and refines
the steps: `HookedStep` is `output` or `input` with `stackHook` before it, or
`finalize` with `entryHook` in it; `HookedPanic` is an instruction that panics
after `stackHook` has recorded something; `PlainStep` is any other.

The modules of functions have the code's functions as operators, under the
code's names. What the code computes in one expression is one; what it computes
in a loop or in a long straight line is a `Begin` with the list of what remains
to be done, and a `Step` that takes one element of the list. `FromBytesTx` is the
goroutine that parses one transaction of a block, in any order; `PrintStep` the
goroutine that writes one part of a log entry; `HashWrite`, `HashRead`, `HashSum`,
`HashClone` and `Put256` the calls on one hash object over its lives in the pool;
`TreeInsert`, `TreeDelete`, `TreeContains`, `TreeRootHash` and `TreeRestore` those
on one tree; `LogWrite` one `Write` with every outcome of the file operations it
makes.

Operators whose comment begins with "Fault" are deliberate errors. No specification uses them; each shows that a
property fails when the code is changed that way.

### 2.2 Abstractions

- Hashes have no collisions. A block's ID is an injective constructor around
  the block; a tree and its root hash are the set of items. A header and its
  block are one record, since the header's transactions root fixes the rest.
- A transaction is the record of what its log says: nonces, time ranges,
  contracts consumed and created, version and runlimit.
- The Store is the reference one, `memstore`, with atomic calls. `finalized`
  stands for the heights channel of every process: any announced height may be
  heard any number of times, at any time, or never.
- `CommitBlock` is handed only blocks that its caller has validated against
  the Chain's state (`protocol.go:41-44`), so a block is at most one above it.
  The blocks come from generators that work on the state of the block before;
  with `RootsChecked = FALSE` also blocks whose contracts root nobody compared.
- `MaxRunlimit` stands for the largest int64, where `checked.AddInt64` fails.
- `BlockSoonWaiter`'s first read of the height and the start of the inner
  waiter are one step; the inner waiter tests the height again. `RecoverLoad`
  reads the snapshot and its block in one step; stored blocks do not change.
- Variables of a call are reset when it returns.
- Left out: `NextPredicate` and signatures, log output, error wrapping.

In `TxVM`:

- The program is arbitrary: the next instruction is any, and a program may end
  anywhere, so the behaviours of the model contain those of every program.
- Integers, byte strings and tuples are left out of the stacks. A program can
  make, copy and drop them at will; what an instruction pops as data is a
  parameter of its action, from a small set. The instructions that pop and push
  only data are the one action `DataInstruction`.
- Hashes are ideal. The Merkle root of the log, which is the transaction's ID,
  is the log.
- `EntryCost` is the cost of a value or contract (128) and `DataCost` that of
  a log item or byte string (1 plus its length). Where costs do not matter
  to a property they are 0, and `Runlimit` is the number of instructions.
- The contracts that `input` finds are those of `Snapshots`. Whether they exist
  is not the VM's concern but that of `ApplyTx`.
- Left out: tracing, the extension instruction's flag (which is in
  `DataMachine`).

In the modules of functions, sizes are scaled down where only the shape matters.
The constants say what each is in the code.

- `Scalars`: limbs of 8 bits instead of 21 and a modulus of the same form,
  `2^96` minus a number of six limbs with the code's signs; the schedule of folds
  and carries is the code's. Values are compared modulo a factor of the modulus that TLC's integers can hold, together
  with the exact comparison `Less` on bit sets where the result must be reduced.
- `FieldElement`: limbs of 10 and 11 bits instead of 25 and 26, `2^105 - 3` for
  `2^255 - 19`. The stand-in is not a prime, which none of these properties needs.
- `Edwards`: the curve with the same equation over the field of 109 elements,
  base point of order 13, scalars of 16 bits. A field element is its value, a
  bound on its limbs in hundredths of the documented unit, and the functions
  that were handed more than their comments allow on the way to it (`over`);
  `FieldElement` shows what the bounds are good for. The tables `bi` and `base` of
  `const.go` are taken to be the multiples that their comments say; their 1400
  lines of digits are not translated.
- `Signatures`: SHA-512 is a constant operator; the instance mixes its fields.
- `Keccak` is at full size. `Sponge` has an ideal permutation (its state is the
  sequence of what was absorbed), a storage of 3 bytes and rates of 2 and 3.
- `Patricia`, `Merkle`: hashes are free constructors; bytes have 2 bits.
  `math.Log2` is exact at these lengths.
- `Checked`, `Bytecode`, `DataMachine`, `Assembler`, `BlockChecks`: the integer types
  are 7 and 5 bits wide, with the code's wrap-around; small integers are 0..15,
  varints have 6 bits a byte. The opcodes that only `TxVM` has are left out, so
  `MinPushdata` is a smaller number.
- `Scanner`: characters that it does not tell apart are one character.
- `BlockFormat`: the bytes of a protobuf message are the message. Hashes have two
  words of two bytes. What `NewTx` makes of a transaction (good, not finalized, an
  error, or a panic, see `TxRecord`) is a constant.
- `Results`: a log entry is its code, seed and data; a contract is one of the
  standard ones, or another that logs as it likes.
- `Logging`: slices have an array, a length and a capacity, and `append`
  writes in place when there is room; how much room a new array has is any of
  `Extras`. An error carries, beside what the code keeps, what the comments
  promise of it (`says`) and what a `Sub` left in it besides (`left`).

## 3. Runs

Constants: `MaxHeight` bounds the chain, `MaxCrashes` the crashes, `Delays` the
timestamps, `Batches` the transactions offered to a generator.

| Run | Instance | Checks |
|---|---|---|
| `two_procs` | 2 processes with a goroutine each, failing Store | `SnapshotsMatchBlocks`, `HeightsAreStored`, `StoreAppendOnly` |
| `race` | 1 process, 2 goroutines, height 2, transactions, failing Store, two crashes at any point | `TypeOK`, `SnapshotsMatchBlocks`, `StoredBlocksReplay`, `HeightsAreStored`, `ChainNeverGoesBack`, `ImplementsLedger` |
| `live` | fair, with a crash and a waiter | `SavedBlockBecomesState`, `RecoverReachesStore`, `WaiterWakes` |
| `follower` | fair; waiters in a process that only hears heights | `NoLostWakeup`, `WaiterSeesBlock`, `WaiterWakes` |
| `txs` | 1 goroutine, 4 blocks, transactions with nonces, time ranges, contracts, snapshots saved now and then, a crash at any point | `TxAppliedOnce`, `StoredBlocksReplay`, `NoncesMatchBlocks`, `RecoverReplays` |

All hold. Why the bounds are enough: the races are between two goroutines over
one block or two neighbouring ones, so two goroutines and the heights 0 to 2
contain a commit that is overtaken, a duplicate, and a state two blocks behind.
`ImplementsLedger` is the specification of `Ledger` under the mapping of
`ChainLedger`: the stored block IDs are the log, and a replica has applied the
IDs its snapshot has collected, so a state that were a mixture of two would be
no prefix of the log. A stale
snapshot saved over a newer one needs two blocks and a slow saver. A nonce that
is recorded, expires, is pruned and offered again needs three blocks after the
initial one, which `txs` has; a crash there recovers over blocks that prune. Symmetry is used where goroutines (`race`) or whole processes with their
goroutines (`two_procs`) are alike, never with a liveness property.

The runs of `TxVM` start one execution and let it take any instructions.
`Instructions` and `MaxLog` bound which ones and how much they log, by the
version of the transaction: all instructions together are too many for long
programs, and the version is only a number to the machine.

| Run | Instance | Checks |
|---|---|---|
| `vm_programs` | 11 instructions, free of extra cost, of one of four kinds: on values; moving a value from a spent contract to another; nesting contracts; spending and making contracts and finalizing; run by `NewTx`, also with a version that `Validate` refuses | `Conserved`, `LogBalances`, `AnchorsUnique`, `TxIDIsLog`, `OutputsPortable`, `CallersAreRight`, `RecordMatchesLog`, `LogFrozen` |
| `vm_all` | every instruction, costs 1, run limit 8, StopAfterFinalize, refused versions and lengths; fair | `TypeOK`, `Terminates` |

All hold. `Conserved` says at every step, for each asset: what is on all the
stacks, inside contracts on them too, plus what was retired or output, is what
was issued or input. `LogBalances` says it of the log alone when an execution
succeeds. `AnchorsUnique` says that no two values have the same anchor, so no
value was copied. `RecordMatchesLog` says that once a program is finalized each
input and output of the `Tx` has the ID and place of its own log item, whose
preimage is what was recorded before the instruction ran.

Eleven instructions are enough for a nonce, an issuance, a split, a merge, a
retirement, another nonce and finalize, for a sum that overflows
(`MaxInt` is 2), for an input that is called and gives its value away, which is
split, merged again, put into a new contract and output, and for two levels of
calls with a yield or wrap in the inner one and a second call of what was
wrapped.

The sums of `TxVMAccounts` look `MaxNesting` levels deep. A contract can be nested
once more with every instruction, so the run limit plus the depth of the
contracts to spend is enough, and the instances have that (12 for 11
instructions and one level; `MCTxVM` states it as an assumption that TLC
evaluates).

An execution ends, so deadlock is not checked in these runs.

The run `packages` calls the modules of functions, one call at a time, with
every input of the sets in `MCCrypto`, `MCData` and `MCBlocks`, and checks their
properties (the table in 2) after each step. The invariants of the run group
them by subject:

| Invariant | Conjunction of the properties of |
|---|---|
| `ArithmeticExact` | `Scalars`, `FieldElement` |
| `GroupExact` | `Edwards` |
| `KeysAgree` | `Signatures` |
| `HashesRight` | `Keccak`, `Sponge` |
| `TreesRight` | `Patricia`, `Merkle` |
| `CheckedExact` | `Checked` |
| `AssemblyRight` | `Scanner`, `Assembler` |
| `ProgramsRun` | `Bytecode`, `DataMachine`, `Programs` |
| `BlocksExact` | `BlockFormat`, `BlockChecks` |
| `ResultsOwn` | `Results` |
| `LoggingRight` | `Logging`, `LogRotation` |

All hold. The inputs are chosen for
the edges: limbs at their bounds with all signs, strings equal and next to the
modulus and its multiples; all points of the curve against the identity, equal,
opposite and low-order ones; every cutting of a message into writes and of the
output into reads around the rate; keys that share every length of prefix; lists
around the powers of two; operands around both ends of each integer type; jumps
around the distances where their encoding grows; log files that fail at any
operation; every interleaving of the goroutines that parse a block or write log
entries. Some properties say of a case that the code does something else than a
comment promises, and some leave a case out; 5.2 lists both.

Four runs refute a sentence of the documentation; each is a finding in
`PROJECT.json`.

| Run | What it shows |
|---|---|
| `generate_race` | `GenerateBlock` mixes the header of its argument with the trees of the current state, so with two goroutines its block may not be valid. The invalid block is not harmful to the store: its height is taken, so `SaveBlock` refuses it (`StoredBlocksReplay` holds in `race`). |
| `bad_root` | `CommitBlock` saves before it compares the roots; a block that only the roots comparison would refuse stays in the store and blocks recovery. |
| `refids` | `RefIDs` is never trimmed to the header's refs count. |
| `zero_exp` | With expiration time 0 the nonce is pruned at the next block while its time range never ends. |

### 3.1 Fairness

`FairSpec` asks for weak fairness of each goroutine inside a call, of each
saver goroutine and of each waiter's loop. The Go scheduler runs every
goroutine that can run, none of these steps can be disabled by others for good,
and the mutex sections are single steps. Nothing is asked of callers (nobody
must commit, recover or wait), of crashes, of the heights channel, or of
`NewChain`. Fair runs have `StoreFails = FALSE`: with a Store that may fail
for ever nothing is promised.

`TxVM`'s `FairSpec` asks for weak fairness of the next-state relation: `exec` is
a plain loop in one goroutine.

Deadlock is checked in every run of `Chain` and in `packages`, where a call that
has ended can always return. A Chain never runs out of steps, since a
process can always start or call Recover again.

## 4. Proofs

`ChainProofs` proves, for every number of processes, goroutines, waiters,
blocks and crashes, every set of transactions, with and without Store failures,
and whether or not signers compare roots:

| Theorem | Statement |
|---|---|
| `InductiveInvariant` | `Spec => []IInv` |
| `TypeCorrect` | `Spec => []TypeOK` |
| `SnapshotsMatch` | `Spec => []SnapshotsMatchBlocks` |
| `HeightsStored` | `Spec => []HeightsAreStored` |
| `WakeupsNotLost` | `Spec => []NoLostWakeup` |
| `WaitersSeeBlocks` | `Spec => []WaiterSeesBlock` |
| `AppendOnly` | `Spec => StoreAppendOnly` |
| `NeverGoesBack` | `Spec => ChainNeverGoesBack` |
| `Refinement` | `Spec => ImplementsLedger` |

The assumptions are `ChainAssumptions` (types of the constants; delays are
positive, since GenerateBlock refuses a timestamp that is not later),
`BatchAssumptions` (pending transactions are records of a `bc.Tx`, of version 3:
`BlockOnly` asks that the version of a transaction in a block of version 3
be that) and `GeneratorAssumption` (the window is a natural number).

Under the hypothesis `RootsChecked`, that signers sign only blocks whose roots
they computed, it proves as well:

| Theorem | Statement |
|---|---|
| `ReplayInvariant` | `Spec => []ReplayInv` |
| `BlocksReplay` | `Spec => []StoredBlocksReplay` |
| `NoncesMatch` | `Spec => []NoncesMatchBlocks` |
| `RecoveryReplays` | `Spec => []RecoverReplays` |
| `AppliedOnce` | `Spec => []TxAppliedOnce`, if also `Anchored(Pool)` |

The hypothesis is needed: the run `bad_root` shows what happens without.
`Anchored(Pool)` says that each transaction has a nonce with a time range that
has passed when the nonce is forgotten, or spends a contract it does not make,
and that transactions that make the same contract have the same anchor. The
VM sees to it, since `finalize` uses up an anchor and every anchor comes from a
nonce or an input (`opNonce` logs the time range with the nonce), with one
exception: expiration time 0, which the run `zero_exp` shows. `MCChain` assumes,
and TLC evaluates, that its transactions are anchored in every instance but that
one.

The argument. None of the properties is inductive: what `InstallState` installs
is a snapshot computed many steps earlier, by code whose assumptions may no
longer hold. `IInv` therefore says, for each place in each call, what its
variables mean:

- `StoreInv`: the blocks have the heights 1..n, each in its place.
- `Good(bl, s)`: `s` is the state that the blocks `bl` commit to at its height.
- `ProcInv`: the state, the queued and the saved snapshots of a process are
  Good, state <= height <= store.
- `CallInv`: a call that has saved a block has it in the store; one that is
  about to install a snapshot holds a Good one; one that has generated a block
  holds a snapshot that would be Good once the block is saved (`Put`). If
  another goroutine has moved the state since `TakeState`, the height of the
  generated block is taken and `SaveBlock` will refuse it. This is the case
  that makes the generator's race harmless.
- `WaitInv`: a parked waiter waits for more than the height, one that is done
  for no more.

A step of one goroutine changes the store or the Chain under the others. The
`...Mono` lemmas say that `Good`, `ProcInv` and `CallInv` survive a store that
grows and a Chain that moves forward; `CallStep` and `LocalStep` use them so that
each action's lemma treats only its own goroutine. There is one lemma per
action, and `NextInv` combines them. `Refinement` rests on the same invariant (a Good
snapshot has collected exactly the stored IDs up to its height) and has one
lemma per kind of step: `SaveBlock` extends the log, `InstallState` and a crash
move a replica, all others leave log and replicas alone.

`ReplayInv` sharpens `Good`: every snapshot is exactly `StateAt` its height, nonces
included, and every stored block replays. What a goroutine is about to save
replays too, unless the Chain has passed its height. The step that makes new
blocks needs to know what GenerateBlock computes, for every state and every
sequence of pending transactions: theorem `GeneratorReplays` of `SnapshotProofs`. It
is an induction over data. The loops of the code are folds of one operator
`Turn`, whose parameter says which loop; `Run` is the recursive function for it.
`NatSetInduction` is induction over the natural numbers for a set instead of an
operator, proved from the library's theorem that `<` is well-founded, and with it
`PickLoop` says that what the loop of GenerateBlock has picked so far, the loop of
ApplyBlock accepts, with the same trees. One fact is not obvious: the two loops
see the state after different calls (GenerateBlock applies the header last), so
`ApplyTxSeesMore` says that more reference IDs refuse nothing.

`AppliedOnce` rests on the invariant `Applied` of a set of applied
transactions and the two trees: every contract was made by one of them, what was
spent is not there, and a nonce is recorded until it has expired. `ChainOnce` is
the induction over the height, over blocks that prune.

`TxVMProofs` proves, for every program, run limit, cost and set of operands:

| Theorem | Statement |
|---|---|
| `TypeCorrect` | `Spec => []TypeOK` |
| `IDSealsLog` | `Spec => []TxIDIsLog` |
| `CallersRight` | `Spec => []CallersAreRight` |
| `Frozen` | `Spec => LogFrozen` |

The assumption is `TxVMAssumptions`: costs and limits are natural numbers. The
invariant is the conjunction of the first three and that `calls` and `log` are
sequences. They need each other: a call is plain only because the current
contract is, which is only so when the machine is not unwinding, and the caller
that `opCall` records is the seed of a frame that later instructions rewrite
(`TopChanges`: none changes the seed). A step changes the current frame, adds one
(`CallAdds`) or removes one (`ReturnPops`), and adds nothing, a plain item, or
the finalize item to the log (`SealedAppends`); each instruction's lemma puts
two of these together.

`RecordProofs` proves `RecordRight`, `RecordSpec => []RecordMatchesLog`, and
`RecordRuns`, `RecordSpec => Spec`, by which all that is proved of `TxVM` holds of the
executions that `NewTx` makes. Before `finalize` the invariant is `Kept`: there is a
record for each entry of the code in the log, and the n-th has the contents that
the n-th entry's ID is the hash of. `entryHook` then pairs the n-th with the n-th
(`PairedMatches`), which needs that the loop's index grows by one with each entry of its
code and stands still otherwise (`IndexGrows`). With a version that `Validate`
refuses there is no record: `NewTx` panics (`NilMachine`), and the execution is a failed one.

`AccountProofs` proves, for every program, run limit, cost, and set of contracts to
spend:

| Theorem | Statement |
|---|---|
| `AccountsHold` | `Spec => []AccountInv` |
| `AmountsConserved` | `Spec => []Conserved` |
| `LogsBalance` | `Spec => []LogBalances` |
| `Portable` | `Spec => []OutputsPortable` |

The hypothesis is `Stored(R)`: there is a ranking `R` of items in which each
contract is above what it holds, amounts are integers, a wrapped contract
holds only what is portable, the contracts that `input` finds are ranked, and
the ranks leave room for `Runlimit` more below `MaxNesting`. A stored contract was
output by an earlier transaction, from which it has these properties
(`Portable` is one of them); the room is a matter of choosing the bound
`MaxNesting`, which is not in the code.

The argument. `Total` adds up a stack whose items hold stacks, so it is defined by
recursion on what an item holds, and that the recursion means anything has to be
proved: `AccountInv` says that there is a ranking of all items on the stacks and
in the log (`Placed`). The ranking grows as the program runs. An instruction that
makes a contract ranks it above everything so far, and uses up run limit, so
there is always room for one more rank (`Room`, `PlacedNew`). With a ranking, `TotalProofs` shows
by induction over the ranks that there is exactly one measure of items
(`MeasureExists`, `TotalIs`), hence that `Total` is additive over concatenation and
indifferent to `roll`, `bury` and `reverse` (`Totals`, `TotalRoll`, `TotalBury`, `TotalReverse`).
The second half of the invariant is `Balances`: for each asset, what the log says
came in less what went out is what is held. `Exchange` is the lemma for a step that
rewrites the current stack, the argument stack and the log; what the instruction's
own lemma has to show is that the three change by the same worth. `Leave` is for
the steps by which a contract stops being called, and `CallAccount` for the one by
which it starts. `LogsBalance` needs one more invariant: an execution that ended
well has left nothing on its stacks. `Portable` uses the ranking again,
restricted to the portable items: it is a ranking too, since wrapped contracts hold only such
ones.

`CheckedProofs` proves `CheckedIsExact`: `CheckedSpec => []CheckedExact`, for types of
any width. The assumption is `CheckedAssumption` (half the number of values of a
type is positive and divisible by the powers of two below it). Addition,
subtraction and negation are linear. For multiplication the lemmas say when a
quotient bounds a factor, in each of the four sign cases; for shifts, that
comparing with the shifted end of the range decides whether the product with the
power of two fits.

What stays with TLC. `SavedBlockBecomesState`, `RecoverReachesStore`, `WaiterWakes` and
`Terminates` are liveness properties. `AnchorsUnique` is not proved: it needs an
invariant over the anchors already used up, since a new anchor must differ from
those too, and an assumption on where the anchors of stored contracts come from. The
properties of `packages` other than `CheckedExact` are about recursive
definitions at a fixed small scale, and about what they compute for given inputs.

The provers' context decides how long a proof takes, so the modules are cut where
few facts pass: `TotalProofs` and `TxVMProofs` know nothing of each other, and
`RecordProofs`, which needs cardinalities, is apart from `AccountProofs`.

## 5. What is not modelled

### 5.1 Parts

- `protocol/bc/bc.pb.go`, `state/rawsnapshot.pb.go`, `encoding/json`: generated code and
  formatting.
- `cmd`: programs that read, call a function modelled here, and print.
- `testutil`, `prottest`, `bctest`, `txvmtest`: fixtures of the tests.
- `txvm/introspection.go` and the trace options, `log/stack.go`, `log/splunk`,
  `errors/stack.go`, `errors/writer.go`: they pass text on.
- The witness commitment of a transaction and `TxMerkleRoot`, which hash what they
  are given; the text forms of keys, points and scalars.
- The digits of the tables in `const.go`; the assembly and unaligned variants of
  the hash functions.
- `TxVM` and `DataMachine` are two halves of one machine and are not composed: data
  is arbitrary in the first, contracts stop the second. So the standard
  contracts run as programs only up to the signature check; `Results` has their
  logs.

### 5.2 Where the code does something else

Reading the code for the models showed cases in which a function does something
else than its name or its comment says. The models follow the code. In the cases
of the first table the property says what happens:

| Code | Case |
|---|---|
| `bc/tx.go:106` | `Validate` returns a nil VM with `ErrVersion` for a version below 3, and `NewTx` reads `vm.Finalized` of it. It panics instead of returning the error; in `Block.FromBytes` that happens in a goroutine without recover, so the process ends. `NilMachine`; `BlockSurvives` says when. |
| `edwards25519.go:352` | Every addition and doubling hands `FeMul` operands up to 1.65 * 2^26, where its comment asks for 1.1 * 2^26. `LimbsFit` says so, and that the accumulators still hold them. |
| `edwards25519.go:110` | `FromBytes` hands `FeIsNonZero`, and so `FeToBytes`, differences above its documented bound. `LimbsFit` says so; `BytesCanonical` holds for these limbs too. |
| `edwards25519.go:858` | `slide` may lose a carry for a scalar with the top bit set, and then stands for 2^256 less. `DoubleMultRight` says so; reduced scalars have the bit clear. |
| `kmac.go:58`, `tuple_hash.go:132` | The first `Read` counts the bytes of the encoded length, and so returns more than `len(out)`. `ReadsContinue` says so. |
| `patricia.go:91`, `:186` | `Contains` and `Delete` follow the nil child of a leaf and panic for an item that is longer than an element it starts with; the comments at lines 68 and 166 ask nothing of the item. `TreeIsSet` says that these are the only panics. The snapshot's items all have one length. |
| `item.go:84` | `Bytes.String` puts printable bytes between quotes without escapes, so a string with a quote or a backslash may not be read back. `DisassemblyAssembles` is about the other texts, and `BytesString` tells them apart with the scanner. |
| `scanner.go:128` | A comment at the end of a text without a new line is never left. `ScanForever`. |
| `errors.go:94` | Two errors made with `WithDetail` from one error with details can share the array of details, and the second then replaces the detail of the first. `ErrorsKeep` says which detail is replaced by which. |
| `errors.go:177` | `Sub` of an `err` that is not a wrapper keeps the details and data of `root`; the comment at line 167 takes all but the root from `err`. `ErrorsKeep` says so (`left`). |
| `log.go:237` | `formatValue` quotes a value with a delimiter only; the comment at line 233 adds quoter characters, and the one at line 36 promises that extraction is unambiguous. `PairsReadable` says that a value that starts with a quote and has no delimiter is never read back. |
| `serialize.go:36` | `RefIds` are not written. `RestoreKeepsState` says they are gone. |
| `asm.go:35` | The macro `sub` fails for the least integer, which has no negation. `MacrosMean` says it fails. |
| `bc/block.go:96` | `FromBytes` appends to the arguments the receiver had. `BlockSurvives` says so. |

These are left out of a property by a stated condition:

| Code | Case |
|---|---|
| `sha3.go:74` | A clone of an object that has been read from, at a rate below the size of storage, does not continue where the original is. `SpongeFaithful` excepts it. |
| `shake.go:30` | `Reset` of a cSHAKE, KMAC or TupleHash object loses its prefix; the pool holds none of these. |
| `asm.go:404` | `Disassemble` makes tuples of what it takes for pushed items; `dup 1 tuple 1 tuple`, a negative count and the least integer before `neg` do not assemble to the same program. `DisassemblyAssembles` is about programs whose tuples and integers were literals. |
| `result.go:147` | An input of another contract just before a payment, and a log item of another contract before finalize when there is no reference data, are taken for what they are not. `ResultsOwn` excepts them. |
| `bc/hash.go:64` | `UnmarshalText` overwrites the hash also when a digit is bad. `HashesKeepBytes` says nothing of the hash then. |
| `bc/tx.go:203` | A nonce with a negative expiration could be taken again at block times from 2^63 on. `NonceTakenOnce` is about earlier ones. |
| `validation.go:109` | With a negative run limit of the block the differences could wrap. `RunlimitCovers` is about others. |

### 5.3 Next

`AnchorsUnique` from an invariant over the anchors used up; the composition of `TxVM` with `DataMachine`;
a Store that keeps `Snapshot.Bytes`, with `RestoreKeepsState` as its interface; that a
`Tx` which `TxRecord` makes is `Anchored`, which would join the two halves of the model.
