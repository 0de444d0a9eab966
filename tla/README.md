# A TLA+ model of ubt-exex

`ubt-exex` is a reth execution extension (ExEx). It follows the chain of its node,
keeps the unified binary tree (UBT, EIP-7864) of the state in three stores on disk,
and exports that state for private information retrieval. This directory models how
the tree follows the chain through commits, reorgs, crashes and restarts, how a block
becomes leaves, how the MDBX calls are built from transactions, and what the export calls
read and write meanwhile.

Contents: [the system](#the-system), [what is hard](#what-is-hard),
[modules](#modules), [runs](#runs), [what the code does not keep](#what-the-code-does-not-keep),
[assumptions](#assumptions), [proofs](#proofs), [not modelled](#not-modelled), [plan](#plan).

Run a check with `tlc -config follow.cfg MCUbtExEx.tla`. The configurations `export_calm`,
`export_crash` and `export_mislabeled` belong to `MCStateExport.tla`, `export_files` to
`MCExportFiles.tla`, `block_pipeline` and `code_size` to `MCStateExtraction.tla`, `mdbx_txn` to
`MCMdbxTxn.tla`, the others to `MCUbtExEx.tla`. Run the proofs with `tlapm` on the modules
whose names end in `Proofs`.

## The system

| Component | Source | State it keeps | Operations | Modelled in |
|---|---|---|---|---|
| ExEx | `src/src/ubt_exex.rs` | `dirty_stems` (overlay of stems not yet in MDBX), `last_*`, `last_persisted_*`, `stem_count`, `pending_entries` | `new`, `get_head`, `process_chain`, `commit`, `revert`, `get_stem`, `get_value`, `shutdown`, the notification loop | `UbtExEx`, `UbtRefinement` |
| UbtDatabase | `src/src/persistence.rs` over `mdbx.rs` | tables `ubt_stems`, `ubt_stem_addresses`, `ubt_block_deltas`, head in `ubt_meta` | load/save head, batch update of stems and addresses, save/load/delete/prune deltas, iterate | `Stores`, `MdbxCalls`, `AtomicMdbx`, `MdbxTxn` |
| NOMT | external crate | second copy of the leaves, its head key, a rollback log | commit, read, rollback by a number of commits | `Stores`, `UbtExEx` |
| KeyIndex | `src/src/key_index.rs` (redb) | stem → (address, bitmap of the subindices ever written), a head record | `apply_updates`, `save_head`, `load_head`, `for_each_stem` | `Stores` |
| Export RPCs | `src/src/rpc.rs` | none | `ubt_exportState`, `ubt_exportContract`, `ubt_getStateDelta`, `ubt_getRoot` | `StateExport`, `DocClaims` |
| PIR2 export | `src/src/pir_export.rs` | the files written | exports from NOMT and from MDBX, delta export | `StateExport` (what is read), `ExportFiles` (how it is written) |
| State extraction | `process_chain` in `ubt_exex.rs` | `pending_entries` | account, code chunks and slots → entries; the loops of `commit` and `revert` over entries and deltas | `StateExtraction`, `BlockDeltas` |
| MDBX wrapper | `src/src/mdbx.rs` | a libmdbx environment | transactions, cursors, abort on drop | `MdbxTxn` |
| Server wiring, configuration, metrics, errors, binaries | `rpc_server.rs`, `config.rs`, `metrics.rs`, `error.rs`, `main.rs`, `lib.rs`, `bin/` | – | – | not modelled: I/O, pure lookups, counters nothing reads. `FlushInterval` and `DeltaRetention` are constants |

**Interaction.** reth sends the ExEx one notification at a time: `ChainCommitted {new}`,
`ChainReorged {old, new}` or `ChainReverted {old}`. A commit writes, in this order: NOMT
(leaves and head, one commit); addresses of new stems to MDBX; bits to the key index; the
undo record of the segment to MDBX; and, when `flush_interval` is reached, the dirty stems
to MDBX, the head (root and all) to MDBX, the head to the key index, and a prune of old
undo records. Only then does `FinishedHeight` go back to the node. A revert rolls NOMT back,
applies the undo records to the overlay, and, if one of the blocks was in MDBX, flushes
stems and head. No transaction spans two of these writes. RPC calls run as tasks of their
own and read the three stores with no lock shared with the ExEx.

What makes each part correct:

- *ExEx*: overlay in front of MDBX is the state after the canonical tip; NOMT agrees;
  MDBX always holds the state its head names; the undo records of every block that may
  still be unwound are exact; a stop anywhere leaves something a restart can continue from;
  every notification is answered, and not much before it is durable.
- *State extraction*: the leaves of an account that exists are those of the account, whatever
  blocks and reverts came before; the loops over entries and deltas undo a block exactly.
- *Stores*: a stem has its address, a leaf has its bit, the count of stems is the count. A call
  acts at one instant or not at all, whichever of its steps fails, and gives the lock back.
- *Exports*: the file is the state (or the changes) of the block in its header; a header never
  announces entries that are not there.

## What is hard

`PROJECT.json` lists each hazard at its line. The main ones:

- **Crashes between the writes of one handler.** Three stores, up to nine durable writes per
  commit. MDBX falls back by losing its overlay, NOMT by a counted rollback, the key index
  not at all; the three must land on the same block.
- **Re-used block numbers.** After a reorg a number names another block, while undo records
  of persisted blocks are kept and heads are compared by number.
- **Off-by-ones**: the flush condition, `reverted_persisted`, the prune bound and the window
  of the delta export.
- **Readers across transactions.** An export reads two heads, a table of bitmaps and every
  leaf separately while commits and reverts go on.
- **Bounded logs**: `delta_retention` and NOMT's rollback log, whose failures are only logged.
- **Nodes that move**: a commit seeds the overlay from MDBX, a flush empties it, and an undo record is applied to
  whatever the two hold by then.
- **Bundles that leave things out**: the code of a contract that only receives, the slots of one that
  is destroyed.
- **Early returns** from an open transaction and from a half-written file.

## Modules

| Module | What it is |
|---|---|
| `TreeState` | leaves, nodes, tables and patches; what a commit does to the overlay (`WriteThrough`) and its undo record (`Undo`) |
| `Stores` | every operation of the three stores as the value it leaves behind |
| `UbtExEx` | the state machine of the process; extends the two above |
| `ChainTracker` | abstract: a state that follows a chain, and a checkpoint to fall back to |
| `UbtRefinement` | the refinement mapping from `UbtExEx` to `ChainTracker` |
| `DocClaims` | statements of the documentation and the tests that some behaviour refutes |
| `RevertibleState` | abstract: a state, and the states before the blocks that may be reverted |
| `BlockDeltas` | the loops over entries and deltas, item by item; implements `RevertibleState` |
| `StateExtraction` | accounts, bundles and `process_chain`, feeding `BlockDeltas` |
| `MdbxCalls` | the calls of `UbtDatabase` and their effect on the tables, in the terms of `Stores` |
| `AtomicMdbx` | abstract: each call acts at one instant or fails |
| `MdbxTxn` | each call as a transaction, key by key; implements `AtomicMdbx` |
| `StateExport` | an export call beside the ExEx; its steps interleave with every step of `UbtExEx!Next` |
| `ExportFiles` | the files of concurrent exports, cell by cell |
| `MCUbtExEx`, `MCStateExtraction`, `MCMdbxTxn`, `MCStateExport`, `MCExportFiles` | instances for TLC |
| `UbtExExProofs`, `TrackingProofs`, `BlockDeltasProofs`, `StateExtractionProofs`, `StateExportProofs`, `ExportExactProofs`, `ExportFilesProofs`, `MdbxTxnProofs` | theorems |

How they fit: `UbtExEx` takes a handler's loop as one step (`WriteThrough`, `Undo`) and a store's call as
one step (`Stores`). `BlockDeltas` justifies the first, `MdbxTxn` the second: `SavedIsUndo` says that the list
`BlockDeltas` saves is the `Undo` of `TreeState`, and `CallsAreAtomic` that a transaction leaves what `Stores` says.
`StateExport` decides which leaves go into a file, and `ExportFiles` takes them as given.

**State of `UbtExEx`.** The tree maps stem and subindex to a leaf; zero and absent are the same leaf, as in
`StemNode`. `mdbxStems`, `mdbxAddrs`, `mdbxHead`, `mdbxDeltas` are the MDBX tables; `nomtState`,
`nomtHead`, `nomtLog` are NOMT; `kiBitmap`, `kiHead` the key index. `overlay` is `dirty_stems`;
`lastBlock`, `lastHash`, `lastPersistedBlock`, `lastPersistedHash`, `stemCount` are the fields of
`UbtExEx`; `delta` is commit's local `deltas` between the loop and its save. `chain`, `job`,
`peak`, `finished`, `stops` and `stoppedAt` describe the node and the history that properties refer to.

**Actions of `UbtExEx`.** A handler runs to completion, but can be cut off between any two durable writes. So
each durable write is one action, `pc` names the next one, and in-memory work belongs to the
action of a write next to it:

| `pc` | Action | Code (`ubt_exex.rs`) |
|---|---|---|
| `idle`, `assembling` | `NodeUnwinds`, `NodeExtends`, `Notify` | the loop, 696–725 |
| `revertNomt`, `revertBlock` | `RevertNomt`, `RevertBlock`, `RevertLastBlock` | `revert`, 444–491 |
| `revertStems`, `revertHead` | `RevertStems`, `RevertHead` | `revert`, 493–511 |
| `commitNomt`, `commitOverlay`, `commitIndex`, `commitDeltas` | the same names | `commit`, 293–362 |
| `flushStems`, `flushHead`, `flushIndexHead`, `prune` | `FlushStems`, `FlushHead`, `FlushIndexHead`, `Prune` | `commit`, 364–416 |
| `ack` | `Ack` | `FinishedHeight`, 727–731 |
| `shutStems`, `shutHead` | `Shutdown`, `ShutdownStems`, `ShutdownHead` | signals and `shutdown` |
| any in `CrashPoint` | `Crash` | a crash, an error a handler returns, the end of the stream |
| `down`, `refused` | `Restart`, `RestartRefused` | `new`, `get_head` |

`RevertBlock` joins the (in-memory) undo of one block with the delete of its record; a stop just
before the delete differs from one just before the action only in memory that the stop loses.
`GetStem` and `GetValue` are the two reads, operators over overlay and MDBX.

**`BlockDeltas`.** `entries` and `pos` are the loop of `commit` (320–341), `deltas` its local list, `saved` the table
of records with its lowest block first. `CommitEntry` is a turn of that loop, `RevertDelta` one of
`apply_deltas_reverse`, `Flush` and `Forget` stand for the flush and the prune between two handlers. `before` is
history.

**`StateExtraction`.** `world` is what the node knows of its accounts. `ChainCommitted` picks an account and a
change (`Paid`: no code comes along; `Ran`: code is set or runs, and writes slots; `Destroyed`: no info), and
gives `ExtractedEntries` (`process_chain`, 231–282) to the loop of `BlockDeltas`; `ChainReverted` takes accounts and tree
back together. The key of a leaf is its position (basic data 0, code hash 1, low slots from 64, chunks from 128; higher
slots in a zone of their own) cut into a stem and a subindex (`TreeKey`). Keys and the layout of the values follow the `ubt`
crate and are marked external.

**`MdbxTxn`.** `disk` is the last commit, `work` the copy of the writer, `snap` that of a reader, `writer` the lock. A call
goes `begin` → `items` (`GetNext` or `PutNext`, key by key in any order) → `drop` → `done`. `Commit` may fail; either way the
flag `committed` is set (`mdbx.rs` 554) and libmdbx has freed the transaction, so `Drop` must not abort it.
`ItemFails` is any `?` in a loop, `EmptyBatch` the return before the transaction, `Refused` the address that differs.

**`StateExport`.** Every read of a store is an action: `ReadNomtHead` and `EnsureNomtSynced`
(`rpc.rs` 149–193), `ReadIndexHead`, `ForEachStem`, `ReadNomtValue`, `Finish` (exports from NOMT),
`ReadMdbxHead`, `LoadBlockDeltas`, `ReadDeltaLeaf` (delta export), `IterStems` (exports from MDBX,
which are public functions of the library and which no RPC calls). `Refuse` ends a call with an error.
One call at a time is enough, as calls do not write the stores. `calm` records that the ExEx was idle from
the request to the answer.

**`ExportFiles`.** A file is a sequence of cells (header, entries; count, rows). `CreateStateFile` truncates, `WriteEntry`
and `SkipLeaf` go through the leaves, `Spill` is the `BufWriter` giving any part of its buffer to the file,
`FinishEntries` the flush, `RewriteHeader` the seek to the start, `CreateIndex` and `FinishIndex` the second
file. `Fail` is an early return (the buffer is written as far as it gets when it is dropped), `Die` the end of the process.

## Runs

The instances of `UbtExEx` have two stems of two leaves and two values. Bodies: `create` writes a new leaf,
`update` overwrites it and adds one to the same stem, `clear` removes it and creates the other
stem. So stems are created, extended, emptied and re-created, and undo records of one block
overlap those of the next. A body that comes again changes nothing, which
`NoOpBlocks` admits or rules out.

| Run | Checks | Bounds (F = flush interval, R = delta retention) |
|---|---|---|
| `follow` | `TracksChain`, `UndoExact`, `StemCountBounded`, `GetValueStaleAtWorst`, `NotificationAnswered` (liveness) | F 2, R 1, heights to 4, reorgs to 2, no stops |
| `safe_crash` | `TracksChain`, `NomtTracksChain`, `UndoExact`, `CheckpointExact`, `FollowsTracker` (refinement) | F 2, R 1, heights to 3, reorgs to 2, two stops at `SafeCrashPoint` |
| `any_crash` | `TypeOK`, `AddressesCover`, `LeavesIndexed`, `RefusedOnlyTorn`, `StemCountBounded`, `ResumeNeverAhead`, `AckNeverOutrunsFlush` | F 2, R 1, heights to 3, batches to 2, reorgs to 1, no-op blocks, a node that may not backfill, one stop anywhere |
| `export_calm` | `CalmExportExact`, `DeltaExact`, `AddressAlwaysFound` | F 1, R 1, heights to 3, reorgs to 2, no stops |
| `export_crash` | `ExportTypeOK`, `ExportCoversHead`, `MdbxExportExact` | F 2, R 1, heights to 3, reorgs to 1, one stop at `SafeCrashPoint` |
| `block_pipeline` | `LoopTypeOK`, `LivingLeavesExact`, `LastWriteWins`, `SavedIsUndo`, `KeepsPromise` (refinement) | one account, a contract of two chunks and a designator of one, one slot, balances on both sides of the cap, two blocks that can be unwound |
| `mdbx_txn` | `TxnTypeOK`, `HandlesSound`, `CallsAreAtomic` (refinement), `AddressesStay`, `LockReleased` (liveness) | two clients, two stems, two addresses, two block numbers, three calls or deaths |
| `export_files` | `FilesTypeOK`, `HeaderNeverLies`, `AnswerStands` | two callers, a file with an index and one without, two blocks with up to three leaves, three exports or deaths |

Why the bounds are enough:

- *Reorg depth 2 = R + 1.* Pruning at a flush of block b keeps records b−R .. b, that is R+1
  of them, so this is the deepest reorg that must work; one more would be lost by design
  (the warning in `revert`), and an off-by-one in the prune is already seen at this depth.
- *F 2* has the overlay hold blocks that MDBX does not, so reverts hit flushed blocks, unflushed
  blocks and both at once; *F 1* has every block flushed, which is the default of the program.
- *Heights to 3 or 4* exceed F and R, so flushes, prunes and re-used numbers after a reorg of
  the deepest kind all occur; behaviours are not bounded in length, as reorgs make room for new
  blocks.
- *NomtHistory 2* is the deepest reorg and the largest distance between NOMT and MDBX after a
  stop, so a rollback always finds its target: the real log is longer than both by default.
- *Stops*: the second stop may fall into the replay that follows the first.
- *`SafeCrashPoint`* leaves out the windows that other runs show to be unsafe (below), so the
  exactness properties hold in everything else; `any_crash` has no such restriction.
- The exactness runs use batches of one block and no no-op blocks, because they do not hold
  otherwise (see the next section).
- *One account* in `block_pipeline`: leaves of two accounts are disjoint, so a block with two accounts is
  two independent lists. Slot 70 lies above 63 and takes a stem of its own; the chunks, the code hash and
  the basic data share the header stem. A block writes up to five leaves, and the account is
  created, paid, run, destroyed and created again in any order; behaviours are not bounded in length, only how far
  back they can be unwound.
- *Three calls* in `mdbx_txn`: one that puts records there, and two that overlap; or a writer, a death, and a
  writer after it. The calls overlap in their keys, one clears what another wrote, and a stem is saved
  under two addresses.
- *Three exports* in `export_files`: one that leaves a longer file, one that fails on top of it, one that
  succeeds; or two at once and one after. `Spill` gives any prefix of the buffer to the file, so every
  place where a failure can cut a file off occurs.

**Fairness.** `follow` uses `WF_vars(Revert \/ Commit)`: a handler is straight-line code
without waits on other tasks, so once started it takes its next step unless the process dies.
`mdbx_txn` uses `WF(Step(c))` for each client: a call is straight-line code too and waits only in `BeginRw`,
for the writer before it. `Call` and `Die` have no fairness. `LockReleased` needs no more: that a waiting writer
also gets the lock is up to libmdbx, which need not be fair among waiters.
Nothing is assumed of the node, of signals or of restarts.

## What the code does not keep

Each of these is one statement of the repository and one run whose counterexample shows the
behaviour that refutes it (`findings` in `PROJECT.json` quotes the line):

| Run | What happens |
|---|---|
| `batch_revert` | one undo record per *notification*: unwinding a part of a multi-block segment unwinds all of it |
| `crash_in_revert` | a stop inside `revert`: resumption head with NOMT's number and MDBX's hash |
| `export_mislabeled` | heads with the same number and different hashes pass the sync check |
| `code_size` | a block that only changes a contract's balance (a withdrawal, a fee) comes without its code, and sets its code size to 0 |

Counterexamples at other bounds or of nearby properties, for which no run is kept; where a property
bounds the damage, it is named:

- `StemCountBounded`, and not equality: a stop after `apply_updates` means that new stems are never counted.
  The bound is the key index, which never shrinks; the doc of `revert` compares with the tree.
- `GetValueStaleAtWorst`, and not equality: a cleared leaf shows its value in MDBX until the next
  flush (`get_value` is library API, not called by the ExEx). `prop_overlay_mdbx_matches_model`
  (`property_tests.rs` 127–151) tests equality, but with a flush interval of 1, where TLC finds it too.
- `RefusedOnlyTorn`, and not its converse: after a stop inside the first flush there are stems and no
  head, which start-up takes for a fresh start.
- `DeltaExact` speaks of blocks within the retention of the highest block ever seen: a revert lowers the head, and
  with it the window the delta export accepts, below what was pruned.
- `TracksChain` with `BackfillsFresh = FALSE`: with no head on record the ExEx subscribes without one, and if the
  node then sends new blocks only, those before are missing.
- `LivingLeavesExact` leaves out slots of an account that was ever destroyed, as the bundle does not list
  them and the tree keeps them; and the code hash of an account whose delegation ended.
- `HeaderNeverLies` with `Exclusive = FALSE`: two calls for the same file truncate under each other, and one goes on
  writing at its old position.
- A failure between the two files of an export leaves a new state file beside the index of an earlier
  export; `AnswerStands` speaks only of exports that are answered.
- `RevertsRestore` with F 1, reorgs to 2 and `NoOpBlocks`: a block that changes nothing saves no
  undo record and inherits that of an earlier block of its number, if that one was persisted.
- `CalmExportExact` with F 1 and a stop at `flushIndexHead`: nothing repairs the key index head
  that the stop missed, and a later reorg makes it match NOMT's by number.
- `CalmExportExact` without `calm`: a commit between the reads of an export mixes two states.
- `ubt_getRoot` is one read of the key index head, which `revert` and `shutdown` do not save.

## Assumptions

- A block hash stands for the chain that ends in the block, a root for the state it commits to:
  no collisions. The state at genesis is empty, and its hash is `B256::ZERO`.
- `UBT_FLUSH_INTERVAL` is at least 1; 0 behaves as 1, because a block that is not above the
  persisted one is flushed anyway.
- In `UbtExEx` each store operation is one atomic, durable transaction. For `UbtDatabase` this is what `MdbxTxn`
  shows, from three facts about libmdbx: there is one writer at a time, a reader sees the last commit before it
  began, and a commit is durable or has no effect, and frees its transaction either way. For redb and NOMT it
  is assumed.
- The process stops; the machine does not. Power loss and `fsync` are outside the model.
- After a start the node resumes from `get_head`; where the number and the hash disagree it goes by
  the number; where there is none it resumes from genesis if `BackfillsFresh` (as the code's log line expects), and
  anywhere otherwise.
- `UbtExEx` takes of a segment the last value of each leaf it writes. That this is what the loops make of the
  entries is `LastWriteWins`; which entries there are is `StateExtraction`.
- A bundle has each account once, with the code only if it was set or loaded in the block
  (revm), and the storage of a destroyed account is not listed in it.
- Errors of the stores end the process (`Crash`), except that a failed prune and a failed NOMT
  rollback are only logged. A failed prune may happen at any time in the model, a failed rollback
  when the log is too short.
- `saveDeltas` is never asked to save an empty list (`commit` skips it); the leaves of an export come in key
  order, so those of a stem are together (`Grouped`).
- An RPC opens NOMT and the key index a second time; whether the crates permit that while the ExEx
  holds them is outside the sources. Where they do not, the call is refused (`Refuse`). Where redb's lock keeps two
  calls apart, two exports cannot write one file at a time: that is `Exclusive`.

## Proofs

All theorems hold for every value of the constants that satisfies the named assumptions (`TreeAssumption`,
`StoresAssumption`, `UbtAssumption`, `HeadAssumption`, `ExportAssumption`,
`FilesAssumption`, `MdbxAssumption`, `TxnAssumption`, `ExtractionAssumption`, `LeavesAssumption`). Each invariant rests on an inductive one, with one step per action.

| Module | Theorem | States |
|---|---|---|
| `UbtExExProofs` | `UndoRestores` | overlay and MDBX show what they showed before a commit when its undo record has been applied, however flushes have divided the nodes between them since |
| | `TypeCorrect` | `Spec => []TypeOK` |
| | `AddressesCovered` | `Spec => []AddressesCover` |
| | `LeavesAreIndexed` | `Spec => []LeavesIndexed` |
| | `OnlyTornRefused` | `Spec => []RefusedOnlyTorn` |
| | `ResumesFromStored` | `Spec => []ResumeNeverAhead` |
| | `AcksNearFlush` | `Spec => AckNeverOutrunsFlush` |
| | `StemCountNeverInflated` | `Spec => []StemCountBounded` |
| `TrackingProofs` | `TreeTracksChain` | `Spec => []TracksChain`, if `SafeParameters` (so are the next five) |
| | `NomtFollowsChain` | `Spec => []NomtTracksChain` |
| | `UndoAlwaysExact` | `Spec => []UndoExact` |
| | `CheckpointAlwaysExact` | `Spec => []CheckpointExact` |
| | `ValueStaleAtWorst` | `Spec => []GetValueStaleAtWorst` |
| | `ImplementsTracker` | `Spec => FollowsTracker` (implements `ChainTracker`) |
| `BlockDeltasProofs` | `LoopTypeCorrect` | `LoopSpec => []LoopTypeOK` |
| | `LastWriteWinsAlways` | `LoopSpec => []LastWriteWins` |
| | `LoopsKeepPromise` | `LoopSpec => KeepsPromise` (implements `RevertibleState`) |
| `StateExtractionProofs` | `PipelineIsLoop` | `PipelineSpec => LoopSpec` |
| | `PipelineKeepsPromise` | `PipelineSpec => KeepsPromise /\ []LastWriteWins /\ []LoopTypeOK` |
| | `SavedAlwaysUndo` | `PipelineSpec => []SavedIsUndo` |
| | `LivingLeavesAlwaysExact` | `PipelineSpec => []LivingLeavesExact` |
| `StateExportProofs` | `ExportTypeCorrect` | `ExportSpec => []ExportTypeOK` |
| | `AddressNeverMissing` | `ExportSpec => []AddressAlwaysFound` |
| | `ExportsCoverHead` | `ExportSpec => []ExportCoversHead`, if `BackfillsFresh` |
| `ExportExactProofs` | `CalmExportsExact` | `ExportSpec => []CalmExportExact`, if `SafeParameters` and `HeadsTogether` |
| | `MdbxExportsExact` | `ExportSpec => []MdbxExportExact`, if `SafeParameters` |
| | `DeltasExact` | `ExportSpec => []DeltaExact`, if `SafeParameters` |
| `ExportFilesProofs` | `FilesTypeCorrect` | `FilesSpec => []FilesTypeOK`, if `Exclusive` |
| | `HeadersHold` | `FilesSpec => []HeaderNeverLies`, if `Exclusive` |
| | `AnswersStand` | `FilesSpec => []AnswerStands`, if `Exclusive` |
| `MdbxTxnProofs` | `TxnTypeCorrect` | `TxnSpec => []TxnTypeOK` |
| | `TransactionsSound` | `TxnSpec => []HandlesSound` |
| | `AddressesNeverChange` | `TxnSpec => AddressesStay` |
| | `CallsKeepPromise` | `TxnSpec => CallsAreAtomic` (implements `AtomicMdbx`) |

*The ExEx* (`UbtExExProofs`), with crashes at any point:

- `TypeInv` adds to `TypeOK` the bounds that keep indices in range: the job lies within
  `BlockNumber`, the chain is not longer than `MaxHeight`, a commit has a tip.
- `AddressInv` adds to `AddressesCover` the local `delta`, which becomes an undo record after the
  addresses were written.
- `LeafInv` says `LeavesIndexed` of the leaves *announced* so far: while `commitIndex` is pending the
  overlay holds the leaves of the segment before their bits are set, so the pending entries are
  part of what is indexed.
- `RootInv` = `RootDescribesStems` ∧ `RefusedOnlyTorn`: outside the window between stems and head the
  stored root is that of the stored stems, and a stop in the window is remembered.
- `ProgressInv` relates `lastPersistedBlock`, the stored head, and at `ack` the tip, from which
  both `ResumeNeverAhead` and `AckNeverOutrunsFlush` follow.
- `CountInv` relates the count in memory, the one in the head record and the index, which only grows.

*Chains* (`TrackingProofs`). `TracksChain` is far from inductive: that a revert restores the state depends on records saved
many blocks ago, that a restart does depends on the checkpoint, and both on how the node's chain and that of the ExEx lie
to each other meanwhile. `TrackInv` has one part for each:

- `ChainsBuilt`: in each of the three chains (of the node, of the ExEx, of the head record) a block's state is that before
  it with its writes, and a different one.
- `ShapeInv`: how far `chain` and `lastHash` agree, step by step of the handlers, and that none is longer than `peak`.
- `ViewInv`: the chain whose state overlay and MDBX show: that of the ExEx, the new one once a commit has written the
  overlay, and in a revert the blocks not taken back yet.
- `RecordsInv`: the undo records lead back block by block, as far down as they are *retained*; reverts need only those in
  reach of a reorg, delta exports need all. `DeltaInv` says it of the list that a commit is about to save.
- `SavedInv`: on disk is the state of the head record's chain, which the ExEx continues by less than a flush interval.
- `NomtInv`: NOMT's log has the states before the last commits, as far back as a reorg and as the checkpoint. While the
  process is down NOMT may be ahead of MDBX, on some chain that continues the checkpoint's.

`SafeParameters` says when this is so, and no more than the argument uses. `MaxBatch = 1` and no `NoOpBlocks`, because a batch
saves one record for all its blocks and a block that changes nothing saves none; the run `batch_revert` shows the first going
wrong. `MaxReorg <= DeltaRetention + 1` and `MaxReorg <= NomtHistory`, because pruning and NOMT's log forget the rest;
`FlushInterval <= NomtHistory`, because a restart may have to take NOMT back by a whole interval; `BackfillsFresh`,
because a fresh store has no earlier blocks. No stop in the window of a flush (the store is then refused,
`OnlyTornRefused`) nor in a revert that has begun to take blocks back (`crash_in_revert` shows what comes of it). The constants of
`follow` and of `safe_crash` satisfy it, those of `safe_crash` with every bound tight.

*The loops* (`BlockDeltasProofs`). A list of deltas *leads back* from a state to another one if each leaf without
a delta is the same in both, and the first delta of each other leaf, which is applied last, has its old value.
`LoopInv` says that every saved list leads back over its block, and that what is left of the list at work leads
back to where the handler began or is to end (`SavedLeadBack`, `ListLeadsBack`); `WrittenSoFar` has the last value of each
leaf among the entries handled.

*Extraction* (`StateExtractionProofs`). Positions are cut into stem and subindex without loss (`TreeKeyInjective`), so no two
things of the state share a leaf (`KeysDiffer`), and `process_chain` lists the leaves that changed, each once
(`ExtractedFacts`: `NoLeafTwice`, and `Lists` iff `IsEntryOf`, in whatever order the slots come). Hence:

- Every step is one of `LoopSpec`, given that the accounts keep their type (`WorldInv`), and the theorems about the loops apply.
- A leaf that is written is still as before the block (`WrittenSoFar` and `NoLeafTwice`), so that the list being built has one
  delta for every leaf that differs so far (`ListExact`, `RecordExact`). That the saved lists stay so (`SavedExact`)
  while blocks are reverted, flushed and pruned needs where each list comes from (`SavedComesFrom`) and that a revert
  restores the state before its block (`RevertDone`).
- The tree shows the accounts in every state that can be gone back to (`PastShown`), and while a block is being committed its entries
  are those that make the next accounts of the last ones (`NowShown`). `ChangeShown` is the heart: for what the bundle
  leaves out, the tree already had it. That is why `AccountShown` holds the slots of accounts that do not exist but were
  never destroyed, and chunks of a code that did not come along.

*Exports* (`StateExportProofs`). The exports take no step of the ExEx, so `ExportSpec => Spec`
(`ExportsOnlyRead`), and what is proved of `Spec` may be used. `CallInv`: a stem that is to be looked up had an address when
its call learnt of it, and addresses stay. `HeadsIndexed`: for each head record, the leaves of every state on its chain are
in the bitmaps; `CoverInv` follows them from the bitmaps into the file. `HeadsIndexed` needs that
the chain is taken over from genesis, hence `BackfillsFresh`.

*Exact exports* (`ExportExactProofs`) joins `TrackInv` with what an export has read. `CalmInv` says, of a call during which the
ExEx is idle, that its head, keys and leaves are those of the stores, which do not change meanwhile (`CalmNomt`,
`CalmMdbx`, `CalmDeltas`); outside a handler the stores agree with the chain (`NomtInv`, `SavedInv`, `RecordsInv`). For an
export from NOMT one thing is missing: that a head of the key index with NOMT's *number* is NOMT's head. `IndexHeadInv` says so
when the heads move together (`HeadsTogether`): every block is flushed, and no stop falls between the head record and the index
head. Then the head of the index is that of the checkpoint or of a block above it. Neither part can be dropped:
`export_mislabeled` refutes it for an interval of 2, and a stop at `flushIndexHead` leaves an old head that a later reorg makes
match. The file then has nothing that NOMT has not (`CalmNomt`) and misses nothing (`ExportCoversHead`). A delta export
rests on the records of all blocks that are retained, not only those that a reorg may reach.

*Files* (`ExportFilesProofs`). `FilesInv` says what of an export is in its files and what is still in its buffer
(`ClientInv`): to spill the buffer moves nothing (`SpillMovesNothing`), a file that is not complete says 0 in its header,
and the rows so far lead to the first leaf of each stem (`RowsAreIndex`, from key order, `Grouped`). That two exports
at work have different files is `Exclusive`; without it all of this is false.

*Transactions* (`MdbxTxnProofs`). `TxnInv` says that the working copy of the writer is the disk with the records done so
far (`WriterInv`) and that a reader has seen the snapshot's records for the keys done so far (`ReaderInv`).
So a commit is one step of `AtomicMdbx`, and every other step changes nothing it can see, or fails the call.

Every invariant, action property and refinement that a passing run checks is also proved, each under the assumptions in the
table, which the constants of that run satisfy. Only model-checked: the liveness properties `NotificationAnswered` and
`LockReleased`, which are out of the prover's reach.

## Not modelled

- *RPC server wiring*, *metrics*, *errors*, *binaries*: I/O, counters that nothing reads, type definitions. What the
  wiring does to the state (tasks beside the ExEx, two exports at once) is in `StateExport` and `ExportFiles`.
- *Configuration*: precedence of arguments and environment and the parsing of a map size are pure functions without state,
  in reach of unit tests. Their results are constants.
- *NOMT and libmdbx* themselves are external crates, modelled from how the sources use them. The unsafe bindings of
  `mdbx.rs` are modelled as the life of a transaction; the conversion of values and codes is not.
- *Signals* that come while a handler runs: their listeners are made anew in every turn of the loop
  (`ubt_exex.rs` 738–747). Whether the signal is then lost is up to tokio, and a lost signal looks like one that never came.
- *Encodings* (keys, records, the bytes of PIR2 files): fixed layouts without control.
- `last_root` is only returned and logged.

## Plan

Done: the tree and the stores, the ExEx with crashes and restarts, the abstract tracker, state extraction and the loops
over entries and deltas, MDBX transactions, export calls and their files, and theorems about each of them.

What would add most next:

1. That the loops of `BlockDeltas` implement the steps `CommitOverlay` and `RevertBlock` of `UbtExEx`, as one refinement
   theorem; now `SavedAlwaysUndo` and `LastWriteWinsAlways` give it block by block.
2. A composition of `ExportFiles` with `StateExport`, so that what a file says and how it is written are
   in one state space; so far the state space does not allow a run of it.
