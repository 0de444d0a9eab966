------------------------------ MODULE UbtExEx ------------------------------
(***************************************************************************)
(* The execution extension: one process that hears of committed, reorged   *)
(* and reverted chain segments from its node and keeps the tree up to date *)
(* in three stores that share no transaction.                              *)
(*                                                                         *)
(* Handlers run to completion between two notifications, but the process   *)
(* can die between any two durable writes, so every durable write is an    *)
(* action of its own and "pc" names the write that comes next.  In-memory  *)
(* steps are part of the action of the write they precede or follow.       *)
(***************************************************************************)
EXTENDS Stores

CONSTANTS
    Body,           \* what a block can contain
    Writes,         \* body -> the leaves that process_chain extracts from it
    FlushInterval,  \* UBT_FLUSH_INTERVAL
    DeltaRetention, \* UBT_DELTA_RETENTION
    \* The node, and the bounds of a run:
    MaxHeight,      \* highest block
    MaxBatch,       \* most blocks in one notification
    MaxReorg,       \* no block this far below the highest is ever unwound
    NoOpBlocks,     \* may a block leave the whole tree as it was?
    BackfillsFresh, \* does a node resume from genesis when it is given no head?
    MaxStops,       \* how often the process dies or is shut down
    CrashPoint      \* the values of pc at which it may die

ASSUME UbtAssumption ==
    /\ Writes \in [Body -> Patch]
    /\ FlushInterval \in Nat \ {0}
    /\ DeltaRetention \in Nat
    /\ MaxHeight \in Nat /\ MaxBatch \in Nat /\ MaxReorg \in Nat
    /\ MaxStops \in Nat
    /\ NoOpBlocks \in BOOLEAN /\ BackfillsFresh \in BOOLEAN

(***************************************************************************)
(* A block hash commits to the whole chain below the block, so the hash of *)
(* a block is modelled as the chain that ends in it; B256::ZERO is <<>>.   *)
(* "post" is the state root in the block's header, what the tree holds     *)
(* after the block.  The state at genesis is taken as the empty one.       *)
(***************************************************************************)
Block == [body : Body, post : State]
Chain == Seq(Block)
StateAt(c) == IF c = <<>> THEN EmptyState ELSE c[Len(c)].post

UbtHead == [block : Nat, hash : Chain, root : State, stemCount : Nat]
FreshHead == [block |-> 0, hash |-> <<>>, root |-> EmptyState, stemCount |-> 0]

ASSUME HeadAssumption == NoHead \notin UbtHead

BlockNumber == 1 .. MaxHeight

VARIABLES
    \* MDBX
    mdbxStems, mdbxAddrs, mdbxHead, mdbxDeltas,
    \* NOMT
    nomtState, nomtHead, nomtLog,
    \* the key index
    kiBitmap, kiHead,
    \* UbtExEx, lost when the process stops
    overlay,                                \* dirty_stems
    lastBlock, lastHash,
    lastPersistedBlock, lastPersistedHash,
    stemCount,
    delta,                                  \* commit's local "deltas"
    \* the node and the handler at work
    chain,      \* the canonical chain, as notified
    job,        \* blocks lo..hi are still to be reverted, lo.. to be committed
    pc,
    peak,       \* the highest block ever notified
    finished,   \* the block of the last FinishedHeight event
    stops,      \* how often the process stopped
    stoppedAt   \* where it last stopped

mdbx     == <<mdbxStems, mdbxAddrs, mdbxHead, mdbxDeltas>>
nomt     == <<nomtState, nomtHead, nomtLog>>
keyIndex == <<kiBitmap, kiHead>>
heads    == <<lastBlock, lastHash, lastPersistedBlock, lastPersistedHash>>
memory   == <<overlay, heads, stemCount, delta>>
node     == <<chain, peak, finished, stops, stoppedAt>>
vars     == <<mdbx, nomt, keyIndex, memory, node, job, pc>>

RevertSteps == {"revertNomt", "revertBlock", "revertStems", "revertHead"}
CommitSteps == {"commitNomt", "commitOverlay", "commitIndex", "commitDeltas",
                "flushStems", "flushHead", "flushIndexHead", "prune", "ack"}
ShutdownSteps == {"shutStems", "shutHead"}
Stopped == {"down", "refused"}
PC == {"idle", "assembling"} \cup RevertSteps \cup CommitSteps
        \cup ShutdownSteps \cup Stopped

\* Between these two writes MDBX holds stems that its head does not describe.
TornSteps == {"revertHead", "flushHead", "shutHead"}

NoJob == [lo |-> 1, hi |-> 0]

Init ==
    /\ mdbxStems = EmptyTable
    /\ mdbxAddrs = {}
    /\ mdbxHead = NoHead
    /\ mdbxDeltas = [b \in BlockNumber |-> EmptyPatch]
    /\ nomtState = EmptyState
    /\ nomtHead = 0
    /\ nomtLog = <<>>
    /\ kiBitmap = [s \in Stem |-> {}]
    /\ kiHead = NoHead
    /\ overlay = EmptyTable
    /\ lastBlock = 0 /\ lastHash = <<>>
    /\ lastPersistedBlock = 0 /\ lastPersistedHash = <<>>
    /\ stemCount = 0
    /\ delta = EmptyPatch
    /\ chain = <<>>
    /\ job = NoJob
    /\ pc = "idle"
    /\ peak = 0
    /\ finished = <<>>
    /\ stops = 0
    /\ stoppedAt = "idle"

\* What get_stem shows of the tree: the overlay in front of MDBX.
View == StateOf(Overlaid(overlay, mdbxStems))

----------------------------------------------------------------------------
(* The node.  It unwinds k blocks (none for ChainCommitted) and puts others  *)
(* in their place (none for ChainReverted), then notifies the ExEx of both   *)
(* segments at once.                                                         *)

NodeUnwinds(k) ==
    /\ pc = "idle"
    /\ k <= Len(chain)
    /\ k > 0 => peak + k <= Len(chain) + MaxReorg
    /\ k > 0 \/ (Len(chain) < MaxHeight /\ MaxBatch > 0)
    /\ chain' = SubSeq(chain, 1, Len(chain) - k)
    /\ job' = [lo |-> Len(chain) - k + 1, hi |-> Len(chain)]
    /\ pc' = "assembling"
    /\ UNCHANGED <<mdbx, nomt, keyIndex, memory, peak, finished, stops, stoppedAt>>

NodeExtends(body) ==
    LET post == Patched(StateAt(chain), Writes[body])
    IN  /\ pc = "assembling"
        /\ Len(chain) < MaxHeight
        /\ Len(chain) + 1 < job.lo + MaxBatch
        /\ NoOpBlocks \/ post # StateAt(chain)
        /\ chain' = Append(chain, [body |-> body, post |-> post])
        /\ UNCHANGED <<mdbx, nomt, keyIndex, memory, job, pc,
                       peak, finished, stops, stoppedAt>>

\* The notification arrives: revert(old) if there are old blocks, then
\* process_chain(new) and commit(new tip) if there are new ones.
Notify ==
    /\ pc = "assembling"
    /\ job.lo <= job.hi \/ job.lo <= Len(chain)
    /\ peak' = IF Len(chain) > peak THEN Len(chain) ELSE peak
    /\ pc' = IF job.lo <= job.hi THEN "revertNomt" ELSE "commitNomt"
    /\ UNCHANGED <<mdbx, nomt, keyIndex, memory, chain, job,
                   finished, stops, stoppedAt>>

----------------------------------------------------------------------------
(* revert                                                                    *)

\* nomt.rollback(n): restores the state and the head key of n commits ago.
\* When the log is too short it fails, which the code only logs.
NomtRollback(n) ==
    IF CanRollback(nomtLog, n)
    THEN /\ nomtState' = RollbackTarget(nomtLog, n).state
         /\ nomtHead' = RollbackTarget(nomtLog, n).head
         /\ nomtLog' = RollbackLog(nomtLog, n)
    ELSE UNCHANGED nomt

RollbackOnceMutant == 1
RollbackCount == job.hi - job.lo + 1

RevertNomt ==
    /\ pc = "revertNomt"
    /\ NomtRollback(RollbackCount)
    /\ pc' = "revertBlock"
    /\ UNCHANGED <<mdbx, keyIndex, memory, node, job>>

\* One turn of the loop over the old blocks, highest first: put the old values
\* back in the overlay, and forget the delta of a block that MDBX never had.
ApplyDeltasReverse(block) ==
    /\ overlay' = WriteThrough(overlay, mdbxStems, mdbxDeltas[block])
    /\ mdbxDeltas' = IF block > lastPersistedBlock
                     THEN DeleteBlockDeltas(mdbxDeltas, block) ELSE mdbxDeltas

RevertBlock ==
    /\ pc = "revertBlock"
    /\ job.lo < job.hi
    /\ ApplyDeltasReverse(job.hi)
    /\ job' = [job EXCEPT !.hi = job.hi - 1]
    /\ UNCHANGED <<mdbxStems, mdbxAddrs, mdbxHead, nomt, keyIndex, heads,
                   stemCount, delta, node, pc>>

\* After revert: the new segment of a ChainReorged, or nothing.
AlwaysIdleMutant == "idle"
AfterRevert == IF job.lo <= Len(chain) THEN "commitNomt" ELSE "idle"

\* reverted_persisted: one of the blocks was already in MDBX.
BelowPersistedMutant == job.lo < lastPersistedBlock
RevertedPersisted == job.lo <= lastPersistedBlock

\* The last turn, and what follows the loop: if MDBX had one of the blocks, the
\* overlay is flushed at once.
RevertLastBlock ==
    /\ pc = "revertBlock"
    /\ job.lo = job.hi
    /\ ApplyDeltasReverse(job.lo)
    /\ lastBlock' = job.lo - 1
    /\ lastHash' = SubSeq(chain, 1, job.lo - 1)
    /\ job' = [job EXCEPT !.hi = job.lo - 1]
    /\ pc' = IF RevertedPersisted THEN "revertStems" ELSE AfterRevert
    /\ UNCHANGED <<mdbxStems, mdbxAddrs, mdbxHead, nomt, keyIndex,
                   lastPersistedBlock, lastPersistedHash, stemCount, delta, node>>

RevertWithoutHeadMutant ==
    /\ pc = "revertStems"
    /\ mdbxStems' = BatchUpdateStems(mdbxStems, overlay)
    /\ overlay' = EmptyTable
    /\ pc' = AfterRevert
    /\ UNCHANGED <<mdbxAddrs, mdbxHead, mdbxDeltas, nomt, keyIndex, heads,
                   stemCount, delta, node, job>>
RevertStems ==
    /\ pc = "revertStems"
    /\ mdbxStems' = BatchUpdateStems(mdbxStems, overlay)
    /\ overlay' = EmptyTable
    /\ pc' = "revertHead"
    /\ UNCHANGED <<mdbxAddrs, mdbxHead, mdbxDeltas, nomt, keyIndex, heads,
                   stemCount, delta, node, job>>

\* The head record of what MDBX holds now, as of the last block handled.
MemoryHead == [block |-> lastBlock, hash |-> lastHash,
               root |-> ComputeRoot(mdbxStems), stemCount |-> stemCount]

\* The key index keeps the head it had.
RevertHead ==
    /\ pc = "revertHead"
    /\ mdbxHead' = MemoryHead
    /\ lastPersistedBlock' = lastBlock
    /\ lastPersistedHash' = lastHash
    /\ pc' = AfterRevert
    /\ UNCHANGED <<mdbxStems, mdbxAddrs, mdbxDeltas, nomt, keyIndex, overlay,
                   lastBlock, lastHash, stemCount, delta, node, job>>

----------------------------------------------------------------------------
(* process_chain, commit                                                     *)

\* process_chain(new): a chain comes with one bundle of state changes, which
\* has the last value of every leaf that one of its blocks wrote.
ProcessChain(c, lo) ==
    [s \in Stem |-> [i \in SubIndex |->
        IF \E k \in lo .. Len(c) : Writes[c[k].body][s][i] # NoWrite
        THEN StateAt(c)[s][i]
        ELSE NoWrite]]

pendingEntries == ProcessChain(chain, job.lo)
tip == Len(chain)

\* The whole segment is one NOMT commit, under the number of its tip.
CommitNomt ==
    /\ pc = "commitNomt"
    /\ nomtLog' = CommitLog(nomtLog, [state |-> nomtState, head |-> nomtHead])
    /\ nomtState' = Patched(nomtState, pendingEntries)
    /\ nomtHead' = tip
    /\ pc' = "commitOverlay"
    /\ UNCHANGED <<mdbx, keyIndex, memory, node, job>>

\* The loop over the entries (memory only), then the addresses of the stems
\* that were neither in the overlay nor in MDBX.
ChangedStemsMutant(P) ==
    {s \in TouchedStems(Undo(View, P)) : overlay[s] = NoNode /\ mdbxStems[s] = NoNode}
NewStemAddresses(P) ==
    {s \in TouchedStems(P) : overlay[s] = NoNode /\ mdbxStems[s] = NoNode}

CommitOverlay ==
    /\ pc = "commitOverlay"
    /\ overlay' = WriteThrough(overlay, mdbxStems, pendingEntries)
    /\ delta' = Undo(View, pendingEntries)
    /\ mdbxAddrs' = BatchSaveStemAddresses(mdbxAddrs,
                                           NewStemAddresses(pendingEntries))
    /\ pc' = "commitIndex"
    /\ UNCHANGED <<mdbxStems, mdbxHead, mdbxDeltas, nomt, keyIndex, heads,
                   stemCount, node, job>>

CommitIndex ==
    /\ pc = "commitIndex"
    /\ kiBitmap' = ApplyUpdates(kiBitmap, pendingEntries)
    /\ stemCount' = stemCount + NewStems(kiBitmap, pendingEntries)
    /\ pc' = "commitDeltas"
    /\ UNCHANGED <<mdbx, nomt, kiHead, overlay, heads, delta, node, job>>

FlushLateMutant(block) ==
    \/ block <= lastPersistedBlock
    \/ block - lastPersistedBlock > FlushInterval
ShouldFlush(block) ==
    \/ block <= lastPersistedBlock
    \/ block - lastPersistedBlock >= FlushInterval

\* One undo record for the whole segment, under the number of its tip.
CommitDeltas ==
    /\ pc = "commitDeltas"
    /\ mdbxDeltas' = SaveBlockDeltas(mdbxDeltas, tip, delta)
    /\ delta' = EmptyPatch
    /\ lastBlock' = tip
    /\ lastHash' = chain
    /\ pc' = IF ShouldFlush(tip) THEN "flushStems" ELSE "ack"
    /\ UNCHANGED <<mdbxStems, mdbxAddrs, mdbxHead, nomt, keyIndex, overlay,
                   lastPersistedBlock, lastPersistedHash, stemCount, node, job>>

FlushStems ==
    /\ pc = "flushStems"
    /\ mdbxStems' = BatchUpdateStems(mdbxStems, overlay)
    /\ overlay' = EmptyTable
    /\ pc' = "flushHead"
    /\ UNCHANGED <<mdbxAddrs, mdbxHead, mdbxDeltas, nomt, keyIndex, heads,
                   stemCount, delta, node, job>>

UnsavedHeadMutant ==
    /\ pc = "flushHead"
    /\ pc' = "flushIndexHead"
    /\ UNCHANGED <<mdbx, nomt, keyIndex, memory, node, job>>
FlushHead ==
    /\ pc = "flushHead"
    /\ mdbxHead' = MemoryHead
    /\ pc' = "flushIndexHead"
    /\ UNCHANGED <<mdbxStems, mdbxAddrs, mdbxDeltas, nomt, keyIndex, memory,
                   node, job>>

FlushIndexHead ==
    /\ pc = "flushIndexHead"
    /\ kiHead' = MemoryHead
    /\ lastPersistedBlock' = lastBlock
    /\ lastPersistedHash' = lastHash
    /\ pc' = IF tip > DeltaRetention THEN "prune" ELSE "ack"
    /\ UNCHANGED <<mdbx, nomt, kiBitmap, overlay, lastBlock, lastHash,
                   stemCount, delta, node, job>>

\* A prune that fails is only logged.
Prune ==
    /\ pc = "prune"
    /\ \/ mdbxDeltas' = PruneDeltasBefore(mdbxDeltas, tip - DeltaRetention)
       \/ mdbxDeltas' = mdbxDeltas
    /\ pc' = "ack"
    /\ UNCHANGED <<mdbxStems, mdbxAddrs, mdbxHead, nomt, keyIndex, memory,
                   node, job>>

\* FinishedHeight goes to the node after every commit, flushed or not.
Ack ==
    /\ pc = "ack"
    /\ finished' = chain
    /\ job' = NoJob
    /\ pc' = "idle"
    /\ UNCHANGED <<mdbx, nomt, keyIndex, memory, chain, peak, stops, stoppedAt>>

----------------------------------------------------------------------------
(* Stopping and starting.                                                    *)

\* What a new process knows before it has read the stores.
Forget ==
    /\ overlay' = EmptyTable
    /\ lastBlock' = 0 /\ lastHash' = <<>>
    /\ lastPersistedBlock' = 0 /\ lastPersistedHash' = <<>>
    /\ stemCount' = 0
    /\ delta' = EmptyPatch
    /\ job' = NoJob

Stop ==
    /\ Forget
    /\ stops' = stops + 1
    /\ stoppedAt' = pc
    /\ pc' = "down"

\* The process dies; an error that a handler returns ends it the same way, as
\* does the end of the notification stream, which does not flush.
Crash ==
    /\ pc \in CrashPoint \ Stopped
    /\ stops < MaxStops
    /\ Stop
    /\ UNCHANGED <<mdbx, nomt, keyIndex, chain, peak, finished>>

\* SIGINT or SIGTERM, heard between two notifications.
Shutdown ==
    /\ pc = "idle"
    /\ stops < MaxStops
    /\ pc' = "shutStems"
    /\ UNCHANGED <<mdbx, nomt, keyIndex, memory, node, job>>

ShutdownStems ==
    /\ pc = "shutStems"
    /\ mdbxStems' = BatchUpdateStems(mdbxStems, overlay)
    /\ overlay' = EmptyTable
    /\ pc' = "shutHead"
    /\ UNCHANGED <<mdbxAddrs, mdbxHead, mdbxDeltas, nomt, keyIndex, heads,
                   stemCount, delta, node, job>>

\* The key index keeps the head it had.
ShutdownHead ==
    /\ pc = "shutHead"
    /\ mdbxHead' = MemoryHead
    /\ Forget
    /\ stops' = stops + 1
    /\ stoppedAt' = "idle"
    /\ pc' = "down"
    /\ UNCHANGED <<mdbxStems, mdbxAddrs, mdbxDeltas, nomt, keyIndex,
                   chain, peak, finished>>

\* load_head; without a head record, everything starts at zero.
LoadedHead == IF mdbxHead = NoHead THEN FreshHead ELSE mdbxHead

RootVerified == mdbxHead # NoHead => mdbxHead.root = ComputeRoot(mdbxStems)

\* last_persisted_block after new: lowered when NOMT is behind.
EffectiveHead == IF nomtHead < LoadedHead.block THEN nomtHead ELSE LoadedHead.block

RestartRefused ==
    /\ pc \in Stopped
    /\ ~RootVerified
    /\ pc' = "refused"
    /\ UNCHANGED <<mdbx, nomt, keyIndex, memory, node, job>>

\* Where the node resumes: after get_head.  There is none at block 0; the ExEx
\* then subscribes without a head, and the node either goes back to genesis, as
\* the code's log line has it, or goes on from wherever its chain is by now.
Resume ==
    IF EffectiveHead = 0 /\ ~BackfillsFresh
    THEN \E k \in 0 .. Len(chain) : chain' = SubSeq(chain, 1, k)
    ELSE chain' = SubSeq(LoadedHead.hash, 1, EffectiveHead)

\* new: take the head from MDBX, roll NOMT back if it is ahead.  If it is
\* behind, last_persisted_block is lowered to it (and nothing else is).
Restart ==
    /\ pc = "down"
    /\ RootVerified
    /\ lastBlock' = LoadedHead.block
    /\ lastHash' = LoadedHead.hash
    /\ stemCount' = LoadedHead.stemCount
    /\ lastPersistedBlock' = EffectiveHead
    /\ lastPersistedHash' = LoadedHead.hash
    /\ IF nomtHead > LoadedHead.block
       THEN NomtRollback(nomtHead - LoadedHead.block) ELSE UNCHANGED nomt
    /\ Resume
    /\ pc' = "idle"
    /\ UNCHANGED <<mdbx, keyIndex, overlay, delta, job,
                   peak, finished, stops, stoppedAt>>

----------------------------------------------------------------------------
\* get_value: the leaf in the overlay, and if it has none, the leaf in MDBX.
StoredFirstMutant(s, i) ==
    LET stored == NodeOf(mdbxStems[s])[i]
    IN  IF stored # Zero THEN stored ELSE NodeOf(overlay[s])[i]
GetValue(s, i) ==
    LET cached == NodeOf(overlay[s])[i]
    IN  IF cached # Zero THEN cached ELSE NodeOf(mdbxStems[s])[i]

----------------------------------------------------------------------------
Revert == RevertNomt \/ RevertBlock \/ RevertLastBlock \/ RevertStems \/ RevertHead
Commit == \/ CommitNomt \/ CommitOverlay \/ CommitIndex \/ CommitDeltas
          \/ FlushStems \/ FlushHead \/ FlushIndexHead \/ Prune \/ Ack
NodeStep ==
    \/ \E k \in 0 .. MaxReorg : NodeUnwinds(k)
    \/ \E body \in Body : NodeExtends(body)
    \/ Notify
StopOrStart ==
    \/ Crash \/ Shutdown \/ ShutdownStems \/ ShutdownHead
    \/ RestartRefused \/ Restart

Next == NodeStep \/ Revert \/ Commit \/ StopOrStart

Spec == Init /\ [][Next]_vars

\* A handler that has started keeps running until it is done or killed.
FairSpec == Spec /\ WF_vars(Revert \/ Commit)

----------------------------------------------------------------------------
(* Properties.                                                               *)

\* The only type invariant: every variable holds what its declaration says.
TypeOK ==
    /\ mdbxStems \in Table
    /\ mdbxAddrs \in SUBSET Stem
    /\ mdbxHead \in UbtHead \cup {NoHead}
    /\ mdbxDeltas \in [BlockNumber -> Patch]
    /\ nomtState \in State /\ nomtHead \in Nat /\ nomtLog \in Seq(NomtRecord)
    /\ kiBitmap \in [Stem -> SUBSET SubIndex]
    /\ kiHead \in UbtHead \cup {NoHead}
    /\ overlay \in Table
    /\ lastBlock \in Nat /\ lastHash \in Chain
    /\ lastPersistedBlock \in Nat /\ lastPersistedHash \in Chain
    /\ stemCount \in Nat
    /\ delta \in Patch
    /\ chain \in Chain
    /\ job \in [lo : Nat \ {0}, hi : Nat]
    /\ pc \in PC
    /\ peak \in Nat /\ finished \in Chain
    /\ stops \in Nat /\ stoppedAt \in PC

\* Between two notifications the overlay in front of MDBX is exactly the state
\* after the canonical chain, and last_block/last_hash name its tip: commits,
\* reverts of flushed and of unflushed blocks, flushes and restarts in any
\* order leave no leaf behind and lose none (ubt_exex.rs, commit and revert).
TracksChain ==
    pc = "idle" => /\ View = StateAt(chain)
                   /\ lastHash = chain
                   /\ lastBlock = Len(chain)

\* get_value is right about every leaf but those cleared since the last
\* checkpoint, of which it still has the value in the checkpoint: it never has
\* a value of a block that was unwound, or one from between two checkpoints.
GetValueStaleAtWorst ==
    pc = "idle" =>
        \A s \in Stem, i \in SubIndex :
            \/ GetValue(s, i) = StateAt(chain)[s][i]
            \/ /\ StateAt(chain)[s][i] = Zero
               /\ GetValue(s, i) = StateAt(LoadedHead.hash)[s][i]

\* NOMT, which is rolled back by counting commits and not by deltas, agrees
\* with the canonical chain whenever the ExEx waits for a notification.
NomtTracksChain ==
    pc = "idle" => nomtState = StateAt(chain) /\ nomtHead = Len(chain)

\* Every block that the node may still unwind has an undo record that leads
\* from the state after the block to the state before it.  Pruning (which
\* keeps delta_retention + 1 records), the deletes of revert, re-used block
\* numbers and restarts must all leave those records alone.
UndoExact ==
    pc = "idle" =>
        \A b \in BlockNumber :
            (b <= Len(chain) /\ b + MaxReorg > peak) =>
                Patched(chain[b].post, mdbxDeltas[b])
                    = StateAt(SubSeq(chain, 1, b - 1))

\* Outside the two-transaction window of a flush, MDBX holds exactly the state
\* after the block that its head record names, and nothing when it has no head
\* ("Starting fresh UBT state").  It is what a crash falls back to, so it must
\* hold at every write of every handler.
CheckpointExact ==
    pc \notin TornSteps =>
        /\ StateOf(mdbxStems) = StateAt(LoadedHead.hash)
        /\ LoadedHead.block = Len(LoadedHead.hash)

\* Start-up refuses a store ("Root verification failed") only after the
\* process stopped between the stems and the head of one flush; no other
\* crash, reorg or sequence of them makes the stored root wrong.
RefusedOnlyTorn == pc = "refused" => stoppedAt \in TornSteps

\* What makes it so: outside that window the stored root is the root of the
\* stored stems.
RootDescribesStems ==
    \/ RootVerified
    \/ pc \in TornSteps
    \/ pc \in Stopped /\ stoppedAt \in TornSteps

\* Every stem that MDBX, the overlay or an undo record can bring back has an
\* address on record: the addresses are written long before the stems, and
\* only for stems that look new, yet the exports' "Missing stem->address
\* mappings" error never happens (pir_export.rs), whatever crashes.
AddressesCover ==
    \A s \in Stem :
        (\/ mdbxStems[s] # NoNode
         \/ overlay[s] # NoNode
         \/ \E b \in BlockNumber : s \in TouchedStems(mdbxDeltas[b]))
        => s \in mdbxAddrs

\* Every leaf that MDBX holds, or that an undo record may put back, has its
\* bit in the key index, from which the exports enumerate the keys: no leaf
\* can be missing from an export, although index and leaves are written in
\* different transactions of different stores.
LeavesIndexed ==
    \A s \in Stem, i \in SubIndex :
        (\/ NodeOf(mdbxStems[s])[i] # Zero
         \/ pc # "commitIndex" /\ NodeOf(overlay[s])[i] # Zero
         \/ \E b \in BlockNumber : mdbxDeltas[b][s][i] # NoWrite)
        => i \in kiBitmap[s]

\* stem_count never exceeds the number of stems in the key index, however
\* often blocks are reverted and replayed, and equals it as long as the
\* process has not stopped.  The key index never shrinks: beside the tree, which a
\* revert makes smaller, the count may be too high, as the doc of revert says.
StemCountBounded ==
    /\ stemCount <= Cardinality(IndexedStems(kiBitmap))
    /\ (stops = 0) => stemCount = Cardinality(IndexedStems(kiBitmap))

\* FinishedHeight is sent for blocks that are not in MDBX yet, but never for
\* one that is flush_interval or more above the durable head.
AckNeverOutrunsFlush ==
    [][finished' # finished => Len(finished') < LoadedHead.block + FlushInterval]_vars

\* The head given to the node at start-up is in MDBX: get_head never skips a
\* block that MDBX has not seen, and a crash never makes it do so.
ResumeNeverAhead ==
    pc \notin Stopped => lastPersistedBlock <= LoadedHead.block

\* Every notification that is not cut off by a crash is worked off, and one
\* with new blocks is answered with a FinishedHeight for its tip.
NotificationAnswered ==
    pc \in RevertSteps \cup CommitSteps ~>
        \/ pc = "idle" /\ (job.lo <= Len(chain) => finished = chain)
        \/ pc = "down"
=============================================================================
