-------------------------- MODULE ExportExactProofs --------------------------
(***************************************************************************)
(* What is in the file of a call that no notification overlaps: exactly    *)
(* the state, or the changes, of the block in its header.  The theorems    *)
(* join what StateExportProofs says of the calls to what TrackingProofs    *)
(* says of the stores.                                                     *)
(***************************************************************************)
EXTENDS StateExportProofs, TrackingProofs

----------------------------------------------------------------------------
(* The head record of the key index.                                         *)

\* Every commit is flushed, and the process does not stop between the two head
\* records of a flush.
HeadsTogether ==
    /\ FlushInterval = 1
    /\ "flushIndexHead" \notin CrashPoint

\* The key index keeps its head when blocks are reverted and when the process is
\* shut down.  It is then that of a block above MDBX's, which no other block of
\* that number can have replaced without a flush of its own.
IndexHeadInv ==
    /\ kiHead # NoHead =>
        /\ kiHead.block = Len(kiHead.hash)
        /\ \/ pc = "flushIndexHead"
           \/ kiHead.hash = SavedHash
           \/ Len(kiHead.hash) > Len(SavedHash)
    /\ pc \in Reverted => job.lo <= Len(SavedHash)

LEMMA IndexHeadInit == Init => IndexHeadInv
BY DEF Init, IndexHeadInv, Reverted

LEMMA IndexHeadMoves ==
    ASSUME [Next]_vars PROVE kiHead' = kiHead \/ FlushIndexHead
<1>1. CASE NodeStep
  BY <1>1 DEF NodeStep, NodeUnwinds, NodeExtends, Notify, keyIndex
<1>2. CASE Revert
  BY <1>2 DEF Revert, RevertNomt, RevertBlock, RevertLastBlock, RevertStems, RevertHead,
              keyIndex
<1>3. CASE Commit
  BY <1>3 DEF Commit, CommitNomt, CommitOverlay, CommitIndex, CommitDeltas, FlushStems,
              FlushHead, Prune, Ack, keyIndex
<1>4. CASE StopOrStart
  BY <1>4 DEF StopOrStart, Crash, Shutdown, ShutdownStems, ShutdownHead,
              RestartRefused, Restart, keyIndex
<1> QED
  BY <1>1, <1>2, <1>3, <1>4 DEF Next, vars, keyIndex

\* With every commit flushed, MDBX is at the last block outside the handlers.
LEMMA SavedIsLast ==
    ASSUME HeadsTogether, TypeInv, SavedInv,
           pc \notin Stopped \cup Reverted \cup {"flushStems", "flushHead"}
    PROVE  lastHash = SavedHash
<1>1. /\ lastHash \in Chain /\ SavedHash \in Chain
      /\ Len(lastHash) \in Nat /\ Len(SavedHash) \in Nat
  BY Ranges
<1>2. Continues(lastHash, SavedHash) /\ Len(lastHash) < Len(SavedHash) + 1
  BY DEF SavedInv, HeadsTogether
<1>3. Len(lastHash) = Len(SavedHash)
  BY <1>1, <1>2 DEF Continues
<1> QED
  BY <1>1, <1>2, <1>3, SameChain DEF Continues

\* What pc says of the steps that leave both heads alone.
LEMMA RevertedLater ==
    ASSUME TypeInv, SavedInv, IndexHeadInv, [Next]_vars, SavedHash' = SavedHash,
           pc' \in Reverted
    PROVE  job'.lo <= Len(SavedHash')
<1> USE DEF Reverted
<1>1. CASE NodeStep
  BY <1>1 DEF NodeStep, NodeUnwinds, NodeExtends, Notify
<1>2. CASE RevertNomt \/ RevertBlock
  BY <1>2 DEF RevertNomt, RevertBlock
<1>3. CASE RevertLastBlock
  <2>1. pc = "revertBlock" /\ job'.lo = job.lo
    BY <1>3 DEF RevertLastBlock, TypeInv, TypeOK
  <2>2. job.lo <= lastPersistedBlock
    BY <1>3 DEF RevertLastBlock, RevertedPersisted, AfterRevert
  <2>3. lastPersistedBlock = Len(SavedHash)
    BY <2>1 DEF SavedInv, Stopped
  <2> QED
    BY <2>1, <2>2, <2>3
<1>4. CASE RevertStems
  BY <1>4 DEF RevertStems, IndexHeadInv
<1>5. CASE RevertHead
  BY <1>5 DEF RevertHead, AfterRevert
<1>6. CASE Commit
  BY <1>6 DEF Commit, CommitNomt, CommitOverlay, CommitIndex, CommitDeltas, FlushStems,
              FlushHead, FlushIndexHead, Prune, Ack
<1>7. CASE StopOrStart
  BY <1>7 DEF StopOrStart, Crash, Stop, Shutdown, ShutdownStems, ShutdownHead,
              RestartRefused, Restart
<1>8. CASE UNCHANGED vars
  BY <1>8 DEF vars, IndexHeadInv
<1> QED
  BY <1>1, <1>2, <1>3, <1>4, <1>5, <1>6, <1>7, <1>8 DEF Next, Revert

LEMMA IndexHeadStep ==
    ASSUME HeadsTogether, TypeInv, TrackInv, IndexHeadInv, [Next]_vars
    PROVE  IndexHeadInv'
<1>a. /\ Len(lastHash) \in Nat /\ Len(SavedHash) \in Nat /\ job.lo \in Nat \ {0}
      /\ lastBlock = Len(lastHash) /\ ShapeInv /\ SavedInv
  BY Ranges DEF TrackInv
<1>b. kiHead # NoHead => Len(kiHead.hash) \in Nat
  <2>1. kiHead # NoHead => kiHead.hash \in Chain
    BY DEF TypeInv, TypeOK, UbtHead
  <2> QED
    BY <2>1, ChainLen
<1>1. CASE FlushIndexHead
  <2>1. pc = "flushIndexHead" /\ pc' \notin Reverted
    BY <1>1 DEF FlushIndexHead, Reverted
  <2>2. kiHead'.block = lastBlock /\ kiHead'.hash = lastHash
    BY <1>1 DEF FlushIndexHead, MemoryHead
  <2>3. lastHash = SavedHash /\ SavedHash' = SavedHash
    BY <1>a, <1>1, <2>1 DEF SavedInv, FlushIndexHead, SavedHash, LoadedHead, mdbx
  <2> QED
    BY <1>a, <2>1, <2>2, <2>3 DEF IndexHeadInv
<1>2. CASE kiHead' = kiHead /\ SavedHash' = SavedHash /\ pc # "flushIndexHead"
  BY <1>2, <1>a, RevertedLater DEF IndexHeadInv
<1>3. CASE kiHead' = kiHead /\ SavedHash' = SavedHash /\ pc = "flushIndexHead" /\ ~FlushIndexHead
  <2>1. CASE Crash
    BY <1>3, <2>1 DEF Crash, HeadsTogether
  <2>2. CASE NodeStep
    BY <1>3, <2>2 DEF NodeStep, NodeUnwinds, NodeExtends, Notify
  <2>3. CASE Revert
    BY <1>3, <2>3 DEF Revert, RevertNomt, RevertBlock, RevertLastBlock, RevertStems, RevertHead
  <2>4. CASE Commit
    BY <1>3, <2>4 DEF Commit, CommitNomt, CommitOverlay, CommitIndex, CommitDeltas, FlushStems,
                      FlushHead, Prune, Ack
  <2>5. CASE StopOrStart /\ ~Crash
    BY <1>3, <2>5 DEF StopOrStart, Shutdown, ShutdownStems, ShutdownHead,
                      RestartRefused, Restart, Stopped
  <2>6. CASE UNCHANGED vars
    BY <1>3, <2>6 DEF vars, IndexHeadInv, Reverted
  <2> QED
    BY <2>1, <2>2, <2>3, <2>4, <2>5, <2>6 DEF Next
<1>4. CASE RevertHead /\ SavedHash' = lastHash
  <2>1. pc = "revertHead" /\ pc' \notin Reverted /\ kiHead' = kiHead
    BY <1>4 DEF RevertHead, AfterRevert, Reverted, keyIndex
  <2>2. Len(lastHash) = job.lo - 1 /\ job.lo <= Len(SavedHash)
    BY <1>a, <2>1 DEF ShapeInv, IndexHeadInv, Reverted
  <2>3. Len(SavedHash') < Len(SavedHash)
    BY <1>4, <1>a, <2>2
  <2>4. kiHead # NoHead => Len(kiHead.hash) > Len(SavedHash')
    BY <1>a, <1>b, <1>4, <2>1, <2>3 DEF IndexHeadInv
  <2> QED
    BY <2>1, <2>4 DEF IndexHeadInv
<1>5. CASE FlushHead
  BY <1>5 DEF FlushHead, IndexHeadInv, Reverted, keyIndex
<1>6. CASE ShutdownHead /\ SavedHash' = lastHash
  <2>1. pc = "shutHead" /\ pc' = "down" /\ kiHead' = kiHead
    BY <1>6 DEF ShutdownHead, keyIndex
  <2>2. lastHash = SavedHash
    BY <1>a, <2>1, SavedIsLast DEF Stopped, Reverted
  <2> QED
    BY <1>6, <2>1, <2>2 DEF IndexHeadInv, Reverted
<1> QED
  BY <1>1, <1>2, <1>3, <1>4, <1>5, <1>6, HeadMoves, IndexHeadMoves

\* Between two notifications, a head that has NOMT's number is that of its chain.
LEMMA SyncedHead ==
    ASSUME HeadsTogether, TypeInv, TrackInv, IndexHeadInv, pc = "idle",
           kiHead # NoHead, kiHead.block = nomtHead
    PROVE  nomtState = StateAt(kiHead.hash)
<1>1. lastHash \in Chain /\ Len(lastHash) \in Nat /\ Len(SavedHash) \in Nat
  BY Ranges
<1>2. lastHash = SavedHash
  BY SavedIsLast DEF TrackInv, Stopped, Reverted
<1>3. nomtState = StateAt(lastHash) /\ nomtHead = Len(lastHash)
  BY <1>1, StateAtIs DEF TrackInv, NomtInv, NomtAt, LogOf, Stopped, NomtFirst
<1>4. kiHead.hash = SavedHash
  BY <1>1, <1>2, <1>3 DEF IndexHeadInv
<1> QED
  BY <1>2, <1>3, <1>4

----------------------------------------------------------------------------
(* What a call has read.                                                     *)

Opening == {"none", "nomtHead", "indexHead", "exportHead", "stems",
            "mdbxHead", "mdbxStems", "deltas"}
FromMdbx == call.kind \in {"mdbxState", "mdbxContract"}
OfDeltas == call.kind = "delta"

\* Which reads each kind of call makes, and when the file is still empty.
RouteInv ==
    /\ at \in {"exportHead", "stems", "leaves"} => FromNomt
    /\ at \in {"nomtHead", "indexHead"} => FromNomt \/ OfDeltas
    /\ at \in {"deltas", "values"} => OfDeltas
    /\ at = "mdbxHead" => OfDeltas \/ FromMdbx
    /\ at = "mdbxStems" => FromMdbx
    /\ at \in Opening => file = EmptyPatch
    /\ at \in Opening \ {"deltas"} => todo = {}
    /\ at = "answered" => todo = {}

LEMMA RouteInit == ExportInit => RouteInv
BY DEF ExportInit, Silent, RouteInv

LEMMA RouteHangUp == HangUp => RouteInv'
BY DEF HangUp, RouteInv

LEMMA RouteStep ==
    ExportTypeOK /\ RouteInv /\ [ExportNext]_<<vars, exportVars>> => RouteInv'
<1> SUFFICES ASSUME ExportTypeOK, RouteInv, [ExportNext]_<<vars, exportVars>> PROVE RouteInv'
  OBVIOUS
<1> USE DEF RouteInv, Opening, FromNomt, FromMdbx, OfDeltas
<1>1. ASSUME NEW c \in Calls, Ask(c) PROVE RouteInv'
  <2>1. c.kind \in {"state", "contract", "delta", "mdbxState", "mdbxContract"}
    BY DEF Calls, Call
  <2> QED
    BY <1>1, <2>1 DEF Ask, reply
<1>2. CASE ReadNomtHead \/ EnsureNomtSynced \/ ReadIndexHead \/ ForEachStem
  BY <1>2 DEF ReadNomtHead, EnsureNomtSynced, ReadIndexHead, ForEachStem
<1>3. CASE ReadNomtValue \/ ReadDeltaLeaf
  <2>1. at \in {"leaves", "values"} /\ at' \in {at, "noAddress"} /\ UNCHANGED call
    BY <1>3 DEF ReadNomtValue, ReadDeltaLeaf
  <2> QED
    BY <2>1
<1>4. CASE ReadMdbxHead
  <2>1. call.kind \in {"delta", "mdbxState", "mdbxContract"}
    BY <1>4 DEF ReadMdbxHead
  <2> QED
    BY <1>4, <2>1 DEF ReadMdbxHead
<1>5. CASE LoadBlockDeltas
  <2>1. at = "deltas" /\ at' \in {"deltas", "values"} /\ UNCHANGED <<call, file>>
    BY <1>5 DEF LoadBlockDeltas
  <2> QED
    BY <2>1
<1>6. CASE IterStems
  <2>1. at = "mdbxStems" /\ at' \in {"answered", "noAddress"} /\ UNCHANGED <<call, todo>>
    BY <1>6 DEF IterStems
  <2> QED
    BY <2>1
<1>7. CASE Finish
  BY <1>7 DEF Finish, reply
<1>8. CASE HangUp
  BY <1>8, RouteHangUp
<1>9. CASE UNCHANGED <<call, at, reply>>
  BY <1>9 DEF reply
<1> QED
  BY <1>1, <1>2, <1>3, <1>4, <1>5, <1>6, <1>7, <1>8, <1>9
  DEF ExportNext, ExportStep, ExExStep, Refuse, Deliver, exportVars

\* A leaf that is in a file has the value that it has in a store.
FileWithin(state) == \A s \in Stem, i \in SubIndex : file[s][i] \in {NoWrite, state[s][i]}

\* The leaves that a record of a block changes are in the file, or on the way into it.
RecordRead(b) ==
    \A s \in Stem, i \in SubIndex :
        mdbxDeltas[b][s][i] # NoWrite => <<s, i>> \in todo \/ file[s][i] # NoWrite

\* What a call has read is still so if no step of the ExEx came between.
CalmNomt ==
    /\ at = "indexHead" => seen = nomtHead
    /\ FromNomt /\ at \in {"exportHead", "stems", "leaves", "answered"}
        => kiHead # NoHead /\ kiHead.block = nomtHead
    /\ FromNomt /\ at \in {"stems", "leaves", "answered"} => head = kiHead
    /\ FromNomt => FileWithin(nomtState)

CalmMdbx ==
    /\ FromMdbx /\ at \in {"mdbxStems", "answered"} => head = mdbxHead /\ mdbxHead # NoHead
    /\ FromMdbx /\ at = "answered" =>
        \A s \in Wanted, i \in SubIndex :
            file[s][i] = IF StateOf(mdbxStems)[s][i] # Zero THEN StateOf(mdbxStems)[s][i]
                                                            ELSE NoWrite

CalmDeltas ==
    OfDeltas /\ at \in {"deltas", "values", "answered"} =>
        /\ head = mdbxHead /\ mdbxHead # NoHead
        /\ call.to <= mdbxHead.block
        /\ FileWithin(StateOf(mdbxStems))
        /\ at = "deltas" => call.from <= cursor /\ cursor <= call.to
        /\ \A b \in RangeBlocks : (at = "deltas" => b < cursor) => RecordRead(b)

CalmInv == calm => pc = "idle" /\ CalmNomt /\ CalmMdbx /\ CalmDeltas

LEMMA CalmInit == ExportInit => CalmInv
BY DEF ExportInit, Silent, CalmInv

LEMMA EmptyWithin == ASSUME file = EmptyPatch, NEW state PROVE FileWithin(state)
BY DEF FileWithin, EmptyPatch

\* One leaf is looked up.
LEMMA LeafRead ==
    ASSUME ExportTypeOK, NEW state \in State, FileWithin(state), NEW l \in todo,
           todo' = todo \ {l},
           file' = [file EXCEPT ![l[1]][l[2]] = state[l[1]][l[2]]]
    PROVE  /\ \A s \in Stem, i \in SubIndex : file'[s][i] \in {NoWrite, state[s][i]}
           /\ \A s \in Stem, i \in SubIndex :
                <<s, i>> \in todo \/ file[s][i] # NoWrite
                    => <<s, i>> \in todo' \/ file'[s][i] # NoWrite
<1>1. l[1] \in Stem /\ l[2] \in SubIndex /\ l = <<l[1], l[2]>>
  BY DEF ExportTypeOK
<1>2. state[l[1]][l[2]] # NoWrite
  BY <1>1, TreeAssumption DEF State, Node
<1>3. ASSUME NEW s \in Stem, NEW i \in SubIndex
      PROVE  file'[s][i] = IF s = l[1] /\ i = l[2] THEN state[s][i] ELSE file[s][i]
  BY <1>1 DEF ExportTypeOK, Patch
<1>4. ASSUME NEW s \in Stem, NEW i \in SubIndex, <<s, i>> \in todo \/ file[s][i] # NoWrite
      PROVE  <<s, i>> \in todo' \/ file'[s][i] # NoWrite
  <2>1. CASE s = l[1] /\ i = l[2]
    BY <1>2, <1>3, <2>1
  <2>2. CASE ~(s = l[1] /\ i = l[2])
    <3>1. file'[s][i] = file[s][i] /\ <<s, i>> # l
      BY <1>1, <1>3, <2>2
    <3> QED
      BY <1>4, <3>1
  <2> QED
    BY <2>1, <2>2
<1> QED
  BY <1>3, <1>4 DEF FileWithin

\* The reads of an export from NOMT.
LEMMA CalmNomtStep ==
    ASSUME TypeInv, ExportTypeOK, RouteInv, CalmNomt, ExportStep, UNCHANGED vars
    PROVE  CalmNomt'
<1> USE DEF CalmNomt, FromNomt
<1>a. UNCHANGED <<kiHead, nomtHead, nomtState>>
  BY DEF vars, keyIndex, nomt
<1>1. ASSUME NEW c \in Calls, Ask(c) PROVE CalmNomt'
  <2>1. at = "none" /\ at' \in {"mdbxHead", "nomtHead"} /\ file' = file
    BY <1>1 DEF Ask, reply
  <2>2. file = EmptyPatch
    BY <2>1 DEF RouteInv, Opening
  <2> QED
    BY <2>1, <2>2 DEF FileWithin, EmptyPatch
<1>2. CASE ReadNomtHead
  BY <1>2, <1>a DEF ReadNomtHead, FileWithin
<1>3. CASE EnsureNomtSynced
  BY <1>3, <1>a DEF EnsureNomtSynced, Synced, FileWithin
<1>4. CASE ReadIndexHead \/ ForEachStem
  BY <1>4, <1>a DEF ReadIndexHead, ForEachStem, FileWithin
<1>5. CASE Finish
  <2>1. at \in {"leaves", "values"} /\ at' = "answered" /\ UNCHANGED <<call, head, file>>
    BY <1>5 DEF Finish, reply
  <2>2. FromNomt => at = "leaves"
    BY <2>1 DEF RouteInv, OfDeltas
  <2> QED
    BY <1>a, <2>1, <2>2 DEF FileWithin
<1>6. CASE ReadNomtValue
  <2>1. PICK l \in todo : /\ todo' = todo \ {l}
                          /\ file' = [file EXCEPT ![l[1]][l[2]] = nomtState[l[1]][l[2]]]
    BY <1>6 DEF ReadNomtValue
  <2>2. at = "leaves" /\ FromNomt /\ UNCHANGED <<at, call, head>>
    BY <1>6 DEF ReadNomtValue, RouteInv
  <2>3. nomtState \in State
    BY DEF TypeInv, TypeOK
  <2>4. FileWithin(nomtState)'
    BY <1>a, <2>1, <2>2, <2>3, LeafRead DEF FileWithin
  <2> QED
    BY <1>a, <2>2, <2>4
<1>7. CASE ReadMdbxHead \/ LoadBlockDeltas \/ ReadDeltaLeaf \/ IterStems
  <2>1. /\ at \in {"mdbxHead", "deltas", "values", "mdbxStems"}
        /\ at' \in {"mdbxStems", "deltas", "values", "noAddress", "answered"}
        /\ UNCHANGED call
    BY <1>7 DEF ReadMdbxHead, LoadBlockDeltas, ReadDeltaLeaf, IterStems
  <2>2. ~FromNomt
    BY <2>1 DEF RouteInv, OfDeltas, FromMdbx
  <2> QED
    BY <2>1, <2>2
<1>8. CASE HangUp
  BY <1>8 DEF HangUp, FileWithin, EmptyPatch
<1> QED
  BY <1>1, <1>2, <1>3, <1>4, <1>5, <1>6, <1>7, <1>8 DEF ExportStep, Refuse, Deliver

\* The reads of an export from MDBX.
LEMMA CalmMdbxStep ==
    ASSUME TypeInv, ExportTypeOK, RouteInv, CalmMdbx, ExportStep, UNCHANGED vars
    PROVE  CalmMdbx'
<1> USE DEF CalmMdbx, FromMdbx
<1>a. UNCHANGED <<mdbxHead, mdbxStems>>
  BY DEF vars, mdbx
<1>1. ASSUME NEW c \in Calls, Ask(c) PROVE CalmMdbx'
  BY <1>1 DEF Ask
<1>2. CASE ReadMdbxHead
  BY <1>2, <1>a DEF ReadMdbxHead
<1>3. CASE IterStems
  <2>1. at = "mdbxStems" /\ at' \in {"answered", "noAddress"} /\ UNCHANGED <<call, head>>
    BY <1>3 DEF IterStems
  <2>2. Wanted' = Wanted /\ Wanted \subseteq Stem
    BY <2>1, ExportAssumption DEF Wanted
  <2>3. ASSUME at' = "answered", NEW s \in Wanted, NEW i \in SubIndex
        PROVE  file'[s][i] = IF StateOf(mdbxStems)[s][i] # Zero THEN StateOf(mdbxStems)[s][i]
                                                                ELSE NoWrite
    BY <1>3, <2>2, <2>3 DEF IterStems, StateOf
  <2> QED
    BY <1>a, <2>1, <2>2, <2>3
<1>4. CASE Finish
  <2>1. at \in {"leaves", "values"} /\ call' = call
    BY <1>4 DEF Finish
  <2> QED
    BY <2>1 DEF RouteInv, FromNomt, OfDeltas
<1>5. CASE \/ ReadNomtHead \/ EnsureNomtSynced \/ ReadIndexHead \/ ForEachStem
           \/ ReadNomtValue \/ LoadBlockDeltas \/ ReadDeltaLeaf
  <2>1. /\ at' \notin {"mdbxStems", "answered"} \/ at' = at
        /\ at \in {"nomtHead", "indexHead", "exportHead", "stems", "leaves", "deltas", "values"}
    BY <1>5 DEF ReadNomtHead, EnsureNomtSynced, ReadIndexHead, ForEachStem, ReadNomtValue,
                LoadBlockDeltas, ReadDeltaLeaf
  <2> QED
    BY <2>1
<1>6. CASE HangUp
  BY <1>6 DEF HangUp
<1> QED
  BY <1>1, <1>2, <1>3, <1>4, <1>5, <1>6 DEF ExportStep, Refuse, Deliver

\* The reads of get_state_delta.
LEMMA CalmDeltasStep ==
    ASSUME TypeInv, ExportTypeOK, RouteInv, CalmDeltas, ExportStep, UNCHANGED vars
    PROVE  CalmDeltas'
<1> USE DEF OfDeltas
<1>a. UNCHANGED <<mdbxHead, mdbxStems, mdbxDeltas>>
  BY DEF vars, mdbx
<1>b. /\ call.from \in Nat /\ call.to \in Nat /\ cursor \in Nat
      /\ \A b \in RangeBlocks : b \in BlockNumber /\ b \in Nat /\ call.from <= b /\ b <= call.to
  BY UbtAssumption DEF ExportTypeOK, Call, RangeBlocks, BlockNumber
<1>c. StateOf(mdbxStems) \in State
  BY StateOfType DEF TypeInv, TypeOK
<1>1. CASE ReadMdbxHead
  <2>1. /\ at = "mdbxHead" /\ mdbxHead # NoHead /\ head' = mdbxHead /\ cursor' = call.from
        /\ UNCHANGED <<call, file, todo>>
        /\ call.kind = "delta" => InWindow(mdbxHead)
    BY <1>1 DEF ReadMdbxHead
  <2>2. file = EmptyPatch
    BY <2>1 DEF RouteInv, Opening
  <2>3. call.kind = "delta" => at' = "deltas" /\ call.from <= call.to /\ call.to <= mdbxHead.block
    BY <1>1 DEF ReadMdbxHead, InWindow
  <2>4. \A b \in RangeBlocks : ~(b < call.from)
    BY <1>b
  <2>5. RangeBlocks' = RangeBlocks
    BY <2>1 DEF RangeBlocks
  <2>6. FileWithin(StateOf(mdbxStems))'
    BY <2>1, <2>2 DEF FileWithin, EmptyPatch
  <2> QED
    BY <1>a, <1>b, <2>1, <2>3, <2>4, <2>5, <2>6 DEF CalmDeltas
<1>2. CASE LoadBlockDeltas
  <2>1. /\ at = "deltas" /\ OfDeltas /\ UNCHANGED <<call, seen, head, file>>
        /\ todo \subseteq todo'
        /\ cursor \in BlockNumber =>
             {l \in Stem \X SubIndex : mdbxDeltas[cursor][l[1]][l[2]] # NoWrite} \subseteq todo'
        /\ \/ cursor < call.to /\ cursor' = cursor + 1 /\ at' = at
           \/ ~(cursor < call.to) /\ at' = "values"
    BY <1>2 DEF LoadBlockDeltas, RouteInv
  <2>2. /\ head = mdbxHead /\ mdbxHead # NoHead /\ call.to <= mdbxHead.block
        /\ FileWithin(StateOf(mdbxStems)) /\ call.from <= cursor /\ cursor <= call.to
        /\ \A b \in RangeBlocks : b < cursor => RecordRead(b)
    BY <2>1 DEF CalmDeltas
  <2>3. ASSUME NEW b \in RangeBlocks, b <= cursor
        PROVE  RecordRead(b)'
    <3>1. CASE b < cursor
      <4>1. RecordRead(b)
        BY <2>2, <3>1
      <4> QED
        BY <1>a, <2>1, <4>1 DEF RecordRead
    <3>2. CASE ~(b < cursor)
      <4>1. b = cursor /\ cursor \in BlockNumber
        BY <1>b, <2>3, <3>2
      <4>2. ASSUME NEW s \in Stem, NEW i \in SubIndex, mdbxDeltas[b][s][i] # NoWrite
            PROVE  <<s, i>> \in todo'
        BY <2>1, <4>1, <4>2
      <4> QED
        BY <1>a, <4>2 DEF RecordRead
    <3> QED
      BY <3>1, <3>2
  <2>4. RangeBlocks' = RangeBlocks
    BY <2>1 DEF RangeBlocks
  <2>5. FileWithin(StateOf(mdbxStems))'
    BY <1>a, <2>1, <2>2 DEF FileWithin
  <2>6. CASE cursor < call.to /\ cursor' = cursor + 1 /\ at' = at
    <3>1. \A b \in RangeBlocks : b < cursor' => b <= cursor
      BY <1>b, <2>6
    <3>2. call.from <= cursor' /\ cursor' <= call.to
      BY <1>b, <2>2, <2>6
    <3>3. \A b \in RangeBlocks' : b < cursor' => RecordRead(b)'
      BY <2>3, <2>4, <3>1
    <3>4. head' = mdbxHead' /\ mdbxHead' # NoHead /\ call'.to <= mdbxHead'.block
      BY <1>a, <2>1, <2>2
    <3> QED
      BY <2>1, <2>5, <2>6, <3>2, <3>3, <3>4 DEF CalmDeltas
  <2>7. CASE ~(cursor < call.to) /\ at' = "values"
    <3>1. \A b \in RangeBlocks : b <= cursor
      BY <1>b, <2>7
    <3> QED
      BY <1>a, <2>1, <2>2, <2>3, <2>4, <2>5, <2>7, <3>1 DEF CalmDeltas
  <2> QED
    BY <2>1, <2>6, <2>7
<1>3. CASE ReadDeltaLeaf /\ at' = at
  <2>1. PICK l \in todo :
          /\ todo' = todo \ {l}
          /\ file' = [file EXCEPT ![l[1]][l[2]] = NodeOf(mdbxStems[l[1]])[l[2]]]
    BY <1>3 DEF ReadDeltaLeaf
  <2>2. l[1] \in Stem
    BY DEF ExportTypeOK
  <2>3. file' = [file EXCEPT ![l[1]][l[2]] = StateOf(mdbxStems)[l[1]][l[2]]]
    BY <2>1, <2>2 DEF StateOf
  <2>4. at = "values" /\ OfDeltas /\ UNCHANGED <<call, head>>
    BY <1>3 DEF ReadDeltaLeaf, RouteInv
  <2>5. /\ head = mdbxHead /\ mdbxHead # NoHead /\ call.to <= mdbxHead.block
        /\ FileWithin(StateOf(mdbxStems)) /\ \A b \in RangeBlocks : RecordRead(b)
    BY <2>4 DEF CalmDeltas
  <2>6. FileWithin(StateOf(mdbxStems))'
    BY <1>a, <1>c, <2>1, <2>3, <2>5, LeafRead DEF FileWithin
  <2>7. \A s \in Stem, i \in SubIndex :
            <<s, i>> \in todo \/ file[s][i] # NoWrite
                => <<s, i>> \in todo' \/ file'[s][i] # NoWrite
    BY <1>c, <2>1, <2>3, <2>5, LeafRead
  <2>8. \A b \in RangeBlocks : RecordRead(b)'
    BY <1>a, <2>5, <2>7 DEF RecordRead
  <2>9. RangeBlocks' = RangeBlocks
    BY <2>4 DEF RangeBlocks
  <2> QED
    BY <1>3, <1>a, <2>4, <2>5, <2>6, <2>8, <2>9 DEF CalmDeltas
<1>4. CASE Finish
  <2>1. at \in {"leaves", "values"} /\ UNCHANGED <<call, head, todo, file>>
        /\ at' = "answered"
    BY <1>4 DEF Finish, reply
  <2>2. OfDeltas => at = "values"
    BY <2>1 DEF RouteInv, FromNomt
  <2>3. RangeBlocks' = RangeBlocks
    BY <2>1 DEF RangeBlocks
  <2> QED
    BY <1>a, <2>1, <2>2, <2>3 DEF CalmDeltas, FileWithin, RecordRead
<1>5. CASE \/ ReadNomtHead \/ EnsureNomtSynced \/ ReadIndexHead \/ ForEachStem
           \/ ReadNomtValue \/ IterStems \/ (ReadDeltaLeaf /\ at' # at)
  <2>1. /\ at' \notin {"deltas", "values"} /\ (at' = "answered" => at = "mdbxStems")
        /\ UNCHANGED call
    BY <1>5 DEF ReadNomtHead, EnsureNomtSynced, ReadIndexHead, ForEachStem, ReadNomtValue,
                IterStems, ReadDeltaLeaf
  <2>2. at = "mdbxStems" => ~OfDeltas
    BY DEF RouteInv, FromMdbx
  <2> QED
    BY <2>1, <2>2 DEF CalmDeltas
<1>6. CASE HangUp
  BY <1>6 DEF HangUp, CalmDeltas
<1>7. ASSUME NEW c \in Calls, Ask(c) PROVE CalmDeltas'
  BY <1>7 DEF Ask, CalmDeltas
<1> QED
  BY <1>1, <1>2, <1>3, <1>4, <1>5, <1>6, <1>7 DEF ExportStep, Refuse, Deliver

\* When a call comes in, nothing has been read.
LEMMA CalmAsk ==
    ASSUME RouteInv, NEW c \in Calls, Ask(c), UNCHANGED vars PROVE CalmInv'
<1>1. at = "none" /\ at' \in {"mdbxHead", "nomtHead"} /\ file' = file /\ calm' = (pc = "idle")
  BY DEF Ask, reply
<1>2. file = EmptyPatch
  BY <1>1 DEF RouteInv, Opening
<1>3. CalmNomt' /\ CalmMdbx' /\ CalmDeltas'
  BY <1>1, <1>2 DEF CalmNomt, CalmMdbx, CalmDeltas, FileWithin, EmptyPatch
<1>4. pc' = pc
  BY DEF vars
<1> QED
  BY <1>1, <1>3, <1>4 DEF CalmInv

LEMMA CalmStep ==
    TypeInv /\ ExportTypeOK /\ RouteInv /\ CalmInv /\ [ExportNext]_<<vars, exportVars>>
        => CalmInv'
<1> SUFFICES ASSUME TypeInv, ExportTypeOK, RouteInv, CalmInv,
                    [ExportNext]_<<vars, exportVars>>
             PROVE  CalmInv'
  OBVIOUS
<1>1. CASE ExExStep
  BY <1>1 DEF ExExStep, HangUp, CalmInv
<1>2. CASE ExportStep /\ UNCHANGED vars
  <2>1. ASSUME NEW c \in Calls, Ask(c) PROVE CalmInv'
    BY <1>2, <2>1, CalmAsk
  <2>2. CASE calm' = FALSE
    BY <2>2 DEF CalmInv
  <2>3. CASE calm' = calm
    <3>1. pc' = pc
      BY <1>2 DEF vars
    <3> QED
      BY <1>2, <2>3, <3>1, CalmNomtStep, CalmMdbxStep, CalmDeltasStep DEF CalmInv
  <2>4. (\E c \in Calls : Ask(c)) \/ calm' = FALSE \/ calm' = calm
    BY <1>2 DEF ExportStep, ReadNomtHead, EnsureNomtSynced, ReadIndexHead, ForEachStem,
                ReadNomtValue, ReadMdbxHead, LoadBlockDeltas, ReadDeltaLeaf, IterStems,
                Finish, Refuse, Deliver, HangUp
  <2> QED
    BY <2>1, <2>2, <2>3, <2>4
<1>3. CASE UNCHANGED <<vars, exportVars>>
  <2>1. /\ UNCHANGED <<pc, kiHead, nomtHead, nomtState, mdbxHead, mdbxStems, mdbxDeltas>>
        /\ UNCHANGED <<call, at, seen, head, cursor, todo, file, calm>>
    BY <1>3 DEF vars, mdbx, nomt, keyIndex, exportVars, reply
  <2> QED
    BY <2>1 DEF CalmInv, CalmNomt, CalmMdbx, CalmDeltas, FromNomt, FromMdbx, OfDeltas,
                FileWithin, RecordRead, RangeBlocks, Wanted
<1> QED
  BY <1>1, <1>2, <1>3 DEF ExportNext

LEMMA CallsRouted == ExportSpec => []RouteInv
BY RouteInit, RouteStep, ExportTypeCorrect, PTL DEF ExportSpec

LEMMA CallsCalm == ExportSpec => []CalmInv
BY CalmInit, CalmStep, CallsRouted, ExportTypeCorrect, ExportsOnlyRead, TypeInvariant, PTL
DEF ExportSpec

----------------------------------------------------------------------------
(* The theorems.                                                             *)

\* The file of an undisturbed export from NOMT has the state of the block in its
\* header, if every commit is flushed: header, keys and values come from three
\* places, which revert, shutdown and new treat differently (rpc.rs, the exports).
THEOREM CalmExportsExact ==
    ASSUME SafeParameters, HeadsTogether
    PROVE  ExportSpec => []CalmExportExact
<1>1. Spec => []IndexHeadInv
  BY IndexHeadInit, IndexHeadStep, TypeInvariant, TrackInvariant, PTL DEF Spec
<1>2. ASSUME TypeInv, TrackInv, IndexHeadInv, ExportTypeOK, CalmInv, ExportCoversHead
      PROVE  CalmExportExact
  <2> SUFFICES ASSUME Answered({"state", "contract"}), calm, NEW s \in Wanted
               PROVE  FileOf(s) = StateAt(head.hash)[s]
    BY DEF CalmExportExact
  <2>1. /\ at = "answered" /\ FromNomt /\ pc = "idle"
        /\ kiHead # NoHead /\ kiHead.block = nomtHead /\ head = kiHead
        /\ FileWithin(nomtState)
    BY <1>2 DEF Answered, FromNomt, CalmInv, CalmNomt
  <2>2. nomtState = StateAt(head.hash)
    BY <1>2, <2>1, SyncedHead
  <2>3. s \in Stem
    BY ExportAssumption DEF Wanted
  <2>4. StateAt(head.hash) \in State
    BY <1>2, <2>2 DEF TypeInv, TypeOK
  <2>5. ASSUME NEW i \in SubIndex
        PROVE  (IF file[s][i] = NoWrite THEN Zero ELSE file[s][i]) = StateAt(head.hash)[s][i]
    <3>1. StateAt(head.hash)[s][i] # Zero => file[s][i] # NoWrite
      BY <1>2 DEF ExportCoversHead
    <3>2. file[s][i] \in {NoWrite, StateAt(head.hash)[s][i]}
      BY <2>1, <2>2, <2>3 DEF FileWithin
    <3> QED
      BY <3>1, <3>2
  <2>6. FileOf(s) = [i \in SubIndex |-> IF file[s][i] = NoWrite THEN Zero ELSE file[s][i]]
    BY DEF FileOf, PatchNode, EmptyNode
  <2>7. StateAt(head.hash)[s] = [i \in SubIndex |-> StateAt(head.hash)[s][i]]
    BY <2>3, <2>4 DEF State, Node
  <2> QED
    BY <2>5, <2>6, <2>7
<1>3. ExportSpec => []ExportCoversHead
  BY ExportsCoverHead DEF SafeParameters
<1> QED
  BY <1>1, <1>2, <1>3, CallsCalm, ExportTypeCorrect, ExportsOnlyRead, TypeInvariant,
     TrackInvariant, PTL

\* The file of an undisturbed export from MDBX has the state of the block in its
\* header, at any flush interval (pir_export.rs, the exports from UbtDatabase).
THEOREM MdbxExportsExact ==
    ASSUME SafeParameters
    PROVE  ExportSpec => []MdbxExportExact
<1>1. ASSUME TypeInv, TrackInv, CalmInv PROVE MdbxExportExact
  <2> SUFFICES ASSUME Answered({"mdbxState", "mdbxContract"}), calm, NEW s \in Wanted
               PROVE  FileOf(s) = StateAt(head.hash)[s]
    BY DEF MdbxExportExact
  <2>1. /\ pc = "idle" /\ head = mdbxHead /\ mdbxHead # NoHead
        /\ \A i \in SubIndex :
             file[s][i] = IF StateOf(mdbxStems)[s][i] # Zero THEN StateOf(mdbxStems)[s][i]
                                                             ELSE NoWrite
    BY <1>1 DEF Answered, FromMdbx, CalmInv, CalmMdbx
  <2>2. StateOf(mdbxStems) = StateAt(head.hash)
    BY <1>1, <2>1 DEF TrackInv, SavedInv, TornSteps, SavedHash, LoadedHead
  <2>3. s \in Stem
    BY ExportAssumption DEF Wanted
  <2>4. StateOf(mdbxStems) \in State
    BY <1>1, StateOfType DEF TypeInv, TypeOK
  <2>5. ASSUME NEW i \in SubIndex
        PROVE  (IF file[s][i] = NoWrite THEN Zero ELSE file[s][i]) = StateOf(mdbxStems)[s][i]
    <3>1. StateOf(mdbxStems)[s][i] # NoWrite
      BY <2>3, <2>4, TreeAssumption DEF State, Node
    <3> QED
      BY <2>1, <3>1
  <2>6. FileOf(s) = [i \in SubIndex |-> IF file[s][i] = NoWrite THEN Zero ELSE file[s][i]]
    BY DEF FileOf, PatchNode, EmptyNode
  <2>7. StateOf(mdbxStems)[s] = [i \in SubIndex |-> StateOf(mdbxStems)[s][i]]
    BY <2>3, <2>4 DEF State, Node
  <2> QED
    BY <2>2, <2>5, <2>6, <2>7
<1> QED
  BY <1>1, CallsCalm, ExportsOnlyRead, TypeInvariant, TrackInvariant, PTL

\* The file of an undisturbed delta export has every leaf that a retained block of
\* its range changed, and only values of the block in its header, at any flush
\* interval (rpc.rs, get_state_delta).
THEOREM DeltasExact ==
    ASSUME SafeParameters
    PROVE  ExportSpec => []DeltaExact
<1>1. ASSUME TypeInv, TrackInv, ExportTypeOK, RouteInv, CalmInv PROVE DeltaExact
  <2> SUFFICES ASSUME Answered({"delta"}), calm, NEW s \in Stem, NEW i \in SubIndex
               PROVE  /\ file[s][i] \in {NoWrite, StateAt(head.hash)[s][i]}
                      /\ \A b \in RangeBlocks :
                          (b + DeltaRetention >= peak /\ ChangedIn(b, s, i))
                              => file[s][i] # NoWrite
    BY DEF DeltaExact
  <2>1. /\ pc = "idle" /\ head = mdbxHead /\ mdbxHead # NoHead
        /\ call.to <= mdbxHead.block /\ todo = {}
        /\ FileWithin(StateOf(mdbxStems)) /\ \A b \in RangeBlocks : RecordRead(b)
    BY <1>1 DEF Answered, OfDeltas, CalmInv, CalmDeltas, RouteInv
  <2>2. head.hash = SavedHash /\ mdbxHead.block = Len(SavedHash)
    BY <1>1, <2>1, Ranges DEF SavedHash, LoadedHead
  <2>3. /\ StateOf(mdbxStems) = StateAt(SavedHash)
        /\ Continues(lastHash, SavedHash) /\ RecordsLead(lastHash, Len(lastHash))
    BY <1>1, <2>1 DEF TrackInv, SavedInv, RecordsInv, TornSteps, Stopped, Reverted, Reverting
  <2>4. /\ lastHash \in Chain /\ SavedHash \in Chain
        /\ Len(lastHash) \in Nat /\ Len(SavedHash) \in Nat /\ peak \in Nat
    BY <1>1, Ranges
  <2>5. Len(SavedHash) <= Len(lastHash) /\ SameUpTo(lastHash, SavedHash, Len(SavedHash))
    BY <2>3 DEF Continues
  <2>6. ASSUME NEW b \in RangeBlocks, b + DeltaRetention >= peak, ChangedIn(b, s, i)
        PROVE  file[s][i] # NoWrite
    <3>1. b \in Nat \ {0} /\ b <= call.to /\ call.to \in Nat
      BY <1>1, UbtAssumption DEF RangeBlocks, BlockNumber, ExportTypeOK, Call
    <3>2. b <= Len(SavedHash) /\ b \in 1 .. Len(lastHash) /\ b \in 1 .. Len(SavedHash)
          /\ b - 1 \in Nat /\ b - 1 <= Len(SavedHash)
      BY <2>1, <2>2, <2>4, <2>5, <3>1
    <3>3. /\ StateAt(SubSeq(SavedHash, 1, b)) = StateUpTo(lastHash, b)
          /\ StateAt(SubSeq(SavedHash, 1, b - 1)) = StateUpTo(lastHash, b - 1)
      BY <2>4, <2>5, <3>1, <3>2, PrefixIs, SameStates
    <3>4. StateUpTo(lastHash, b) = lastHash[b].post
      BY <3>1 DEF StateUpTo
    <3>5. Patched(lastHash[b].post, mdbxDeltas[b]) = StateUpTo(lastHash, b - 1)
      BY <2>3, <2>6, <3>2 DEF RecordsLead, Leads
    <3>6. lastHash[b].post[s][i] # StateUpTo(lastHash, b - 1)[s][i]
      BY <2>2, <2>6, <3>3, <3>4 DEF ChangedIn
    <3>7. mdbxDeltas[b][s][i] # NoWrite
      BY <3>5, <3>6 DEF Patched, PatchNode
    <3> QED
      BY <2>1, <3>7 DEF RecordRead
  <2> QED
    BY <2>1, <2>2, <2>3, <2>6 DEF FileWithin
<1> QED
  BY <1>1, CallsCalm, CallsRouted, ExportTypeCorrect, ExportsOnlyRead, TypeInvariant,
     TrackInvariant, PTL
=============================================================================
