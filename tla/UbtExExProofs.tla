--------------------------- MODULE UbtExExProofs ---------------------------
(***************************************************************************)
(* Theorems of UbtExEx for every value of its constants: any tree, any      *)
(* blocks, any flush interval, retention and rollback log, and crashes      *)
(* anywhere.                                                                *)
(***************************************************************************)
EXTENDS UbtExEx, FiniteSetTheorems, SequenceTheorems, TLAPS

----------------------------------------------------------------------------
(* The operators of TreeState.                                               *)

LEMMA EmptyTypes ==
    /\ EmptyNode \in Node /\ EmptyState \in State
    /\ EmptyTable \in Table /\ EmptyPatch \in Patch
BY DEF EmptyNode, EmptyState, EmptyTable, EmptyPatch, Node, State, Table, Patch, Leaf

LEMMA StateOfType == ASSUME NEW T \in Table PROVE StateOf(T) \in State
BY EmptyTypes DEF StateOf, NodeOf, Table, State

LEMMA OverlaidType ==
    ASSUME NEW over \in Table, NEW base \in Table
    PROVE  Overlaid(over, base) \in Table
BY DEF Overlaid, Table

LEMMA PatchNodeType ==
    ASSUME NEW n \in Node, NEW P \in Patch, NEW s \in Stem
    PROVE  PatchNode(n, P[s]) \in Node
BY DEF PatchNode, Patch, Node

LEMMA PatchedType ==
    ASSUME NEW S \in State, NEW P \in Patch
    PROVE  Patched(S, P) \in State
BY PatchNodeType DEF Patched, State

LEMMA WriteThroughType ==
    ASSUME NEW over \in Table, NEW base \in Table, NEW P \in Patch
    PROVE  WriteThrough(over, base, P) \in Table
<1> DEFINE T == Overlaid(over, base)
<1>1. T \in Table
  BY OverlaidType
<1>2. \A s \in Stem : NodeOf(T[s]) \in Node
  BY <1>1, EmptyTypes DEF NodeOf, Table
<1>3. \A s \in Stem : PatchNode(NodeOf(T[s]), P[s]) \in Node
  BY <1>2, PatchNodeType
<1> QED
  BY <1>3 DEF WriteThrough, Table

LEMMA UndoType ==
    ASSUME NEW S \in State, NEW P \in Patch
    PROVE  Undo(S, P) \in Patch
BY DEF Undo, State, Patch, Node

\* Reading the tree through the overlay after WriteThrough is reading it before
\* and patching what was read: the overlay is seeded with the leaves that the
\* write does not touch (commit, and apply_deltas_reverse).
LEMMA WriteThroughView ==
    ASSUME NEW over \in Table, NEW base \in Table, NEW P \in Patch
    PROVE  StateOf(Overlaid(WriteThrough(over, base, P), base))
             = Patched(StateOf(Overlaid(over, base)), P)
<1> DEFINE W == WriteThrough(over, base, P)
           T == Overlaid(over, base)
<1>1. ASSUME NEW s \in Stem
      PROVE  NodeOf(Overlaid(W, base)[s]) = PatchNode(NodeOf(T[s]), P[s])
  <2>1. T \in Table /\ NodeOf(T[s]) \in Node
    BY OverlaidType, EmptyTypes DEF NodeOf, Table
  <2>2. CASE s \in TouchedStems(P)
    <3>1. W[s] = PatchNode(NodeOf(T[s]), P[s])
      BY <2>2 DEF WriteThrough
    <3>2. W[s] \in Node
      BY <2>1, <3>1, PatchNodeType
    <3>3. W[s] # NoNode
      BY <3>2, TreeAssumption
    <3> QED
      BY <3>1, <3>3 DEF Overlaid, NodeOf
  <2>3. CASE s \notin TouchedStems(P)
    <3>1. W[s] = over[s] /\ Overlaid(W, base)[s] = T[s]
      BY <2>3 DEF WriteThrough, Overlaid
    <3>2. \A i \in SubIndex : P[s][i] = NoWrite
      BY <2>3 DEF TouchedStems
    <3>3. PatchNode(NodeOf(T[s]), P[s]) = NodeOf(T[s])
      BY <2>1, <3>2 DEF PatchNode, Node
    <3> QED
      BY <3>1, <3>3
  <2> QED
    BY <2>2, <2>3
<1>2. \A s \in Stem : Patched(StateOf(T), P)[s] = PatchNode(NodeOf(T[s]), P[s])
  BY DEF Patched, StateOf
<1> QED
  BY <1>1, <1>2 DEF StateOf, Patched

\* Patching a state and then patching it with its undo record gives it back.
LEMMA UndoPatch ==
    ASSUME NEW S \in State, NEW P \in Patch
    PROVE  Patched(Patched(S, P), Undo(S, P)) = S
<1> DEFINE A == Patched(S, P)
           U == Undo(S, P)
<1>1. ASSUME NEW s \in Stem
      PROVE  PatchNode(A[s], U[s]) = S[s]
  <2>1. S[s] \in Node /\ \A i \in SubIndex : S[s][i] \in Leaf
    BY DEF State, Node
  <2>2. ASSUME NEW i \in SubIndex
        PROVE  PatchNode(A[s], U[s])[i] = S[s][i]
    <3>1. A[s][i] = IF P[s][i] = NoWrite THEN S[s][i] ELSE P[s][i]
      BY DEF Patched, PatchNode
    <3>2. U[s][i] = IF P[s][i] \notin {NoWrite, S[s][i]} THEN S[s][i] ELSE NoWrite
      BY DEF Undo
    <3>3. S[s][i] # NoWrite
      BY <2>1, TreeAssumption
    <3> QED
      BY <3>1, <3>2, <3>3 DEF PatchNode
  <2> QED
    BY <2>1, <2>2 DEF PatchNode, Node
<1>2. S = [s \in Stem |-> S[s]]
  BY DEF State
<1> QED
  BY <1>1, <1>2 DEF Patched

\* A revert takes a commit back.  commit writes P to overlay and MDBX and keeps
\* the old values that it saw there (what Undo gives); apply_deltas_reverse
\* writes those through the overlay it finds.  In between, flushes may have
\* divided the nodes between overlay and MDBX in any other way (over and base
\* are before the commit, newOver and newBase before the revert).
THEOREM UndoRestores ==
    ASSUME NEW over \in Table, NEW base \in Table, NEW P \in Patch,
           NEW newOver \in Table, NEW newBase \in Table,
           StateOf(Overlaid(newOver, newBase))
             = StateOf(Overlaid(WriteThrough(over, base, P), base))
    PROVE  LET record == Undo(StateOf(Overlaid(over, base)), P) IN
           StateOf(Overlaid(WriteThrough(newOver, newBase, record), newBase))
             = StateOf(Overlaid(over, base))
<1> DEFINE S == StateOf(Overlaid(over, base))
           record == Undo(S, P)
<1>1. S \in State
  BY OverlaidType, EmptyTypes DEF StateOf, State, NodeOf, Table
<1>2. record \in Patch
  BY <1>1, UndoType
<1>3. StateOf(Overlaid(newOver, newBase)) = Patched(S, P)
  BY WriteThroughView
<1>4. StateOf(Overlaid(WriteThrough(newOver, newBase, record), newBase))
        = Patched(Patched(S, P), record)
  BY <1>2, <1>3, WriteThroughView
<1> QED
  BY <1>1, <1>4, UndoPatch

----------------------------------------------------------------------------
(* Type correctness.                                                         *)

LEMMA StateAtType == ASSUME NEW c \in Chain PROVE StateAt(c) \in State
<1>1. CASE c = <<>>
  BY <1>1, EmptyTypes DEF StateAt
<1>2. CASE c # <<>>
  <2>1. c \in Seq(Block) /\ Len(c) \in 1 .. Len(c)
    BY <1>2, LenProperties, EmptySeq DEF Chain
  <2>2. c[Len(c)] \in Block
    BY <2>1, ElementOfSeq
  <2> QED
    BY <1>2, <2>2 DEF StateAt, Block
<1> QED
  BY <1>1, <1>2

LEMMA ProcessChainType ==
    ASSUME NEW c \in Chain, NEW lo PROVE ProcessChain(c, lo) \in Patch
<1>1. StateAt(c) \in State
  BY StateAtType
<1> QED
  BY <1>1 DEF ProcessChain, Patch, State, Node

LEMMA PrefixType ==
    ASSUME NEW c \in Chain, NEW n \in Int, n <= Len(c)
    PROVE  SubSeq(c, 1, n) \in Chain
BY LenProperties, SubSeqProperties DEF Chain

LEMMA PrefixLength ==
    ASSUME NEW c \in Chain, NEW n \in 0 .. Len(c)
    PROVE  Len(SubSeq(c, 1, n)) = n
<1>1. Len(c) \in Nat /\ n \in Nat
  BY LenProperties DEF Chain
<1>2. \A i \in 1 .. n : c[i] \in Block
  BY <1>1, ElementOfSeq DEF Chain
<1> QED
  BY <1>1, <1>2, SubSeqProperties

LEMMA LogType ==
    ASSUME NEW log \in Seq(NomtRecord), NEW r \in NomtRecord
    PROVE  CommitLog(log, r) \in Seq(NomtRecord)
<1> DEFINE a == Append(log, r)
<1>1. a \in Seq(NomtRecord) /\ Len(a) \in Nat /\ NomtHistory \in Nat
  BY AppendProperties, LenProperties, StoresAssumption
<1>2. CASE Len(a) <= NomtHistory
  BY <1>1, <1>2 DEF CommitLog, KeepLast
<1>3. CASE ~(Len(a) <= NomtHistory)
  <2>1. SubSeq(a, Len(a) - NomtHistory + 1, Len(a)) \in Seq(NomtRecord)
    BY <1>1, <1>3, SubSeqProperties
  <2> QED
    BY <2>1, <1>3 DEF CommitLog, KeepLast
<1> QED
  BY <1>2, <1>3

LEMMA RollbackType ==
    ASSUME NEW log \in Seq(NomtRecord), NEW n \in Int, CanRollback(log, n)
    PROVE  /\ RollbackTarget(log, n) \in NomtRecord
           /\ RollbackLog(log, n) \in Seq(NomtRecord)
<1>1. Len(log) \in Nat /\ 0 < n /\ n <= Len(log)
  BY LenProperties DEF CanRollback
<1>2. Len(log) - n + 1 \in 1 .. Len(log)
  BY <1>1
<1>3. log[Len(log) - n + 1] \in NomtRecord
  BY <1>2, ElementOfSeq
<1>4. SubSeq(log, 1, Len(log) - n) \in Seq(NomtRecord)
  BY <1>1, SubSeqProperties
<1> QED
  BY <1>3, <1>4 DEF RollbackTarget, RollbackLog
LEMMA CountType ==
    ASSUME NEW bitmap \in [Stem -> SUBSET SubIndex], NEW P \in Patch
    PROVE  /\ IsFiniteSet(IndexedStems(bitmap))
           /\ IsFiniteSet(TouchedStems(P) \ IndexedStems(bitmap))
           /\ Cardinality(IndexedStems(bitmap)) \in Nat
           /\ NewStems(bitmap, P) \in Nat
<1>1. IsFiniteSet(Stem)
  BY TreeAssumption
<1>2. IsFiniteSet(IndexedStems(bitmap))
  BY <1>1, FS_Subset DEF IndexedStems
<1>3. TouchedStems(P) \ IndexedStems(bitmap) \subseteq Stem
  BY DEF TouchedStems
<1>4. IsFiniteSet(TouchedStems(P) \ IndexedStems(bitmap))
  BY <1>1, <1>3, FS_Subset
<1> QED
  BY <1>2, <1>4, FS_CardinalityType DEF NewStems

LEMMA IndexType ==
    ASSUME NEW bitmap \in [Stem -> SUBSET SubIndex], NEW P
    PROVE  ApplyUpdates(bitmap, P) \in [Stem -> SUBSET SubIndex]
BY DEF ApplyUpdates, WrittenSubIndices

LEMMA DeltasType ==
    ASSUME NEW deltas \in [BlockNumber -> Patch], NEW b, NEW d \in Patch
    PROVE  /\ SaveBlockDeltas(deltas, b, d) \in [BlockNumber -> Patch]
           /\ DeleteBlockDeltas(deltas, b) \in [BlockNumber -> Patch]
           /\ PruneDeltasBefore(deltas, b) \in [BlockNumber -> Patch]
BY EmptyTypes DEF SaveBlockDeltas, DeleteBlockDeltas, PruneDeltasBefore

LEMMA NomtRollbackType ==
    ASSUME TypeOK, NEW n \in Int, NomtRollback(n)
    PROVE  nomtState' \in State /\ nomtHead' \in Nat /\ nomtLog' \in Seq(NomtRecord)
<1>1. CASE CanRollback(nomtLog, n)
  <2>1. /\ RollbackTarget(nomtLog, n) \in NomtRecord
        /\ RollbackLog(nomtLog, n) \in Seq(NomtRecord)
    BY <1>1, RollbackType DEF TypeOK
  <2> QED
    BY <1>1, <2>1 DEF NomtRollback, NomtRecord
<1>2. CASE ~CanRollback(nomtLog, n)
  BY <1>2 DEF NomtRollback, TypeOK, nomt
<1> QED
  BY <1>1, <1>2

LEMMA HeadTypes ==
    ASSUME TypeOK
    PROVE  /\ FreshHead \in UbtHead
           /\ LoadedHead \in UbtHead
           /\ MemoryHead \in UbtHead
           /\ View \in State
<1>1. <<>> \in Chain
  BY DEF Chain
<1>2. FreshHead \in UbtHead
  BY <1>1, EmptyTypes DEF FreshHead, UbtHead
<1>3. LoadedHead \in UbtHead
  BY <1>2 DEF LoadedHead, TypeOK
<1>4. MemoryHead \in UbtHead
  BY StateOfType DEF MemoryHead, UbtHead, ComputeRoot, TypeOK
<1>5. View \in State
  BY StateOfType, OverlaidType DEF View, TypeOK
<1> QED
  BY <1>2, <1>3, <1>4, <1>5

\* What the types of mdbxDeltas[job.hi] and of the chain after a restart rest on:
\* block numbers stay in range, and a head's number is that of its hash.
Bounds ==
    /\ Len(chain) <= MaxHeight
    /\ job.hi <= MaxHeight
    /\ job.lo <= Len(chain) + 1
    /\ pc \in Stopped => job.lo = 1
    /\ pc \in {"revertNomt", "revertBlock"} => job.lo <= job.hi
    /\ lastBlock = Len(lastHash) /\ lastBlock <= MaxHeight
    /\ mdbxHead # NoHead => /\ mdbxHead.block = Len(mdbxHead.hash)
                            /\ mdbxHead.block <= MaxHeight

TypeInv == TypeOK /\ Bounds

LEMMA TypeInit == Init => TypeInv
BY EmptyTypes, UbtAssumption
   DEF Init, TypeInv, TypeOK, Bounds, NoJob, Chain, PC, BlockNumber, Stopped

LEMMA PendingType == ASSUME TypeOK PROVE pendingEntries \in Patch
BY ProcessChainType DEF pendingEntries, TypeOK

LEMMA TypeStep == TypeInv /\ [Next]_vars => TypeOK'
<1> SUFFICES ASSUME TypeOK, Bounds, [Next]_vars PROVE TypeOK'
  BY DEF TypeInv
<1> USE UbtAssumption DEF TypeOK
<1>a. /\ Len(chain) \in Nat /\ EmptyTable \in Table /\ EmptyPatch \in Patch
      /\ <<>> \in Chain
  BY LenProperties, EmptyTypes DEF Chain
<1>b. ASSUME pc = "revertBlock"
      PROVE  WriteThrough(overlay, mdbxStems, mdbxDeltas[job.hi]) \in Table
  <2>1. job.hi \in BlockNumber
    BY <1>b DEF Bounds, BlockNumber
  <2>2. mdbxDeltas[job.hi] \in Patch
    BY <2>1
  <2> QED
    BY <2>2, WriteThroughType
<1>c. BatchUpdateStems(mdbxStems, overlay) \in Table
  BY OverlaidType DEF BatchUpdateStems
<1>1. ASSUME NEW k \in 0 .. MaxReorg, NodeUnwinds(k) PROVE TypeOK'
  <2>1. SubSeq(chain, 1, Len(chain) - k) \in Chain
    BY <1>1, <1>a, PrefixType
  <2>2. Len(chain) - k + 1 \in Nat \ {0}
    BY <1>1, <1>a DEF NodeUnwinds
  <2> QED
    BY <1>1, <1>a, <2>1, <2>2
    DEF NodeUnwinds, PC, mdbx, nomt, keyIndex, memory, heads
<1>2. ASSUME NEW body \in Body, NodeExtends(body) PROVE TypeOK'
  <2> DEFINE post == Patched(StateAt(chain), Writes[body])
             block == [body |-> body, post |-> post]
  <2>1. post \in State
    BY StateAtType, PatchedType
  <2>2. Append(chain, block) \in Chain
    BY <2>1, AppendProperties DEF Block, Chain
  <2> QED
    BY <1>2, <2>2 DEF NodeExtends, mdbx, nomt, keyIndex, memory, heads
<1>3. CASE Notify
  BY <1>3, <1>a DEF Notify, PC, RevertSteps, CommitSteps,
                    mdbx, nomt, keyIndex, memory, heads
<1>4. CASE RevertNomt
  <2>1. nomtState' \in State /\ nomtHead' \in Nat /\ nomtLog' \in Seq(NomtRecord)
    BY <1>4, NomtRollbackType DEF RevertNomt, RollbackCount
  <2> QED
    BY <1>4, <2>1 DEF RevertNomt, PC, RevertSteps, mdbx, keyIndex, memory, heads, node
<1>5. CASE RevertBlock
  <2>1. /\ overlay' \in Table
        /\ mdbxDeltas' \in [BlockNumber -> Patch]
    BY <1>5, <1>b, DeltasType DEF RevertBlock, ApplyDeltasReverse
  <2>2. job' \in [lo : Nat \ {0}, hi : Nat]
    <3>1. job.lo \in Nat \ {0} /\ job.hi \in Nat /\ job.lo < job.hi
      BY <1>5 DEF RevertBlock
    <3>2. job' = [job EXCEPT !.hi = job.hi - 1]
      BY <1>5 DEF RevertBlock
    <3>3. job.hi - 1 \in Nat
      BY <3>1
    <3> QED
      BY <3>2, <3>3
  <2> QED
    BY <1>5, <2>1, <2>2 DEF RevertBlock, nomt, keyIndex, heads, node
<1>6. CASE RevertLastBlock
  <2>1. /\ overlay' \in Table
        /\ mdbxDeltas' \in [BlockNumber -> Patch]
    BY <1>6, <1>b, DeltasType DEF RevertLastBlock, ApplyDeltasReverse
  <2>2. /\ job' \in [lo : Nat \ {0}, hi : Nat]
        /\ lastBlock' \in Nat
    <3>1. job \in [lo : Nat \ {0}, hi : Nat] /\ job.lo - 1 \in Nat
      OBVIOUS
    <3>2. job' = [job EXCEPT !.hi = job.lo - 1] /\ lastBlock' = job.lo - 1
      BY <1>6 DEF RevertLastBlock
    <3> QED
      BY <3>1, <3>2
  <2>3. lastHash' \in Chain
    <3>1. job.lo - 1 \in Int /\ job.lo - 1 <= Len(chain)
      BY <1>a DEF Bounds
    <3>2. SubSeq(chain, 1, job.lo - 1) \in Chain
      BY <3>1, PrefixType
    <3> QED
      BY <1>6, <3>2 DEF RevertLastBlock
  <2>4. pc' \in PC
    BY <1>6 DEF RevertLastBlock, AfterRevert, PC, RevertSteps, CommitSteps
  <2> QED
    BY <1>6, <2>1, <2>2, <2>3, <2>4 DEF RevertLastBlock, nomt, keyIndex, node
<1>7. CASE RevertStems
  BY <1>7, <1>a, <1>c DEF RevertStems, PC, RevertSteps, nomt, keyIndex, heads, node
<1>8. CASE RevertHead
  BY <1>8, HeadTypes
     DEF RevertHead, AfterRevert, PC, CommitSteps, nomt, keyIndex, node
<1>9. CASE CommitNomt
  <2>1. Patched(nomtState, pendingEntries) \in State
    BY PatchedType, PendingType
  <2>2. CommitLog(nomtLog, [state |-> nomtState, head |-> nomtHead]) \in Seq(NomtRecord)
    BY LogType DEF NomtRecord
  <2> QED
    BY <1>9, <1>a, <2>1, <2>2
    DEF CommitNomt, tip, PC, CommitSteps, mdbx, keyIndex, memory, heads, node
<1>10. CASE CommitOverlay
  <2>1. WriteThrough(overlay, mdbxStems, pendingEntries) \in Table
    BY WriteThroughType, PendingType
  <2>2. Undo(View, pendingEntries) \in Patch
    BY UndoType, HeadTypes, PendingType
  <2>3. BatchSaveStemAddresses(mdbxAddrs, NewStemAddresses(pendingEntries)) \in SUBSET Stem
    BY DEF BatchSaveStemAddresses, NewStemAddresses, TouchedStems
  <2> QED
    BY <1>10, <2>1, <2>2, <2>3
    DEF CommitOverlay, PC, CommitSteps, nomt, keyIndex, heads, node
<1>11. CASE CommitIndex
  <2>1. stemCount + NewStems(kiBitmap, pendingEntries) \in Nat
    <3>1. NewStems(kiBitmap, pendingEntries) \in Nat
      BY CountType, PendingType DEF TypeOK
    <3> QED
      BY <3>1
  <2>2. ApplyUpdates(kiBitmap, pendingEntries) \in [Stem -> SUBSET SubIndex]
    BY IndexType
  <2> QED
    BY <1>11, <2>1, <2>2
    DEF CommitIndex, PC, CommitSteps, mdbx, nomt, heads, node
<1>12. CASE CommitDeltas
  BY <1>12, <1>a, DeltasType
  DEF CommitDeltas, tip, PC, CommitSteps, nomt, keyIndex, node
<1>13. CASE FlushStems
  BY <1>13, <1>a, <1>c DEF FlushStems, PC, CommitSteps, nomt, keyIndex, heads, node
<1>14. CASE FlushHead
  BY <1>14, HeadTypes
  DEF FlushHead, PC, CommitSteps, nomt, keyIndex, memory, heads, node
<1>15. CASE FlushIndexHead
  BY <1>15, HeadTypes DEF FlushIndexHead, PC, CommitSteps, mdbx, nomt, node
<1>16. CASE Prune
  <2>1. mdbxDeltas' \in [BlockNumber -> Patch]
    <3>1. \A b : PruneDeltasBefore(mdbxDeltas, b) \in [BlockNumber -> Patch]
      BY <1>a, DeltasType
    <3> QED
      BY <1>16, <3>1 DEF Prune
  <2> QED
    BY <1>16, <2>1
    DEF Prune, PC, CommitSteps, nomt, keyIndex, memory, heads, node
<1>17. CASE Ack
  BY <1>17 DEF Ack, NoJob, PC, mdbx, nomt, keyIndex, memory, heads
<1>18. CASE Crash
  BY <1>18, <1>a
  DEF Crash, Stop, Forget, NoJob, PC, Stopped, mdbx, nomt, keyIndex
<1>19. CASE Shutdown
  BY <1>19
  DEF Shutdown, PC, ShutdownSteps, mdbx, nomt, keyIndex, memory, heads, node
<1>20. CASE ShutdownStems
  BY <1>20, <1>a, <1>c
  DEF ShutdownStems, PC, ShutdownSteps, nomt, keyIndex, heads, node
<1>21. CASE ShutdownHead
  BY <1>21, <1>a, HeadTypes
  DEF ShutdownHead, Forget, NoJob, PC, Stopped, nomt, keyIndex
<1>22. CASE RestartRefused
  BY <1>22
  DEF RestartRefused, PC, Stopped, mdbx, nomt, keyIndex, memory, heads, node
<1>23. CASE Restart
  <2>1. LoadedHead \in UbtHead /\ EffectiveHead \in Nat
    BY HeadTypes DEF EffectiveHead, UbtHead
  <2>2. EffectiveHead <= Len(LoadedHead.hash)
    BY <2>1 DEF EffectiveHead, LoadedHead, FreshHead, Bounds, UbtHead
  <2>3. chain' \in Chain
    <3>1. SubSeq(LoadedHead.hash, 1, EffectiveHead) \in Chain
      BY <2>1, <2>2, PrefixType DEF UbtHead
    <3>2. \A k \in 0 .. Len(chain) : SubSeq(chain, 1, k) \in Chain
      BY PrefixType
    <3> QED
      BY <1>23, <3>1, <3>2 DEF Restart, Resume
  <2>4. nomtState' \in State /\ nomtHead' \in Nat /\ nomtLog' \in Seq(NomtRecord)
    <3>1. nomtHead - LoadedHead.block \in Int
      BY <2>1 DEF UbtHead
    <3>2. CASE nomtHead > LoadedHead.block
      BY <1>23, <3>1, <3>2, NomtRollbackType DEF Restart
    <3>3. CASE ~(nomtHead > LoadedHead.block)
      BY <1>23, <3>3 DEF Restart, nomt
    <3> QED
      BY <3>2, <3>3
  <2>5. /\ lastBlock' \in Nat /\ lastHash' \in Chain /\ stemCount' \in Nat
        /\ lastPersistedBlock' \in Nat /\ lastPersistedHash' \in Chain
    BY <1>23, <2>1 DEF Restart, UbtHead
  <2> QED
    BY <1>23, <2>3, <2>4, <2>5 DEF Restart, PC, mdbx, keyIndex
<1>24. CASE UNCHANGED vars
  BY <1>24 DEF vars, mdbx, nomt, keyIndex, memory, heads, node
<1> QED
  BY <1>1, <1>2, <1>3, <1>4, <1>5, <1>6, <1>7, <1>8, <1>9, <1>10, <1>11, <1>12,
     <1>13, <1>14, <1>15, <1>16, <1>17, <1>18, <1>19, <1>20, <1>21, <1>22,
     <1>23, <1>24
  DEF Next, NodeStep, Revert, Commit, StopOrStart

LEMMA BoundsStep == TypeInv /\ [Next]_vars => Bounds'
<1> SUFFICES ASSUME TypeOK, Bounds, [Next]_vars PROVE Bounds'
  BY DEF TypeInv
<1>a. /\ Len(chain) \in Nat /\ Len(lastHash) \in Nat /\ MaxHeight \in Nat
      /\ job.lo \in Nat \ {0} /\ job.hi \in Nat
  BY LenProperties, UbtAssumption DEF TypeOK, Chain
<1> USE DEF Stopped
<1>b. Len(<<>>) = 0
  OBVIOUS
<1>1. ASSUME NEW k \in 0 .. MaxReorg, NodeUnwinds(k) PROVE Bounds'
  <2>1. k \in Nat /\ k <= Len(chain)
    BY <1>1, UbtAssumption DEF NodeUnwinds
  <2>2. Len(SubSeq(chain, 1, Len(chain) - k)) = Len(chain) - k
    BY <1>a, <2>1 DEF TypeOK, Chain
  <2>3. /\ job'.lo = Len(chain) - k + 1 /\ job'.hi = Len(chain)
        /\ Len(chain') = Len(chain) - k
    BY <1>1, <2>2 DEF NodeUnwinds
  <2>4. /\ pc' = "assembling"
        /\ UNCHANGED <<lastBlock, lastHash, mdbxHead>>
    BY <1>1 DEF NodeUnwinds, mdbx, memory, heads
  <2> QED
    BY <1>a, <2>1, <2>3, <2>4 DEF Bounds
<1>2. ASSUME NEW body \in Body, NodeExtends(body) PROVE Bounds'
  <2>1. Len(chain') = Len(chain) + 1 /\ Len(chain) < MaxHeight
    BY <1>2 DEF NodeExtends, TypeOK, Chain
  <2>2. /\ pc = "assembling"
        /\ UNCHANGED <<pc, job, lastBlock, lastHash, mdbxHead>>
    BY <1>2 DEF NodeExtends, mdbx, memory, heads
  <2> QED
    BY <1>a, <2>1, <2>2 DEF Bounds
<1>3. CASE Notify
  BY <1>3, <1>a DEF Notify, Bounds, mdbx, memory, heads
<1>4. CASE RevertNomt
  BY <1>4, <1>a DEF RevertNomt, Bounds, mdbx, memory, heads, node
<1>5. CASE RevertBlock
  <2>1. job'.lo = job.lo /\ job'.hi = job.hi - 1 /\ job.lo < job.hi
    BY <1>5 DEF RevertBlock, TypeOK
  <2>2. UNCHANGED <<pc, chain, lastBlock, lastHash, mdbxHead>>
    BY <1>5 DEF RevertBlock, heads, node
  <2> QED
    BY <1>a, <2>1, <2>2 DEF Bounds
<1>6. CASE RevertLastBlock
  <2>1. job'.lo = job.lo /\ job'.hi = job.lo - 1 /\ job.lo = job.hi
    BY <1>6 DEF RevertLastBlock, TypeOK
  <2>2. Len(lastHash') = job.lo - 1 /\ lastBlock' = job.lo - 1
    <3>1. lastHash' = SubSeq(chain, 1, job.lo - 1) /\ lastBlock' = job.lo - 1
      BY <1>6 DEF RevertLastBlock
    <3>2. chain \in Chain /\ job.lo <= Len(chain) + 1
      BY DEF Bounds, TypeOK
    <3>3. job.lo - 1 \in 0 .. Len(chain)
      BY <1>a, <3>2
    <3>4. Len(SubSeq(chain, 1, job.lo - 1)) = job.lo - 1
      BY <3>2, <3>3, PrefixLength
    <3> QED
      BY <3>1, <3>4
  <2>3. /\ pc' \notin {"revertNomt", "revertBlock"} \cup Stopped
        /\ UNCHANGED <<chain, mdbxHead>>
    BY <1>6 DEF RevertLastBlock, AfterRevert, node
  <2> QED
    BY <1>a, <2>1, <2>2, <2>3 DEF Bounds
<1>7. CASE RevertStems
  BY <1>7, <1>a DEF RevertStems, Bounds, heads, node
<1>8. CASE RevertHead
  BY <1>8, <1>a DEF RevertHead, AfterRevert, MemoryHead, Bounds, node
<1>9. CASE CommitNomt
  BY <1>9, <1>a DEF CommitNomt, Bounds, mdbx, memory, heads, node
<1>10. CASE CommitOverlay
  BY <1>10, <1>a DEF CommitOverlay, Bounds, heads, node
<1>11. CASE CommitIndex
  BY <1>11, <1>a DEF CommitIndex, Bounds, mdbx, heads, node
<1>12. CASE CommitDeltas
  BY <1>12, <1>a DEF CommitDeltas, Bounds, tip, node
<1>13. CASE FlushStems
  BY <1>13, <1>a DEF FlushStems, Bounds, heads, node
<1>14. CASE FlushHead
  BY <1>14, <1>a DEF FlushHead, MemoryHead, Bounds, memory, heads, node
<1>15. CASE FlushIndexHead
  BY <1>15, <1>a DEF FlushIndexHead, Bounds, mdbx, node
<1>16. CASE Prune
  BY <1>16, <1>a DEF Prune, Bounds, memory, heads, node
<1>17. CASE Ack
  BY <1>17, <1>a DEF Ack, NoJob, Bounds, mdbx, memory, heads
<1>18. CASE Crash
  BY <1>18, <1>a, <1>b DEF Crash, Stop, Forget, NoJob, Bounds, mdbx
<1>19. CASE Shutdown
  BY <1>19, <1>a DEF Shutdown, Bounds, mdbx, memory, heads, node
<1>20. CASE ShutdownStems
  BY <1>20, <1>a DEF ShutdownStems, Bounds, heads, node
<1>21. CASE ShutdownHead
  BY <1>21, <1>a, <1>b DEF ShutdownHead, MemoryHead, Forget, NoJob, Bounds
<1>22. CASE RestartRefused
  BY <1>22, <1>a DEF RestartRefused, Bounds, mdbx, memory, heads, node
<1>23. CASE Restart
  <2>1. /\ LoadedHead.block = Len(LoadedHead.hash)
        /\ LoadedHead.block \in Nat /\ LoadedHead.block <= MaxHeight
        /\ LoadedHead.hash \in Seq(Block)
    BY <1>a, <1>b, HeadTypes DEF LoadedHead, FreshHead, UbtHead, Chain, Bounds
  <2>2. EffectiveHead \in Nat /\ EffectiveHead <= LoadedHead.block
    BY <2>1 DEF EffectiveHead, TypeOK
  <2>3. Len(SubSeq(LoadedHead.hash, 1, EffectiveHead)) = EffectiveHead
    BY <2>1, <2>2
  <2>4. /\ lastBlock' = LoadedHead.block /\ lastHash' = LoadedHead.hash
        /\ pc = "down" /\ pc' = "idle" /\ UNCHANGED <<job, mdbxHead>>
    BY <1>23 DEF Restart, mdbx
  <2>5. ASSUME NEW k \in 0 .. Len(chain), chain' = SubSeq(chain, 1, k)
        PROVE  Len(chain') \in Nat /\ Len(chain') <= MaxHeight
    <3>1. Len(chain') = k
      BY <2>5 DEF TypeOK, Chain
    <3>2. Len(chain) <= MaxHeight
      BY DEF Bounds
    <3> QED
      BY <1>a, <3>1, <3>2
  <2>6. CASE chain' = SubSeq(LoadedHead.hash, 1, EffectiveHead)
    <3>1. Len(chain') = EffectiveHead
      BY <2>3, <2>6
    <3> QED
      BY <1>a, <2>1, <2>2, <2>4, <3>1 DEF Bounds
  <2>7. Len(chain') \in Nat /\ Len(chain') <= MaxHeight => Bounds'
    BY <1>a, <2>1, <2>4 DEF Bounds
  <2> QED
    BY <1>23, <2>5, <2>6, <2>7 DEF Restart, Resume
<1>24. CASE UNCHANGED vars
  BY <1>24, <1>a DEF vars, Bounds, mdbx, memory, heads, node
<1> QED
  BY <1>1, <1>2, <1>3, <1>4, <1>5, <1>6, <1>7, <1>8, <1>9, <1>10, <1>11, <1>12,
     <1>13, <1>14, <1>15, <1>16, <1>17, <1>18, <1>19, <1>20, <1>21, <1>22,
     <1>23, <1>24
  DEF Next, NodeStep, Revert, Commit, StopOrStart

LEMMA TypeInvariant == Spec => []TypeInv
<1>1. TypeInv /\ [Next]_vars => TypeInv'
  BY TypeStep, BoundsStep DEF TypeInv
<1> QED
  BY <1>1, TypeInit, PTL DEF Spec

\* Every variable keeps its type in every reachable state.
THEOREM TypeCorrect == Spec => []TypeOK
<1>1. TypeInv => TypeOK
  BY DEF TypeInv
<1> QED
  BY <1>1, TypeInvariant, PTL

----------------------------------------------------------------------------
(* Every stem that can come back has an address.                             *)

NodesIn(T) == {s \in Stem : T[s] # NoNode}
DeltaStems(deltas) == {s \in Stem : \E b \in BlockNumber : s \in TouchedStems(deltas[b])}

\* AddressesCover is not inductive: commit's local deltas are on their way to
\* the store when the handler is at commitIndex or commitDeltas.
AddressInv ==
    /\ NodesIn(mdbxStems) \subseteq mdbxAddrs
    /\ NodesIn(overlay) \subseteq mdbxAddrs
    /\ TouchedStems(delta) \subseteq mdbxAddrs
    /\ DeltaStems(mdbxDeltas) \subseteq mdbxAddrs

LEMMA NodesInTables ==
    ASSUME NEW over, NEW base, NEW P
    PROVE  /\ NodesIn(EmptyTable) = {}
           /\ NodesIn(Overlaid(over, base)) \subseteq NodesIn(over) \cup NodesIn(base)
           /\ NodesIn(WriteThrough(over, base, P)) \subseteq NodesIn(over) \cup TouchedStems(P)
BY DEF NodesIn, EmptyTable, Overlaid, WriteThrough

LEMMA StemsTouched ==
    ASSUME NEW S, NEW P
    PROVE  /\ TouchedStems(EmptyPatch) = {}
           /\ TouchedStems(Undo(S, P)) \subseteq TouchedStems(P)
BY DEF TouchedStems, EmptyPatch, Undo

LEMMA StemsInDeltas ==
    ASSUME NEW deltas \in [BlockNumber -> Patch], NEW b, NEW d
    PROVE  /\ DeltaStems(SaveBlockDeltas(deltas, b, d)) \subseteq DeltaStems(deltas) \cup TouchedStems(d)
           /\ DeltaStems(DeleteBlockDeltas(deltas, b)) \subseteq DeltaStems(deltas)
           /\ DeltaStems(PruneDeltasBefore(deltas, b)) \subseteq DeltaStems(deltas)
           /\ b \in BlockNumber => TouchedStems(deltas[b]) \subseteq DeltaStems(deltas)
<1>1. TouchedStems(EmptyPatch) = {}
  BY StemsTouched
<1>2. DeltaStems(SaveBlockDeltas(deltas, b, d)) \subseteq DeltaStems(deltas) \cup TouchedStems(d)
  BY DEF DeltaStems, SaveBlockDeltas
<1>3. DeltaStems(DeleteBlockDeltas(deltas, b)) \subseteq DeltaStems(deltas)
  BY <1>1 DEF DeltaStems, DeleteBlockDeltas
<1>4. DeltaStems(PruneDeltasBefore(deltas, b)) \subseteq DeltaStems(deltas)
  BY <1>1 DEF DeltaStems, PruneDeltasBefore
<1>5. b \in BlockNumber => TouchedStems(deltas[b]) \subseteq DeltaStems(deltas)
  BY DEF DeltaStems, TouchedStems
<1> QED
  BY <1>2, <1>3, <1>4, <1>5

LEMMA AddressInit == Init => AddressInv
BY NodesInTables, StemsTouched DEF Init, AddressInv, DeltaStems

LEMMA AddressStep == TypeInv /\ AddressInv /\ [Next]_vars => AddressInv'
<1> SUFFICES ASSUME TypeOK, Bounds, AddressInv, [Next]_vars PROVE AddressInv'
  BY DEF TypeInv
<1>a. mdbxDeltas \in [BlockNumber -> Patch]
  BY DEF TypeOK
\* Stems move from the overlay to MDBX, and the overlay is emptied.
<1>b. ASSUME mdbxStems' = BatchUpdateStems(mdbxStems, overlay),
             overlay' = EmptyTable,
             UNCHANGED <<mdbxAddrs, mdbxDeltas, delta>>
      PROVE  AddressInv'
  BY <1>b, NodesInTables DEF AddressInv, BatchUpdateStems
\* A turn of revert's loop.
<1>c. ASSUME NEW block \in BlockNumber, ApplyDeltasReverse(block),
             UNCHANGED <<mdbxStems, mdbxAddrs, delta>>
      PROVE  AddressInv'
  <2>1. NodesIn(overlay') \subseteq mdbxAddrs
    BY <1>a, <1>c, NodesInTables, StemsInDeltas DEF AddressInv, ApplyDeltasReverse
  <2>2. DeltaStems(mdbxDeltas') \subseteq mdbxAddrs
    BY <1>a, <1>c, StemsInDeltas DEF AddressInv, ApplyDeltasReverse
  <2> QED
    BY <1>c, <2>1, <2>2 DEF AddressInv
\* Nothing of it moves.
<1>d. ASSUME UNCHANGED <<mdbxStems, mdbxAddrs, mdbxDeltas, overlay, delta>>
      PROVE  AddressInv'
  BY <1>d DEF AddressInv
<1>1. ASSUME NEW k \in 0 .. MaxReorg, NodeUnwinds(k) PROVE AddressInv'
  BY <1>1, <1>d DEF NodeUnwinds, mdbx, memory
<1>2. ASSUME NEW body \in Body, NodeExtends(body) PROVE AddressInv'
  BY <1>2, <1>d DEF NodeExtends, mdbx, memory
<1>3. CASE Notify
  BY <1>3, <1>d DEF Notify, mdbx, memory
<1>4. CASE RevertNomt
  BY <1>4, <1>d DEF RevertNomt, mdbx, memory
<1>5. CASE RevertBlock
  <2>1. job.hi \in BlockNumber
    BY <1>5 DEF RevertBlock, TypeOK, Bounds, BlockNumber
  <2> QED
    BY <1>5, <1>c, <2>1 DEF RevertBlock
<1>6. CASE RevertLastBlock
  <2>1. job.lo \in BlockNumber
    BY <1>6 DEF RevertLastBlock, TypeOK, Bounds, BlockNumber
  <2> QED
    BY <1>6, <1>c, <2>1 DEF RevertLastBlock
<1>7. CASE RevertStems
  BY <1>7, <1>b DEF RevertStems
<1>8. CASE RevertHead
  BY <1>8, <1>d DEF RevertHead
<1>9. CASE CommitNomt
  BY <1>9, <1>d DEF CommitNomt, mdbx, memory
<1>10. CASE CommitOverlay
  <2>1. NodesIn(overlay) \cup NodesIn(mdbxStems) \subseteq mdbxAddrs'
    BY <1>10 DEF CommitOverlay, BatchSaveStemAddresses, AddressInv
  <2>2. TouchedStems(pendingEntries) \subseteq mdbxAddrs'
    BY <1>10, <2>1
    DEF CommitOverlay, BatchSaveStemAddresses, NewStemAddresses, NodesIn, TouchedStems
  <2>3. /\ overlay' = WriteThrough(overlay, mdbxStems, pendingEntries)
        /\ delta' = Undo(View, pendingEntries)
        /\ UNCHANGED <<mdbxStems, mdbxDeltas>>
        /\ mdbxAddrs \subseteq mdbxAddrs'
    BY <1>10 DEF CommitOverlay, BatchSaveStemAddresses
  <2>4. /\ NodesIn(overlay') \subseteq mdbxAddrs'
        /\ TouchedStems(delta') \subseteq mdbxAddrs'
    BY <2>1, <2>2, <2>3, NodesInTables, StemsTouched
  <2> QED
    BY <2>3, <2>4 DEF AddressInv
<1>11. CASE CommitIndex
  BY <1>11, <1>d DEF CommitIndex, mdbx
<1>12. CASE CommitDeltas
  <2>1. DeltaStems(mdbxDeltas') \subseteq mdbxAddrs
    BY <1>a, <1>12, StemsInDeltas DEF CommitDeltas, AddressInv
  <2> QED
    BY <1>12, <2>1, StemsTouched DEF CommitDeltas, AddressInv
<1>13. CASE FlushStems
  BY <1>13, <1>b DEF FlushStems
<1>14. CASE FlushHead
  BY <1>14, <1>d DEF FlushHead, memory
<1>15. CASE FlushIndexHead
  BY <1>15, <1>d DEF FlushIndexHead, mdbx
<1>16. CASE Prune
  <2>1. DeltaStems(mdbxDeltas') \subseteq DeltaStems(mdbxDeltas)
    BY <1>a, <1>16, StemsInDeltas DEF Prune
  <2> QED
    BY <1>16, <2>1 DEF Prune, memory, AddressInv
<1>17. CASE Ack
  BY <1>17, <1>d DEF Ack, mdbx, memory
<1>18. CASE Crash
  BY <1>18, NodesInTables, StemsTouched DEF Crash, Stop, Forget, mdbx, AddressInv
<1>19. CASE Shutdown
  BY <1>19, <1>d DEF Shutdown, mdbx, memory
<1>20. CASE ShutdownStems
  BY <1>20, <1>b DEF ShutdownStems
<1>21. CASE ShutdownHead
  BY <1>21, NodesInTables, StemsTouched DEF ShutdownHead, Forget, AddressInv
<1>22. CASE RestartRefused
  BY <1>22, <1>d DEF RestartRefused, mdbx, memory
<1>23. CASE Restart
  BY <1>23, <1>d DEF Restart, mdbx
<1>24. CASE UNCHANGED vars
  BY <1>24, <1>d DEF vars, mdbx, memory
<1> QED
  BY <1>1, <1>2, <1>3, <1>4, <1>5, <1>6, <1>7, <1>8, <1>9, <1>10, <1>11, <1>12,
     <1>13, <1>14, <1>15, <1>16, <1>17, <1>18, <1>19, <1>20, <1>21, <1>22,
     <1>23, <1>24
  DEF Next, NodeStep, Revert, Commit, StopOrStart

\* No stem that MDBX, the overlay or an undo record holds is without an address,
\* whatever crashes: "Missing stem->address mappings" is never the exports' answer.
THEOREM AddressesCovered == Spec => []AddressesCover
<1>1. AddressInv => AddressesCover
  BY DEF AddressInv, AddressesCover, NodesIn, DeltaStems
<1> QED
  BY <1>1, AddressInit, AddressStep, TypeInvariant, PTL DEF Spec

----------------------------------------------------------------------------
(* Every leaf that can come back is in the key index.                        *)

Holds(T, s, i) == NodeOf(T[s])[i] # Zero
Undoes(deltas, s, i) == \E b \in BlockNumber : deltas[b][s][i] # NoWrite

\* Between commitOverlay and commitIndex the overlay and the local deltas hold
\* leaves of the segment in hand that the index is about to get.
Announced(s, i) ==
    \/ i \in kiBitmap[s]
    \/ pc = "commitIndex" /\ pendingEntries[s][i] # NoWrite

LeafInv ==
    \A s \in Stem, i \in SubIndex :
        /\ Holds(mdbxStems, s, i) => i \in kiBitmap[s]
        /\ Undoes(mdbxDeltas, s, i) => i \in kiBitmap[s]
        /\ Holds(overlay, s, i) => Announced(s, i)
        /\ delta[s][i] # NoWrite => Announced(s, i)

LEMMA LeavesOfEmpty ==
    ASSUME NEW s \in Stem, NEW i \in SubIndex
    PROVE  ~Holds(EmptyTable, s, i) /\ EmptyPatch[s][i] = NoWrite
BY DEF Holds, EmptyTable, EmptyPatch, NodeOf, EmptyNode

LEMMA LeavesOfOverlaid ==
    ASSUME NEW over, NEW base, NEW s \in Stem, NEW i \in SubIndex,
           Holds(Overlaid(over, base), s, i)
    PROVE  Holds(over, s, i) \/ Holds(base, s, i)
BY DEF Holds, Overlaid

LEMMA LeavesOfWriteThrough ==
    ASSUME NEW over \in Table, NEW base \in Table, NEW P \in Patch,
           NEW s \in Stem, NEW i \in SubIndex,
           Holds(WriteThrough(over, base, P), s, i)
    PROVE  Holds(over, s, i) \/ Holds(base, s, i) \/ P[s][i] # NoWrite
<1> DEFINE W == WriteThrough(over, base, P)
           T == Overlaid(over, base)
<1>1. CASE s \notin TouchedStems(P)
  BY <1>1 DEF Holds, WriteThrough
<1>2. CASE s \in TouchedStems(P) /\ P[s][i] = NoWrite
  <2>1. W[s] = PatchNode(NodeOf(T[s]), P[s])
    BY <1>2 DEF WriteThrough
  <2>2. W[s][i] = NodeOf(T[s])[i]
    BY <1>2, <2>1 DEF PatchNode
  <2>3. T \in Table /\ NodeOf(T[s]) \in Node
    BY OverlaidType, EmptyTypes DEF NodeOf, Table
  <2>4. W[s] \in Node
    BY <2>1, <2>3, PatchNodeType
  <2>5. NodeOf(W[s]) = W[s]
    BY <2>4, TreeAssumption DEF NodeOf
  <2> QED
    BY <2>2, <2>5, LeavesOfOverlaid DEF Holds
<1> QED
  BY <1>1, <1>2

LEMMA LeavesUndone ==
    ASSUME NEW deltas \in [BlockNumber -> Patch], NEW b, NEW d,
           NEW s \in Stem, NEW i \in SubIndex
    PROVE  /\ Undoes(SaveBlockDeltas(deltas, b, d), s, i)
                => Undoes(deltas, s, i) \/ d[s][i] # NoWrite
           /\ Undoes(DeleteBlockDeltas(deltas, b), s, i) => Undoes(deltas, s, i)
           /\ Undoes(PruneDeltasBefore(deltas, b), s, i) => Undoes(deltas, s, i)
<1>1. EmptyPatch[s][i] = NoWrite
  BY DEF EmptyPatch
<1>2. Undoes(SaveBlockDeltas(deltas, b, d), s, i)
        => Undoes(deltas, s, i) \/ d[s][i] # NoWrite
  BY DEF Undoes, SaveBlockDeltas
<1>3. Undoes(DeleteBlockDeltas(deltas, b), s, i) => Undoes(deltas, s, i)
  BY <1>1 DEF Undoes, DeleteBlockDeltas
<1>4. Undoes(PruneDeltasBefore(deltas, b), s, i) => Undoes(deltas, s, i)
  BY <1>1 DEF Undoes, PruneDeltasBefore
<1> QED
  BY <1>2, <1>3, <1>4

LEMMA LeafInit == Init => LeafInv
<1> SUFFICES ASSUME Init PROVE LeafInv
  OBVIOUS
<1>1. \A s \in Stem, i \in SubIndex :
        ~Holds(EmptyTable, s, i) /\ EmptyPatch[s][i] = NoWrite
  BY LeavesOfEmpty
<1> QED
  BY <1>1 DEF Init, LeafInv, Undoes

LEMMA LeafStep == TypeInv /\ LeafInv /\ [Next]_vars => LeafInv'
<1> SUFFICES ASSUME TypeOK, Bounds, LeafInv, [Next]_vars PROVE LeafInv'
  BY DEF TypeInv
<1>t. /\ mdbxDeltas \in [BlockNumber -> Patch]
      /\ mdbxStems \in Table /\ overlay \in Table
  BY DEF TypeOK
<1>p. pendingEntries \in Patch
  BY PendingType
\* Stems move from the overlay to MDBX, and the overlay is emptied.
<1>b. ASSUME mdbxStems' = BatchUpdateStems(mdbxStems, overlay),
             overlay' = EmptyTable,
             pc # "commitIndex",
             UNCHANGED <<mdbxDeltas, delta, kiBitmap>>
      PROVE  LeafInv'
  <2>1. ASSUME NEW s \in Stem, NEW i \in SubIndex
        PROVE  /\ Holds(mdbxStems', s, i) => i \in kiBitmap[s]
               /\ ~Holds(overlay', s, i)
    BY <1>b, LeavesOfOverlaid, LeavesOfEmpty DEF LeafInv, Announced, BatchUpdateStems
  <2> QED
    BY <1>b, <2>1 DEF LeafInv, Announced, Undoes
\* A turn of revert's loop.
<1>c. ASSUME NEW block \in BlockNumber, ApplyDeltasReverse(block),
             pc # "commitIndex",
             UNCHANGED <<mdbxStems, delta, kiBitmap>>
      PROVE  LeafInv'
  <2>1. mdbxDeltas[block] \in Patch
    BY <1>t
  <2>2. ASSUME NEW s \in Stem, NEW i \in SubIndex
        PROVE  Holds(overlay', s, i) => i \in kiBitmap[s]
    <3>1. Holds(overlay', s, i)
            => Holds(overlay, s, i) \/ Holds(mdbxStems, s, i)
                 \/ mdbxDeltas[block][s][i] # NoWrite
      BY <1>c, <1>t, <2>1, LeavesOfWriteThrough DEF ApplyDeltasReverse
    <3> QED
      BY <1>c, <3>1 DEF LeafInv, Announced, Undoes
  <2>3. ASSUME NEW s \in Stem, NEW i \in SubIndex
        PROVE  Undoes(mdbxDeltas', s, i) => i \in kiBitmap[s]
    <3>1. Undoes(mdbxDeltas', s, i) => Undoes(mdbxDeltas, s, i)
      BY <1>c, <1>t, LeavesUndone DEF ApplyDeltasReverse
    <3> QED
      BY <3>1 DEF LeafInv
  <2> QED
    BY <1>c, <2>2, <2>3 DEF LeafInv, Announced
\* Nothing of it moves.
<1>d. ASSUME UNCHANGED <<mdbxStems, mdbxDeltas, overlay, delta, kiBitmap>>,
             pc # "commitIndex"
      PROVE  LeafInv'
  BY <1>d DEF LeafInv, Announced, Undoes, Holds
\* The process stops.
<1>e. ASSUME UNCHANGED <<mdbxStems, mdbxDeltas, kiBitmap>>,
             overlay' = EmptyTable, delta' = EmptyPatch
      PROVE  LeafInv'
  <2>1. \A s \in Stem, i \in SubIndex :
          ~Holds(EmptyTable, s, i) /\ EmptyPatch[s][i] = NoWrite
    BY LeavesOfEmpty
  <2> QED
    BY <1>e, <2>1 DEF LeafInv
<1>1. ASSUME NEW k \in 0 .. MaxReorg, NodeUnwinds(k) PROVE LeafInv'
  BY <1>1, <1>d DEF NodeUnwinds, mdbx, memory, keyIndex
<1>2. ASSUME NEW body \in Body, NodeExtends(body) PROVE LeafInv'
  BY <1>2, <1>d DEF NodeExtends, mdbx, memory, keyIndex
<1>3. CASE Notify
  BY <1>3, <1>d DEF Notify, mdbx, memory, keyIndex
<1>4. CASE RevertNomt
  BY <1>4, <1>d DEF RevertNomt, mdbx, memory, keyIndex
<1>5. CASE RevertBlock
  <2>1. job.hi \in BlockNumber
    BY <1>5 DEF RevertBlock, TypeOK, Bounds, BlockNumber
  <2> QED
    BY <1>5, <1>c, <2>1 DEF RevertBlock, keyIndex
<1>6. CASE RevertLastBlock
  <2>1. job.lo \in BlockNumber
    BY <1>6 DEF RevertLastBlock, TypeOK, Bounds, BlockNumber
  <2> QED
    BY <1>6, <1>c, <2>1 DEF RevertLastBlock, keyIndex
<1>7. CASE RevertStems
  BY <1>7, <1>b DEF RevertStems, keyIndex
<1>8. CASE RevertHead
  BY <1>8, <1>d DEF RevertHead, keyIndex
<1>9. CASE CommitNomt
  BY <1>9, <1>d DEF CommitNomt, mdbx, memory, keyIndex
<1>10. CASE CommitOverlay
  <2>1. /\ overlay' = WriteThrough(overlay, mdbxStems, pendingEntries)
        /\ delta' = Undo(View, pendingEntries)
        /\ pc = "commitOverlay" /\ pc' = "commitIndex"
        /\ UNCHANGED <<mdbxStems, mdbxDeltas, kiBitmap, chain, job>>
    BY <1>10 DEF CommitOverlay, keyIndex, node
  <2>2. pendingEntries' = pendingEntries
    BY <2>1 DEF pendingEntries, ProcessChain, StateAt
  <2>3. ASSUME NEW s \in Stem, NEW i \in SubIndex
        PROVE  /\ Holds(overlay', s, i)
                    => i \in kiBitmap[s] \/ pendingEntries[s][i] # NoWrite
               /\ delta'[s][i] # NoWrite => pendingEntries[s][i] # NoWrite
    <3>1. Holds(overlay', s, i)
            => Holds(overlay, s, i) \/ Holds(mdbxStems, s, i)
                 \/ pendingEntries[s][i] # NoWrite
      BY <1>t, <1>p, <2>1, LeavesOfWriteThrough
    <3>2. delta'[s][i] # NoWrite => pendingEntries[s][i] # NoWrite
      BY <2>1 DEF Undo
    <3> QED
      BY <2>1, <3>1, <3>2 DEF LeafInv, Announced
  <2> QED
    BY <2>1, <2>2, <2>3 DEF LeafInv, Announced
<1>11. CASE CommitIndex
  <2>1. /\ pc = "commitIndex" /\ pc' = "commitDeltas"
        /\ kiBitmap' = ApplyUpdates(kiBitmap, pendingEntries)
        /\ UNCHANGED <<mdbxStems, mdbxDeltas, overlay, delta>>
    BY <1>11 DEF CommitIndex, mdbx
  <2>2. ASSUME NEW s \in Stem, NEW i \in SubIndex
        PROVE  i \in kiBitmap'[s]
                 <=> i \in kiBitmap[s] \/ pendingEntries[s][i] # NoWrite
    BY <2>1 DEF ApplyUpdates, WrittenSubIndices
  <2> QED
    BY <2>1, <2>2 DEF LeafInv, Announced, Undoes, Holds
<1>12. CASE CommitDeltas
  <2>1. /\ pc = "commitDeltas" /\ delta' = EmptyPatch
        /\ mdbxDeltas' = SaveBlockDeltas(mdbxDeltas, tip, delta)
        /\ UNCHANGED <<mdbxStems, overlay, kiBitmap>>
    BY <1>12 DEF CommitDeltas, keyIndex
  <2>2. ASSUME NEW s \in Stem, NEW i \in SubIndex
        PROVE  /\ Undoes(mdbxDeltas', s, i) => i \in kiBitmap[s]
               /\ delta'[s][i] = NoWrite
    <3>1. Undoes(mdbxDeltas', s, i) => Undoes(mdbxDeltas, s, i) \/ delta[s][i] # NoWrite
      BY <1>t, <2>1, LeavesUndone
    <3> QED
      BY <2>1, <3>1, LeavesOfEmpty DEF LeafInv, Announced
  <2> QED
    BY <2>1, <2>2 DEF LeafInv, Announced, Holds
<1>13. CASE FlushStems
  BY <1>13, <1>b DEF FlushStems, keyIndex
<1>14. CASE FlushHead
  BY <1>14, <1>d DEF FlushHead, memory, keyIndex
<1>15. CASE FlushIndexHead
  BY <1>15, <1>d DEF FlushIndexHead, mdbx
<1>16. CASE Prune
  <2>1. /\ pc = "prune"
        /\ UNCHANGED <<mdbxStems, overlay, delta, kiBitmap>>
    BY <1>16 DEF Prune, memory, keyIndex
  <2>2. ASSUME NEW s \in Stem, NEW i \in SubIndex
        PROVE  Undoes(mdbxDeltas', s, i) => Undoes(mdbxDeltas, s, i)
    BY <1>t, <1>16, LeavesUndone DEF Prune
  <2> QED
    BY <2>1, <2>2 DEF LeafInv, Announced, Holds
<1>17. CASE Ack
  BY <1>17, <1>d DEF Ack, mdbx, memory, keyIndex
<1>18. CASE Crash
  BY <1>18, <1>e DEF Crash, Stop, Forget, mdbx, keyIndex
<1>19. CASE Shutdown
  BY <1>19, <1>d DEF Shutdown, mdbx, memory, keyIndex
<1>20. CASE ShutdownStems
  BY <1>20, <1>b DEF ShutdownStems, keyIndex
<1>21. CASE ShutdownHead
  BY <1>21, <1>e DEF ShutdownHead, Forget, keyIndex
<1>22. CASE RestartRefused
  BY <1>22, <1>d DEF RestartRefused, Stopped, mdbx, memory, keyIndex
<1>23. CASE Restart
  BY <1>23, <1>d DEF Restart, mdbx, keyIndex
<1>24. CASE UNCHANGED vars
  <2>1. UNCHANGED <<mdbxStems, mdbxDeltas, overlay, delta, kiBitmap, pc, chain, job>>
    BY <1>24 DEF vars, mdbx, memory, keyIndex, node
  <2>2. pendingEntries' = pendingEntries
    BY <2>1 DEF pendingEntries, ProcessChain, StateAt
  <2> QED
    BY <2>1, <2>2 DEF LeafInv, Announced, Undoes, Holds
<1> QED
  BY <1>1, <1>2, <1>3, <1>4, <1>5, <1>6, <1>7, <1>8, <1>9, <1>10, <1>11, <1>12,
     <1>13, <1>14, <1>15, <1>16, <1>17, <1>18, <1>19, <1>20, <1>21, <1>22,
     <1>23, <1>24
  DEF Next, NodeStep, Revert, Commit, StopOrStart

\* No leaf is ever in MDBX, or can be put there by a revert, without its bit in
\* the key index: an export that walks the index misses none, whatever crashes.
THEOREM LeavesAreIndexed == Spec => []LeavesIndexed
<1>1. LeafInv => LeavesIndexed
  BY DEF LeafInv, LeavesIndexed, Holds, Undoes, Announced
<1> QED
  BY <1>1, LeafInit, LeafStep, TypeInvariant, PTL DEF Spec

----------------------------------------------------------------------------
(* The stored root is wrong only inside a flush.                             *)

RootInv == RootDescribesStems /\ RefusedOnlyTorn

LEMMA RootInit == Init => RootInv
BY DEF Init, RootInv, RootDescribesStems, RootVerified, RefusedOnlyTorn

LEMMA RootStep == RootInv /\ [Next]_vars => RootInv'
<1> SUFFICES ASSUME RootInv, [Next]_vars PROVE RootInv'
  OBVIOUS
<1> USE DEF RootInv, RootDescribesStems, RefusedOnlyTorn, TornSteps, Stopped
\* MDBX's stems and head stay, and so does the process.
<1>a. ASSUME UNCHANGED <<mdbxStems, mdbxHead>>,
             pc \notin TornSteps \cup Stopped, pc' \notin Stopped
      PROVE  RootInv'
  BY <1>a DEF RootVerified
\* The head is written for the stems that are there.
<1>b. ASSUME mdbxHead' = MemoryHead, UNCHANGED mdbxStems, pc' # "refused"
      PROVE  RootInv'
  BY <1>b DEF RootVerified, MemoryHead
<1>1. CASE NodeStep
  BY <1>1, <1>a DEF NodeStep, NodeUnwinds, NodeExtends, Notify, mdbx
<1>2. CASE RevertNomt \/ RevertBlock \/ RevertLastBlock
  BY <1>2, <1>a DEF RevertNomt, RevertBlock, RevertLastBlock, AfterRevert, mdbx
<1>3. CASE RevertStems \/ FlushStems \/ ShutdownStems
  BY <1>3 DEF RevertStems, FlushStems, ShutdownStems
<1>4. CASE RevertHead \/ FlushHead \/ ShutdownHead
  BY <1>4, <1>b DEF RevertHead, FlushHead, ShutdownHead, AfterRevert
<1>5. CASE CommitNomt \/ CommitOverlay \/ CommitIndex \/ CommitDeltas
  BY <1>5, <1>a DEF CommitNomt, CommitOverlay, CommitIndex, CommitDeltas, mdbx
<1>6. CASE FlushIndexHead \/ Prune \/ Ack
  BY <1>6, <1>a DEF FlushIndexHead, Prune, Ack, mdbx
<1>7. CASE Shutdown
  BY <1>7, <1>a DEF Shutdown, mdbx
<1>8. CASE Crash
  BY <1>8 DEF Crash, Stop, RootVerified, mdbx
<1>9. CASE RestartRefused
  BY <1>9 DEF RestartRefused, RootVerified, mdbx, node
<1>10. CASE Restart
  BY <1>10 DEF Restart, RootVerified, mdbx
<1>11. CASE UNCHANGED vars
  BY <1>11 DEF vars, RootVerified, mdbx, node
<1> QED
  BY <1>1, <1>2, <1>3, <1>4, <1>5, <1>6, <1>7, <1>8, <1>9, <1>10, <1>11
  DEF Next, Revert, Commit, StopOrStart

\* Start-up refuses the store only if the process last stopped between the two
\* transactions of a flush: no other crash, and no sequence of them, gets there.
THEOREM OnlyTornRefused == Spec => []RefusedOnlyTorn
<1>1. RootInv => RefusedOnlyTorn
  BY DEF RootInv
<1> QED
  BY <1>1, RootInit, RootStep, PTL DEF Spec

----------------------------------------------------------------------------
(* What the ExEx tells the node about its progress.                          *)

BeforeFlush == {"commitNomt", "commitOverlay", "commitIndex", "commitDeltas"}
Flushing == {"flushStems", "flushHead", "flushIndexHead"}

ProgressInv ==
    /\ ResumeNeverAhead
    /\ pc = "idle" => lastPersistedBlock <= Len(chain)
    /\ pc = "assembling" /\ job.hi < job.lo => lastPersistedBlock < job.lo
    /\ pc \in {"revertStems", "revertHead"} => lastBlock = job.lo - 1
    /\ pc \in BeforeFlush \cup Flushing
         => lastPersistedBlock < job.lo /\ job.lo <= Len(chain)
    /\ pc \in Flushing \cup {"prune", "ack"} => lastBlock = Len(chain)
    /\ pc \in {"flushIndexHead", "prune"} => LoadedHead.block = Len(chain)
    /\ pc \in {"prune", "ack"} => lastPersistedBlock <= Len(chain)
    /\ pc = "ack" => Len(chain) < LoadedHead.block + FlushInterval

LEMMA ProgressInit == Init => ProgressInv
BY DEF Init, ProgressInv, ResumeNeverAhead, LoadedHead, FreshHead, Stopped,
       BeforeFlush, Flushing

LEMMA ProgressStep == TypeInv /\ ProgressInv /\ [Next]_vars => ProgressInv'
<1> SUFFICES ASSUME TypeOK, Bounds, ProgressInv, [Next]_vars PROVE ProgressInv'
  BY DEF TypeInv
<1> USE DEF ProgressInv, ResumeNeverAhead, Stopped, BeforeFlush, Flushing
<1>a. /\ Len(chain) \in Nat /\ job.lo \in Nat /\ job.hi \in Nat
      /\ lastBlock \in Nat /\ lastPersistedBlock \in Nat
      /\ LoadedHead.block \in Nat /\ FlushInterval \in Nat /\ FlushInterval > 0
  BY LenProperties, HeadTypes, UbtAssumption DEF TypeOK, Chain, UbtHead
\* LoadedHead is a function of mdbxHead, and changes only with it.
<1>b. UNCHANGED mdbxHead => UNCHANGED LoadedHead
  BY DEF LoadedHead
\* A head record written now is what a restart will load.
<1>c. mdbxHead' = MemoryHead => LoadedHead'.block = lastBlock
  <2>1. MemoryHead \in UbtHead
    BY HeadTypes
  <2> QED
    BY <2>1, HeadAssumption DEF LoadedHead, MemoryHead
<1>1. ASSUME NEW k \in 0 .. MaxReorg, NodeUnwinds(k) PROVE ProgressInv'
  <2>1. /\ pc = "idle" /\ pc' = "assembling" /\ k \in Nat
        /\ job'.lo = Len(chain) - k + 1 /\ job'.hi = Len(chain)
        /\ UNCHANGED <<lastPersistedBlock, mdbxHead>>
    BY <1>1, UbtAssumption DEF NodeUnwinds, mdbx, memory, heads
  <2> QED
    BY <1>a, <1>b, <2>1
<1>2. ASSUME NEW body \in Body, NodeExtends(body) PROVE ProgressInv'
  <2>1. /\ pc = "assembling"
        /\ UNCHANGED <<pc, job, lastPersistedBlock, mdbxHead>>
    BY <1>2 DEF NodeExtends, mdbx, memory, heads
  <2> QED
    BY <1>a, <1>b, <2>1
<1>3. CASE Notify
  BY <1>3, <1>a, <1>b DEF Notify, mdbx, memory, heads
<1>4. CASE RevertNomt \/ RevertBlock
  BY <1>4, <1>a, <1>b DEF RevertNomt, RevertBlock, mdbx, memory, heads
<1>5. CASE RevertLastBlock
  <2>1. /\ pc = "revertBlock" /\ lastBlock' = job.lo - 1 /\ job'.lo = job.lo
        /\ pc' = IF RevertedPersisted THEN "revertStems" ELSE AfterRevert
        /\ UNCHANGED <<chain, lastPersistedBlock, mdbxHead>>
    BY <1>5 DEF RevertLastBlock, TypeOK, node
  <2> QED
    BY <1>a, <1>b, <2>1 DEF RevertedPersisted, AfterRevert, Bounds
<1>6. CASE RevertStems
  BY <1>6, <1>a, <1>b DEF RevertStems, heads, node
<1>7. CASE RevertHead
  BY <1>7, <1>a, <1>c DEF RevertHead, AfterRevert, Bounds, node
<1>8. CASE CommitNomt \/ CommitOverlay \/ CommitIndex
  BY <1>8, <1>a, <1>b
  DEF CommitNomt, CommitOverlay, CommitIndex, mdbx, memory, heads, node
<1>9. CASE CommitDeltas
  <2>1. /\ pc = "commitDeltas" /\ lastBlock' = Len(chain)
        /\ pc' = IF ShouldFlush(Len(chain)) THEN "flushStems" ELSE "ack"
        /\ UNCHANGED <<chain, job, lastPersistedBlock, mdbxHead>>
    BY <1>9 DEF CommitDeltas, tip, node
  <2> QED
    BY <1>a, <1>b, <2>1 DEF ShouldFlush
<1>10. CASE FlushStems
  BY <1>10, <1>a, <1>b DEF FlushStems, heads, node
<1>11. CASE FlushHead
  BY <1>11, <1>a, <1>c DEF FlushHead, memory, heads, node
<1>12. CASE FlushIndexHead
  BY <1>12, <1>a, <1>b DEF FlushIndexHead, mdbx, node
<1>13. CASE Prune
  BY <1>13, <1>a, <1>b DEF Prune, memory, heads, node
<1>14. CASE Ack
  BY <1>14, <1>a, <1>b DEF Ack, mdbx, memory, heads
<1>15. CASE Crash \/ ShutdownHead \/ RestartRefused
  BY <1>15 DEF Crash, Stop, ShutdownHead, RestartRefused
<1>16. CASE Shutdown \/ ShutdownStems
  BY <1>16, <1>a, <1>b DEF Shutdown, ShutdownStems, mdbx, memory, heads
<1>17. CASE Restart
  <2>1. /\ LoadedHead.block = Len(LoadedHead.hash)
        /\ LoadedHead.hash \in Seq(Block)
    BY HeadTypes DEF LoadedHead, FreshHead, UbtHead, Chain, Bounds
  <2>2. EffectiveHead \in Nat /\ EffectiveHead <= LoadedHead.block
    BY <1>a DEF EffectiveHead, TypeOK
  <2>3. Len(SubSeq(LoadedHead.hash, 1, EffectiveHead)) = EffectiveHead
    BY <1>a, <2>1, <2>2
  <2>4. /\ Len(chain') >= EffectiveHead /\ lastPersistedBlock' = EffectiveHead
        /\ Len(chain') \in Nat /\ pc' = "idle" /\ UNCHANGED mdbxHead
    <3>1. \A k \in 0 .. Len(chain) : Len(SubSeq(chain, 1, k)) = k
      BY <1>a DEF TypeOK, Chain
    <3>2. Len(chain') >= EffectiveHead /\ Len(chain') \in Nat
      BY <1>17, <1>a, <2>2, <2>3, <3>1 DEF Restart, Resume, TypeOK, Chain
    <3> QED
      BY <1>17, <3>2 DEF Restart, mdbx
  <2> QED
    BY <1>b, <2>2, <2>4
<1>18. CASE UNCHANGED vars
  BY <1>18, <1>a, <1>b DEF vars, mdbx, memory, heads, node
<1> QED
  BY <1>1, <1>2, <1>3, <1>4, <1>5, <1>6, <1>7, <1>8, <1>9, <1>10, <1>11, <1>12,
     <1>13, <1>14, <1>15, <1>16, <1>17, <1>18
  DEF Next, NodeStep, Revert, Commit, StopOrStart

\* The head that get_head gives the node is one that MDBX holds: no crash, and
\* no order of reverts and flushes, makes the ExEx resume past its own state.
THEOREM ResumesFromStored == Spec => []ResumeNeverAhead
<1>1. ProgressInv => ResumeNeverAhead
  BY DEF ProgressInv
<1> QED
  BY <1>1, ProgressInit, ProgressStep, TypeInvariant, PTL DEF Spec

\* FinishedHeight is only sent for a block less than flush_interval above the
\* head in MDBX, so a restart has less than one interval to replay.
THEOREM AcksNearFlush == Spec => AckNeverOutrunsFlush
<1> DEFINE Acked ==
      finished' # finished => Len(finished') < LoadedHead.block + FlushInterval
<1>1. ProgressInv /\ [Next]_vars => [Acked]_vars
  <2> SUFFICES ASSUME ProgressInv, Next, finished' # finished
              PROVE  Len(finished') < LoadedHead.block + FlushInterval
    BY DEF vars, node
  <2>1. CASE Ack
    BY <2>1 DEF Ack, ProgressInv
  <2>2. CASE NodeStep \/ Revert
    BY <2>2 DEF NodeStep, NodeUnwinds, NodeExtends, Notify, Revert, RevertNomt,
                RevertBlock, RevertLastBlock, RevertStems, RevertHead, node
  <2>3. CASE Commit /\ ~Ack
    BY <2>3 DEF Commit, CommitNomt, CommitOverlay, CommitIndex, CommitDeltas,
                FlushStems, FlushHead, FlushIndexHead, Prune, node
  <2>4. CASE StopOrStart
    BY <2>4 DEF StopOrStart, Crash, Shutdown, ShutdownStems, ShutdownHead,
                RestartRefused, Restart, node
  <2> QED
    BY <2>1, <2>2, <2>3, <2>4 DEF Next
<1> QED
  BY <1>1, ProgressInit, ProgressStep, TypeInvariant, PTL
  DEF Spec, AckNeverOutrunsFlush

----------------------------------------------------------------------------
(* The stem count.                                                           *)

Indexed == IndexedStems(kiBitmap)

\* The count a restart takes up is no larger than the index, which only grows;
\* until the first stop nothing is taken up, and the two move together.
CountInv ==
    /\ stemCount <= Cardinality(Indexed)
    /\ mdbxHead # NoHead => mdbxHead.stemCount <= Cardinality(Indexed)
    /\ pc \in Stopped => stops > 0
    /\ stops = 0 => stemCount = Cardinality(Indexed)

LEMMA IndexedCount == ASSUME TypeOK PROVE Cardinality(Indexed) \in Nat
<1>1. Indexed \subseteq Stem
  BY DEF Indexed, IndexedStems
<1> QED
  BY <1>1, TreeAssumption, FS_Subset, FS_CardinalityType

\* What apply_updates returns is exactly by how much the index has grown.
LEMMA IndexGrows ==
    ASSUME TypeOK, NEW P \in Patch
    PROVE  Cardinality(IndexedStems(ApplyUpdates(kiBitmap, P)))
             = Cardinality(Indexed) + NewStems(kiBitmap, P)
<1> DEFINE New == TouchedStems(P) \ IndexedStems(kiBitmap)
<1>1. IndexedStems(ApplyUpdates(kiBitmap, P)) = Indexed \cup New
  BY DEF Indexed, IndexedStems, ApplyUpdates, WrittenSubIndices, TouchedStems, TypeOK
<1>2. Indexed \subseteq Stem /\ New \subseteq Stem
  BY DEF Indexed, IndexedStems, TouchedStems
<1>3. IsFiniteSet(Indexed) /\ IsFiniteSet(New)
  BY <1>2, TreeAssumption, FS_Subset
<1>4. Indexed \cap New = {}
  BY DEF Indexed
<1> HIDE DEF New
<1>5. Cardinality(Indexed \cup New) = Cardinality(Indexed) + Cardinality(New)
  <2>1. Cardinality(Indexed \cup New)
          = Cardinality(Indexed) + Cardinality(New) - Cardinality(Indexed \cap New)
    BY <1>3, FS_Union
  <2>2. Cardinality(Indexed \cap New) = 0
    BY <1>4, FS_EmptySet
  <2>3. Cardinality(Indexed) \in Nat /\ Cardinality(New) \in Nat
    BY <1>3, FS_CardinalityType
  <2> QED
    BY <2>1, <2>2, <2>3
<1> QED
  BY <1>1, <1>5 DEF NewStems, New

LEMMA CountInit == Init => CountInv
<1> SUFFICES ASSUME Init PROVE CountInv
  OBVIOUS
<1>1. Indexed = {}
  BY DEF Init, Indexed, IndexedStems
<1>2. Cardinality(Indexed) = 0
  BY <1>1, FS_EmptySet
<1> QED
  BY <1>2 DEF Init, CountInv, Stopped

LEMMA CountStep == TypeInv /\ CountInv /\ [Next]_vars => CountInv'
<1> SUFFICES ASSUME TypeOK, CountInv, [Next]_vars PROVE CountInv'
  BY DEF TypeInv
<1> USE DEF CountInv, Stopped
<1>a. /\ Cardinality(Indexed) \in Nat /\ stemCount \in Nat /\ stops \in Nat
      /\ 0 <= Cardinality(Indexed)
  BY IndexedCount DEF TypeOK
<1>b. UNCHANGED kiBitmap => UNCHANGED Indexed
  BY DEF Indexed, IndexedStems
\* Neither the index nor a count changes, and the process goes on.
<1>c. ASSUME UNCHANGED <<kiBitmap, stemCount, stops>>,
             pc' \notin Stopped \/ pc \in Stopped,
             mdbxHead' \in {mdbxHead, MemoryHead}
      PROVE  CountInv'
  BY <1>a, <1>b, <1>c DEF MemoryHead
\* The process stops.
<1>d. ASSUME UNCHANGED kiBitmap, stemCount' = 0, stops' = stops + 1,
             mdbxHead' \in {mdbxHead, MemoryHead}
      PROVE  CountInv'
  BY <1>a, <1>b, <1>d DEF MemoryHead
<1>1. CASE NodeStep
  BY <1>1, <1>c
  DEF NodeStep, NodeUnwinds, NodeExtends, Notify, mdbx, keyIndex, memory, node
<1>2. CASE Revert
  BY <1>2, <1>c
  DEF Revert, RevertNomt, RevertBlock, RevertLastBlock, RevertStems, RevertHead,
      AfterRevert, mdbx, keyIndex, memory, node
<1>3. CASE CommitIndex
  <2>1. /\ kiBitmap' = ApplyUpdates(kiBitmap, pendingEntries)
        /\ stemCount' = stemCount + NewStems(kiBitmap, pendingEntries)
        /\ UNCHANGED <<mdbxHead, stops>> /\ pc' = "commitDeltas"
    BY <1>3 DEF CommitIndex, mdbx, node
  <2>2. Cardinality(Indexed') = Cardinality(Indexed) + NewStems(kiBitmap, pendingEntries)
    BY <2>1, IndexGrows, PendingType DEF Indexed
  <2>3. NewStems(kiBitmap, pendingEntries) \in Nat
    BY CountType, PendingType DEF TypeOK
  <2>4. mdbxHead # NoHead => mdbxHead.stemCount \in Nat
    BY DEF TypeOK, UbtHead
  <2> QED
    BY <1>a, <2>1, <2>2, <2>3, <2>4
<1>4. CASE Commit /\ ~CommitIndex
  BY <1>4, <1>c
  DEF Commit, CommitNomt, CommitOverlay, CommitDeltas, FlushStems, FlushHead,
      FlushIndexHead, Prune, Ack, mdbx, keyIndex, memory, node
<1>5. CASE Crash \/ ShutdownHead
  BY <1>5, <1>d DEF Crash, Stop, ShutdownHead, Forget, mdbx, keyIndex
<1>6. CASE Shutdown \/ ShutdownStems \/ RestartRefused
  BY <1>6, <1>c
  DEF Shutdown, ShutdownStems, RestartRefused, mdbx, keyIndex, memory, node
<1>7. CASE Restart
  <2>1. /\ pc = "down" /\ pc' = "idle" /\ stemCount' = LoadedHead.stemCount
        /\ UNCHANGED <<kiBitmap, mdbxHead, stops>>
    BY <1>7 DEF Restart, mdbx, keyIndex
  <2>2. LoadedHead.stemCount <= Cardinality(Indexed)
    BY <1>a DEF LoadedHead, FreshHead
  <2> QED
    BY <1>a, <1>b, <2>1, <2>2
<1>8. CASE UNCHANGED vars
  BY <1>8, <1>c DEF vars, mdbx, keyIndex, memory, node
<1> QED
  BY <1>1, <1>2, <1>3, <1>4, <1>5, <1>6, <1>7, <1>8
  DEF Next, Commit, StopOrStart

\* stem_count never exceeds the number of stems in the key index, and equals it
\* until the first stop: no reorg, and no replay after one, inflates it.
THEOREM StemCountNeverInflated == Spec => []StemCountBounded
<1>1. CountInv => StemCountBounded
  BY DEF CountInv, StemCountBounded, Indexed
<1> QED
  BY <1>1, CountInit, CountStep, TypeInvariant, PTL DEF Spec
=============================================================================
