------------------------- MODULE StateExportProofs -------------------------
(***************************************************************************)
(* Theorems of StateExport for every value of its constants, with the      *)
(* steps of a call and of the ExEx interleaved in any way, and crashes     *)
(* anywhere.                                                               *)
(***************************************************************************)
EXTENDS StateExport, UbtExExProofs

----------------------------------------------------------------------------
(* Calls only read: what holds of the ExEx alone holds beside them.          *)

LEMMA ExportStepReads == [ExportNext]_<<vars, exportVars>> => [Next]_vars
BY DEF ExportNext, ExExStep

\* To the ExEx, an export is a stutter: ExportSpec implements Spec.
THEOREM ExportsOnlyRead == ExportSpec => Spec
<1>1. ExportInit => Init
  BY DEF ExportInit
<1> QED
  BY <1>1, ExportStepReads, PTL DEF ExportSpec, Spec

----------------------------------------------------------------------------
(* Types.                                                                    *)

LEMMA NoCallType ==
    /\ NoCall \in Call
    /\ EmptyPatch \in Patch
    /\ \A c \in Calls : c \in Call
<1>1. MaxHeight \in Nat
  BY UbtAssumption
<1> QED
  BY <1>1, EmptyTypes DEF NoCall, Call, Calls

LEMMA WrittenFile ==
    ASSUME NEW F \in Patch, NEW s \in Stem, NEW i \in SubIndex, NEW v \in Leaf
    PROVE  [F EXCEPT ![s][i] = v] \in Patch
BY DEF Patch

LEMMA LeafOfNode ==
    ASSUME NEW T \in Table, NEW s \in Stem, NEW i \in SubIndex
    PROVE  NodeOf(T[s])[i] \in Leaf
<1>1. NodeOf(T[s]) \in Node
  BY EmptyTypes DEF NodeOf, Table
<1> QED
  BY <1>1 DEF Node

LEMMA ExportTypeInit == ExportInit => ExportTypeOK
<1> SUFFICES ASSUME Silent PROVE ExportTypeOK
  BY DEF ExportInit
<1>1. call \in Call /\ file \in Patch
  BY NoCallType DEF Silent
<1>2. at \in At /\ calm \in BOOLEAN
  BY DEF Silent, At
<1> QED
  BY <1>1, <1>2 DEF Silent, ExportTypeOK

LEMMA HangUpType == HangUp => ExportTypeOK'
<1> SUFFICES ASSUME HangUp PROVE ExportTypeOK'
  OBVIOUS
<1>1. call' \in Call /\ file' \in Patch
  BY NoCallType DEF HangUp
<1>2. at' \in At /\ calm' \in BOOLEAN
  BY DEF HangUp, At
<1> QED
  BY <1>1, <1>2 DEF HangUp, ExportTypeOK

LEMMA ExportTypeStep ==
    TypeOK /\ ExportTypeOK /\ [ExportNext]_<<vars, exportVars>> => ExportTypeOK'
<1> SUFFICES ASSUME TypeOK, ExportTypeOK, [ExportNext]_<<vars, exportVars>>
             PROVE  ExportTypeOK'
  OBVIOUS
<1> USE DEF ExportTypeOK
<1>1. CASE \E c \in Calls : Ask(c)
  BY <1>1, NoCallType DEF Ask, At, reply
<1>2. CASE ReadNomtHead
  BY <1>2 DEF ReadNomtHead, At, TypeOK
<1>3. CASE EnsureNomtSynced
  BY <1>3 DEF EnsureNomtSynced, At
<1>4. CASE ReadIndexHead
  BY <1>4 DEF ReadIndexHead, At, TypeOK
<1>5. CASE ForEachStem
  <2>1. todo' \in SUBSET (Stem \X SubIndex)
    <3>1. Wanted \subseteq Stem
      BY ExportAssumption DEF Wanted
    <3> QED
      BY <1>5, <3>1 DEF ForEachStem
  <2> QED
    BY <1>5, <2>1 DEF ForEachStem, At
<1>6. CASE ReadNomtValue
  <2>1. PICK l \in todo : /\ todo' = todo \ {l}
                          /\ file' = [file EXCEPT ![l[1]][l[2]] = nomtState[l[1]][l[2]]]
    BY <1>6 DEF ReadNomtValue
  <2>2. l[1] \in Stem /\ l[2] \in SubIndex
    OBVIOUS
  <2>3. nomtState[l[1]][l[2]] \in Leaf
    BY <2>2 DEF TypeOK, State, Node
  <2>4. file' \in Patch
    BY <2>1, <2>2, <2>3, WrittenFile
  <2> QED
    BY <1>6, <2>1, <2>4 DEF ReadNomtValue
<1>7. CASE ReadMdbxHead
  <2>1. call.from \in Nat
    BY UbtAssumption DEF Call
  <2> QED
    BY <1>7, <2>1 DEF ReadMdbxHead, At, TypeOK
<1>8. CASE LoadBlockDeltas
  <2>1. todo' \in SUBSET (Stem \X SubIndex)
    BY <1>8 DEF LoadBlockDeltas
  <2>2. cursor' \in Nat /\ at' \in At
    BY <1>8 DEF LoadBlockDeltas, At
  <2> QED
    BY <1>8, <2>1, <2>2 DEF LoadBlockDeltas
<1>9. CASE ReadDeltaLeaf
  <2>1. PICK l \in todo :
          \/ /\ todo' = todo \ {l}
             /\ file' = [file EXCEPT ![l[1]][l[2]] = NodeOf(mdbxStems[l[1]])[l[2]]]
             /\ UNCHANGED at
          \/ at' = "noAddress" /\ UNCHANGED <<todo, file>>
    BY <1>9 DEF ReadDeltaLeaf
  <2>2. l[1] \in Stem /\ l[2] \in SubIndex
    OBVIOUS
  <2>3. NodeOf(mdbxStems[l[1]])[l[2]] \in Leaf
    BY <2>2, LeafOfNode DEF TypeOK
  <2>4. file' \in Patch
    BY <2>1, <2>2, <2>3, WrittenFile
  <2>5. at' \in At /\ todo' \in SUBSET (Stem \X SubIndex)
    BY <2>1 DEF At
  <2> QED
    BY <1>9, <2>4, <2>5 DEF ReadDeltaLeaf
<1>10. CASE IterStems
  <2>1. \A s \in Stem, i \in SubIndex : NodeOf(mdbxStems[s])[i] \in Leaf
    BY LeafOfNode DEF TypeOK
  <2>2. file' \in Patch /\ at' \in At
    BY <1>10, <2>1 DEF IterStems, Patch, At
  <2> QED
    BY <1>10, <2>2 DEF IterStems
<1>11. CASE Finish
  BY <1>11 DEF Finish, At, reply
<1>12. CASE Refuse \/ Deliver
  BY <1>12, HangUpType DEF Refuse, Deliver
<1>13. CASE ExExStep
  <2>1. CASE HangUp
    BY <2>1, HangUpType
  <2>2. CASE calm' = FALSE /\ UNCHANGED <<call, at, reply>>
    BY <2>2 DEF reply
  <2> QED
    BY <1>13, <2>1, <2>2 DEF ExExStep
<1>14. CASE UNCHANGED <<vars, exportVars>>
  BY <1>14 DEF exportVars, reply
<1> QED
  BY <1>1, <1>2, <1>3, <1>4, <1>5, <1>6, <1>7, <1>8, <1>9, <1>10, <1>11, <1>12,
     <1>13, <1>14
  DEF ExportNext, ExportStep

\* Every variable of a call keeps its type.
THEOREM ExportTypeCorrect == ExportSpec => []ExportTypeOK
<1>1. TypeInv => TypeOK
  BY DEF TypeInv
<1> QED
  BY <1>1, ExportTypeInit, ExportTypeStep, ExportsOnlyRead, TypeInvariant, PTL
  DEF ExportSpec

----------------------------------------------------------------------------
(* No call misses an address.                                                *)

\* A stem that is to be looked up came from an undo record or from MDBX, when
\* AddressInv held; and addresses stay.
CallInv ==
    /\ at # "noAddress"
    /\ at \in {"none", "nomtHead", "indexHead", "mdbxHead"} => todo = {}
    /\ at \in {"deltas", "values"} => \A l \in todo : l[1] \in mdbxAddrs

LEMMA AddressesGrow == [Next]_vars => mdbxAddrs \subseteq mdbxAddrs'
<1> SUFFICES ASSUME [Next]_vars PROVE mdbxAddrs \subseteq mdbxAddrs'
  OBVIOUS
<1>1. CASE NodeStep
  BY <1>1 DEF NodeStep, NodeUnwinds, NodeExtends, Notify, mdbx
<1>2. CASE Revert
  BY <1>2 DEF Revert, RevertNomt, RevertBlock, RevertLastBlock, RevertStems, RevertHead, mdbx
<1>3. CASE Commit
  BY <1>3 DEF Commit, CommitNomt, CommitOverlay, CommitIndex, CommitDeltas, FlushStems,
              FlushHead, FlushIndexHead, Prune, Ack, BatchSaveStemAddresses, mdbx
<1>4. CASE StopOrStart
  BY <1>4 DEF StopOrStart, Crash, Shutdown, ShutdownStems, ShutdownHead,
              RestartRefused, Restart, mdbx
<1>5. CASE UNCHANGED vars
  BY <1>5 DEF vars, mdbx
<1> QED
  BY <1>1, <1>2, <1>3, <1>4, <1>5 DEF Next

LEMMA CallInit == ExportInit => CallInv
BY DEF ExportInit, Silent, CallInv

LEMMA CallStep ==
    AddressInv /\ ExportTypeOK /\ CallInv /\ [ExportNext]_<<vars, exportVars>> => CallInv'
<1> SUFFICES ASSUME AddressInv, ExportTypeOK, CallInv, [ExportNext]_<<vars, exportVars>>
             PROVE  CallInv'
  OBVIOUS
<1>a. mdbxAddrs \subseteq mdbxAddrs'
  BY ExportStepReads, AddressesGrow
<1>b. CASE HangUp
  BY <1>b DEF HangUp, CallInv
<1>1. CASE \/ \E c \in Calls : Ask(c)
           \/ ReadNomtHead \/ EnsureNomtSynced \/ ReadIndexHead \/ ForEachStem
           \/ ReadNomtValue \/ Finish
  BY <1>1 DEF Ask, ReadNomtHead, EnsureNomtSynced, ReadIndexHead, ForEachStem,
              ReadNomtValue, Finish, reply, CallInv
<1>2. CASE ReadMdbxHead /\ UNCHANGED vars
  <2>1. at' \in {"deltas", "mdbxStems"} /\ UNCHANGED todo
    BY <1>2 DEF ReadMdbxHead
  <2>2. at = "mdbxHead"
    BY <1>2 DEF ReadMdbxHead
  <2> QED
    BY <2>1, <2>2, <1>2 DEF CallInv
<1>3. CASE LoadBlockDeltas /\ UNCHANGED vars
  <2>1. ASSUME NEW l \in todo' PROVE l[1] \in mdbxAddrs
    <3>1. CASE l \in todo
      BY <1>3, <3>1 DEF LoadBlockDeltas, CallInv
    <3>2. CASE l \notin todo
      <4>1. /\ cursor \in BlockNumber
            /\ l \in Stem \X SubIndex
            /\ mdbxDeltas[cursor][l[1]][l[2]] # NoWrite
        BY <1>3, <3>2 DEF LoadBlockDeltas
      <4>2. l[1] \in DeltaStems(mdbxDeltas)
        BY <4>1 DEF DeltaStems, TouchedStems
      <4> QED
        BY <4>2 DEF AddressInv
    <3> QED
      BY <3>1, <3>2
  <2> QED
    BY <1>3, <1>a, <2>1 DEF LoadBlockDeltas, CallInv
<1>4. CASE ReadDeltaLeaf
  BY <1>4, <1>a DEF ReadDeltaLeaf, CallInv
<1>5. CASE IterStems
  <2>1. \A s \in Stem : mdbxStems[s] # NoNode => s \in mdbxAddrs
    BY DEF AddressInv, NodesIn
  <2> QED
    BY <1>5, <2>1 DEF IterStems, CallInv
<1>6. CASE UNCHANGED <<call, at, reply>>
  BY <1>6, <1>a DEF reply, CallInv
<1> QED
  BY <1>b, <1>1, <1>2, <1>3, <1>4, <1>5, <1>6
  DEF ExportNext, ExportStep, ExExStep, Refuse, Deliver, exportVars

\* No call ends for want of an address: exports of MDBX and of deltas find one for
\* every stem they meet, whatever the ExEx writes between their reads.
THEOREM AddressNeverMissing == ExportSpec => []AddressAlwaysFound
<1>1. CallInv => AddressAlwaysFound
  BY DEF CallInv, AddressAlwaysFound
<1>2. Spec => []AddressInv
  BY AddressInit, AddressStep, TypeInvariant, PTL DEF Spec
<1> QED
  BY <1>1, <1>2, CallInit, CallStep, ExportTypeCorrect, ExportsOnlyRead, PTL
  DEF ExportSpec

----------------------------------------------------------------------------
(* Every leaf of a head's block is in the key index.                         *)

BlockIndexed(b, bitmap) ==
    \A s \in Stem, i \in SubIndex : b.post[s][i] # Zero => i \in bitmap[s]
ChainIndexed(c, bitmap) == \A k \in 1 .. Len(c) : BlockIndexed(c[k], bitmap)

LEMMA IndexedState ==
    ASSUME NEW c \in Chain, NEW bitmap, ChainIndexed(c, bitmap),
           NEW s \in Stem, NEW i \in SubIndex, StateAt(c)[s][i] # Zero
    PROVE  i \in bitmap[s]
<1>1. CASE c = <<>>
  BY <1>1 DEF StateAt, EmptyState, EmptyNode
<1>2. CASE c # <<>>
  <2>1. Len(c) \in 1 .. Len(c)
    BY <1>2, EmptySeq, LenProperties DEF Chain
  <2>2. c[Len(c)].post[s][i] # Zero
    BY <1>2 DEF StateAt
  <2> QED
    BY <2>1, <2>2 DEF ChainIndexed, BlockIndexed
<1> QED
  BY <1>1, <1>2

LEMMA IndexedPrefix ==
    ASSUME NEW c \in Chain, NEW n \in Int, n <= Len(c),
           NEW bitmap, \A k \in 1 .. n : BlockIndexed(c[k], bitmap)
    PROVE  ChainIndexed(SubSeq(c, 1, n), bitmap)
<1>1. /\ \A k \in 1 .. n : SubSeq(c, 1, n)[k] = c[k]
      /\ Len(SubSeq(c, 1, n)) = IF n <= 0 THEN 0 ELSE n
  BY SubSeqProperties, LenProperties DEF Chain
<1> QED
  BY <1>1 DEF ChainIndexed

LEMMA IndexedLater ==
    ASSUME NEW c, NEW bitmap, NEW later,
           \A s \in Stem : bitmap[s] \subseteq later[s],
           ChainIndexed(c, bitmap)
    PROVE  ChainIndexed(c, later)
BY DEF ChainIndexed, BlockIndexed

LEMMA BitmapsGrow ==
    TypeOK /\ [Next]_vars => \A s \in Stem : kiBitmap[s] \subseteq kiBitmap'[s]
<1> SUFFICES ASSUME TypeOK, [Next]_vars
             PROVE  \A s \in Stem : kiBitmap[s] \subseteq kiBitmap'[s]
  OBVIOUS
<1>1. CASE NodeStep
  BY <1>1 DEF NodeStep, NodeUnwinds, NodeExtends, Notify, keyIndex
<1>2. CASE Revert
  BY <1>2 DEF Revert, RevertNomt, RevertBlock, RevertLastBlock, RevertStems, RevertHead,
              keyIndex
<1>3. CASE CommitIndex
  BY <1>3 DEF CommitIndex, ApplyUpdates
<1>4. CASE Commit /\ ~CommitIndex
  BY <1>4 DEF Commit, CommitNomt, CommitOverlay, CommitDeltas, FlushStems,
              FlushHead, FlushIndexHead, Prune, Ack, keyIndex
<1>5. CASE StopOrStart
  BY <1>5 DEF StopOrStart, Crash, Shutdown, ShutdownStems, ShutdownHead,
              RestartRefused, Restart, keyIndex
<1>6. CASE UNCHANGED vars
  BY <1>6 DEF vars, keyIndex
<1> QED
  BY <1>1, <1>2, <1>3, <1>4, <1>5, <1>6 DEF Next

\* The handler has taken the blocks of a segment over, but not yet written the
\* bits of their leaves.
Unindexed == {"assembling", "commitNomt", "commitOverlay", "commitIndex"} \cup RevertSteps

AwaitsIndex(s, i) == \E j \in job.lo .. Len(chain) : Writes[chain[j].body][s][i] # NoWrite

\* The head records, and the chain they are taken from, up to the segment that is
\* being worked on; a leaf that a block of the segment has, but did not write, is
\* in the index or was written by one before it in the segment.
HeadsIndexed ==
    /\ ChainIndexed(lastHash, kiBitmap)
    /\ mdbxHead # NoHead => ChainIndexed(mdbxHead.hash, kiBitmap)
    /\ kiHead # NoHead => ChainIndexed(kiHead.hash, kiBitmap)
    /\ pc \notin Stopped \cup Unindexed => ChainIndexed(chain, kiBitmap)
    /\ pc \in Unindexed =>
        \A k \in 1 .. Len(chain) :
            /\ k < job.lo => BlockIndexed(chain[k], kiBitmap)
            /\ \A s \in Stem, i \in SubIndex :
                chain[k].post[s][i] # Zero => i \in kiBitmap[s] \/ AwaitsIndex(s, i)

LEMMA HeadsIndexedInit == Init => HeadsIndexed
BY DEF Init, HeadsIndexed, ChainIndexed, Unindexed, RevertSteps

\* What is indexed of the two head records, and of the chain last committed, is
\* not disturbed by a step that leaves them alone.
LEMMA RecordsIndexed ==
    ASSUME TypeOK, HeadsIndexed, [Next]_vars
    PROVE  /\ ChainIndexed(lastHash, kiBitmap')
           /\ mdbxHead # NoHead => ChainIndexed(mdbxHead.hash, kiBitmap')
           /\ kiHead # NoHead => ChainIndexed(kiHead.hash, kiBitmap')
           /\ ChainIndexed(chain, kiBitmap) => ChainIndexed(chain, kiBitmap')
           /\ ChainIndexed(<<>>, kiBitmap')
<1>1. \A s \in Stem : kiBitmap[s] \subseteq kiBitmap'[s]
  BY BitmapsGrow
<1>2. ChainIndexed(<<>>, kiBitmap')
  BY DEF ChainIndexed
<1> QED
  BY <1>1, <1>2, IndexedLater DEF HeadsIndexed

LEMMA HeadsIndexedNode ==
    TypeInv /\ HeadsIndexed /\ NodeStep => HeadsIndexed'
<1> SUFFICES ASSUME TypeOK, Bounds, HeadsIndexed, NodeStep PROVE HeadsIndexed'
  BY DEF TypeInv
<1>a. /\ chain \in Chain /\ Len(chain) \in Nat
      /\ job.lo \in Nat \ {0} /\ job.hi \in Nat
  BY LenProperties DEF TypeOK, Chain
<1>1. CASE \E k \in 0 .. MaxReorg : NodeUnwinds(k)
  <2>1. PICK k \in 0 .. MaxReorg : NodeUnwinds(k)
    BY <1>1
  <2>2. k \in Nat /\ k <= Len(chain) /\ pc = "idle"
    BY <2>1, UbtAssumption DEF NodeUnwinds
  <2> DEFINE n == Len(chain) - k
  <2>3. ChainIndexed(chain, kiBitmap)
    BY <2>2 DEF HeadsIndexed, Stopped, Unindexed, RevertSteps
  <2>4. /\ n \in Nat /\ n <= Len(chain)
        /\ chain' = SubSeq(chain, 1, n)
        /\ job' = [lo |-> n + 1, hi |-> Len(chain)]
        /\ pc' = "assembling"
    BY <1>a, <2>1, <2>2 DEF NodeUnwinds
  <2> HIDE DEF n
  <2>5. Len(chain') = n /\ \A j \in 1 .. n : chain'[j] = chain[j]
    BY <1>a, <2>4, SubSeqProperties DEF Chain
  <2>6. ASSUME NEW j \in 1 .. Len(chain') PROVE BlockIndexed(chain'[j], kiBitmap)
    <3>1. j \in 1 .. Len(chain) /\ chain'[j] = chain[j]
      BY <1>a, <2>4, <2>5
    <3> QED
      BY <2>3, <3>1 DEF ChainIndexed
  <2>7. UNCHANGED <<kiBitmap, kiHead, lastHash, mdbxHead>>
    BY <2>1 DEF NodeUnwinds, keyIndex, memory, heads, mdbx
  <2> QED
    BY <2>4, <2>6, <2>7 DEF HeadsIndexed, BlockIndexed, Unindexed, Stopped
<1>2. CASE \E body \in Body : NodeExtends(body)
  <2>1. PICK body \in Body : NodeExtends(body)
    BY <1>2
  <2> DEFINE post == Patched(StateAt(chain), Writes[body])
             n == Len(chain)
  <2>2. /\ pc = "assembling" /\ pc' = "assembling" /\ UNCHANGED job
        /\ chain' = Append(chain, [body |-> body, post |-> post])
        /\ n + 1 < job.lo + MaxBatch
        /\ UNCHANGED <<kiBitmap, kiHead, lastHash, mdbxHead>>
    BY <2>1 DEF NodeExtends, keyIndex, memory, heads, mdbx
  <2>3. /\ Len(chain') = n + 1
        /\ \A j \in 1 .. n : chain'[j] = chain[j]
        /\ chain'[n + 1] = [body |-> body, post |-> post]
    <3>1. [body |-> body, post |-> post] \in Block
      BY UbtAssumption, PatchedType, StateAtType DEF Block, TypeOK
    <3> QED
      BY <1>a, <2>2, <3>1, AppendProperties DEF Chain
  <2>4. job.lo <= n + 1
    BY DEF Bounds
  <2>5. ASSUME NEW s \in Stem, NEW i \in SubIndex
        PROVE  /\ AwaitsIndex(s, i) => AwaitsIndex(s, i)'
               /\ Writes[body][s][i] # NoWrite => AwaitsIndex(s, i)'
    <3>1. \A j \in job.lo .. n : j \in job'.lo .. Len(chain') /\ chain'[j] = chain[j]
      BY <1>a, <2>2, <2>3
    <3>2. n + 1 \in job'.lo .. Len(chain') /\ chain'[n + 1].body = body
      BY <1>a, <2>2, <2>3, <2>4
    <3> QED
      BY <3>1, <3>2 DEF AwaitsIndex
  <2>6. ASSUME NEW s \in Stem, NEW i \in SubIndex, post[s][i] # Zero
        PROVE  i \in kiBitmap[s] \/ AwaitsIndex(s, i)'
    <3>1. CASE Writes[body][s][i] # NoWrite
      BY <2>5, <3>1
    <3>2. CASE Writes[body][s][i] = NoWrite
      <4>1. StateAt(chain)[s][i] # Zero
        BY <2>6, <3>2 DEF Patched, PatchNode
      <4>2. n \in 1 .. n /\ chain[n].post[s][i] # Zero
        <5>1. chain # <<>>
          BY <4>1 DEF StateAt, EmptyState, EmptyNode
        <5>2. n # 0
          BY <5>1, EmptySeq DEF TypeOK, Chain
        <5> QED
          BY <1>a, <4>1, <5>1, <5>2 DEF StateAt
      <4>3. i \in kiBitmap[s] \/ AwaitsIndex(s, i)
        BY <2>2, <4>2 DEF HeadsIndexed, Unindexed
      <4> QED
        BY <4>3, <2>5
    <3> QED
      BY <3>1, <3>2
  <2> HIDE DEF post, n
  <2>7. ASSUME NEW k \in 1 .. Len(chain')
        PROVE  /\ k < job.lo => BlockIndexed(chain'[k], kiBitmap)
               /\ \A s \in Stem, i \in SubIndex :
                    chain'[k].post[s][i] # Zero => i \in kiBitmap[s] \/ AwaitsIndex(s, i)'
    <3>1. CASE k = n + 1
      <4>1. ~(k < job.lo)
        BY <1>a, <2>4, <3>1 DEF n
      <4> QED
        BY <2>3, <2>6, <3>1, <4>1
    <3>2. CASE k # n + 1
      <4>1. k \in 1 .. n /\ chain'[k] = chain[k]
        BY <1>a, <2>3, <3>2 DEF n
      <4> QED
        BY <2>2, <2>5, <4>1 DEF HeadsIndexed, Unindexed, n
    <3> QED
      BY <3>1, <3>2
  <2> QED
    BY <2>2, <2>7 DEF HeadsIndexed, Unindexed, Stopped
<1>3. CASE Notify
  BY <1>3 DEF Notify, HeadsIndexed, Unindexed, RevertSteps, Stopped, AwaitsIndex,
              keyIndex, memory, heads, mdbx
<1> QED
  BY <1>1, <1>2, <1>3 DEF NodeStep

\* A step within the work on a segment.
LEMMA SegmentKept ==
    ASSUME HeadsIndexed, pc \in Unindexed, pc' \in Unindexed, job'.lo = job.lo,
           UNCHANGED <<kiBitmap, kiHead, chain>>,
           ChainIndexed(lastHash', kiBitmap),
           mdbxHead' # NoHead => ChainIndexed(mdbxHead'.hash, kiBitmap)
    PROVE  HeadsIndexed'
<1>1. \A s \in Stem, i \in SubIndex : AwaitsIndex(s, i) => AwaitsIndex(s, i)'
  BY DEF AwaitsIndex
<1> QED
  BY <1>1 DEF HeadsIndexed, Unindexed, Stopped, RevertSteps

\* A step that ends the work on a segment, or comes after it.
LEMMA ChainKept ==
    ASSUME HeadsIndexed, pc' \notin Unindexed, ChainIndexed(chain', kiBitmap'),
           ChainIndexed(lastHash', kiBitmap'),
           mdbxHead' # NoHead => ChainIndexed(mdbxHead'.hash, kiBitmap'),
           kiHead' # NoHead => ChainIndexed(kiHead'.hash, kiBitmap')
    PROVE  HeadsIndexed'
BY DEF HeadsIndexed

\* Before a segment, and after a revert that nothing follows.
LEMMA BelowSegment ==
    ASSUME TypeOK, HeadsIndexed, pc \in Unindexed, job.lo <= Len(chain) + 1
    PROVE  /\ ChainIndexed(SubSeq(chain, 1, job.lo - 1), kiBitmap)
           /\ ~(job.lo <= Len(chain)) => ChainIndexed(chain, kiBitmap)
<1>1. /\ chain \in Chain /\ Len(chain) \in Nat
      /\ job.lo \in Nat \ {0}
  BY LenProperties DEF TypeOK, Chain
<1>2. \A k \in 1 .. job.lo - 1 : BlockIndexed(chain[k], kiBitmap)
  <2>1. \A k \in 1 .. job.lo - 1 : k \in 1 .. Len(chain) /\ k < job.lo
    BY <1>1
  <2> QED
    BY <2>1 DEF HeadsIndexed
<1>3. job.lo - 1 \in Int /\ job.lo - 1 <= Len(chain)
  BY <1>1
<1>4. ChainIndexed(SubSeq(chain, 1, job.lo - 1), kiBitmap)
  BY <1>1, <1>2, <1>3, IndexedPrefix
<1>5. ~(job.lo <= Len(chain)) => ChainIndexed(chain, kiBitmap)
  <2>1. ~(job.lo <= Len(chain)) => \A k \in 1 .. Len(chain) : k \in 1 .. job.lo - 1
    BY <1>1
  <2> QED
    BY <1>2, <2>1 DEF ChainIndexed
<1> QED
  BY <1>4, <1>5

LEMMA HeadsIndexedRevert ==
    TypeInv /\ HeadsIndexed /\ Revert => HeadsIndexed'
<1> SUFFICES ASSUME TypeOK, Bounds, HeadsIndexed, Revert PROVE HeadsIndexed'
  BY DEF TypeInv
<1>a. pc \in RevertSteps /\ pc \in Unindexed
  BY DEF Revert, RevertNomt, RevertBlock, RevertLastBlock, RevertStems, RevertHead,
         RevertSteps, Unindexed
<1>b. /\ ChainIndexed(lastHash, kiBitmap)
      /\ mdbxHead # NoHead => ChainIndexed(mdbxHead.hash, kiBitmap)
      /\ kiHead # NoHead => ChainIndexed(kiHead.hash, kiBitmap)
  BY DEF HeadsIndexed
<1>c. /\ ChainIndexed(SubSeq(chain, 1, job.lo - 1), kiBitmap)
      /\ ~(job.lo <= Len(chain)) => ChainIndexed(chain, kiBitmap)
  BY <1>a, BelowSegment DEF Bounds
\* After the last turn of the loop, or after the flush.
<1>d. ASSUME pc' = AfterRevert, job'.lo = job.lo, UNCHANGED <<kiBitmap, kiHead, chain>>,
             ChainIndexed(lastHash', kiBitmap),
             mdbxHead' # NoHead => ChainIndexed(mdbxHead'.hash, kiBitmap)
      PROVE  HeadsIndexed'
  <2>1. CASE job.lo <= Len(chain)
    <3>1. pc' \in Unindexed
      BY <1>d, <2>1 DEF AfterRevert, Unindexed
    <3> QED
      BY <1>a, <1>d, <3>1, SegmentKept
  <2>2. CASE ~(job.lo <= Len(chain))
    <3>1. pc' \notin Unindexed
      BY <1>d, <2>2 DEF AfterRevert, Unindexed, RevertSteps
    <3>2. ChainIndexed(chain', kiBitmap')
      BY <1>c, <1>d, <2>2
    <3> QED
      BY <1>b, <1>d, <3>1, <3>2, ChainKept
  <2> QED
    BY <2>1, <2>2
<1>1. CASE RevertNomt \/ RevertBlock \/ RevertStems
  <2>1. /\ pc' \in Unindexed
        /\ UNCHANGED <<kiBitmap, kiHead, chain, lastHash, mdbxHead>>
    BY <1>1 DEF RevertNomt, RevertBlock, RevertStems, Unindexed, RevertSteps, mdbx,
                keyIndex, memory, heads, node
  <2>2. job'.lo = job.lo
    BY <1>1 DEF RevertNomt, RevertBlock, RevertStems, TypeOK
  <2> QED
    BY <1>a, <1>b, <2>1, <2>2, SegmentKept
<1>2. CASE RevertLastBlock
  <2>1. /\ lastHash' = SubSeq(chain, 1, job.lo - 1)
        /\ UNCHANGED <<kiBitmap, kiHead, chain, mdbxHead>>
        /\ pc' \in {"revertStems", AfterRevert}
    BY <1>2 DEF RevertLastBlock, keyIndex, node
  <2>2. job'.lo = job.lo
    BY <1>2 DEF RevertLastBlock, TypeOK
  <2>3. ChainIndexed(lastHash', kiBitmap)
    BY <1>c, <2>1
  <2>4. CASE pc' = "revertStems"
    <3>1. pc' \in Unindexed
      BY <2>4 DEF Unindexed, RevertSteps
    <3> QED
      BY <1>a, <1>b, <2>1, <2>2, <2>3, <3>1, SegmentKept
  <2>5. CASE pc' = AfterRevert
    BY <1>b, <1>d, <2>1, <2>2, <2>3, <2>5
  <2> QED
    BY <2>1, <2>4, <2>5
<1>3. CASE RevertHead
  <2>1. /\ pc' = AfterRevert
        /\ mdbxHead' = MemoryHead
        /\ UNCHANGED <<kiBitmap, kiHead, chain, lastHash, job>>
    BY <1>3 DEF RevertHead, keyIndex, node
  <2>2. mdbxHead'.hash = lastHash
    BY <2>1 DEF MemoryHead
  <2> QED
    BY <1>b, <1>d, <2>1, <2>2
<1> QED
  BY <1>1, <1>2, <1>3 DEF Revert

LEMMA HeadsIndexedCommit ==
    TypeInv /\ HeadsIndexed /\ Commit => HeadsIndexed'
<1> SUFFICES ASSUME TypeOK, Bounds, HeadsIndexed, Commit PROVE HeadsIndexed'
  BY DEF TypeInv
<1>b. /\ ChainIndexed(lastHash, kiBitmap)
      /\ mdbxHead # NoHead => ChainIndexed(mdbxHead.hash, kiBitmap)
      /\ kiHead # NoHead => ChainIndexed(kiHead.hash, kiBitmap)
  BY DEF HeadsIndexed
<1>c. MemoryHead.hash = lastHash
  BY DEF MemoryHead
<1>1. CASE CommitNomt \/ CommitOverlay
  <2>1. /\ pc \in Unindexed /\ pc' \in Unindexed
        /\ UNCHANGED <<kiBitmap, kiHead, chain, lastHash, mdbxHead, job>>
    BY <1>1 DEF CommitNomt, CommitOverlay, Unindexed, mdbx, keyIndex, memory, heads, node
  <2> QED
    BY <1>b, <2>1, SegmentKept
<1>2. CASE CommitIndex
  <2>1. /\ pc = "commitIndex" /\ pc' = "commitDeltas"
        /\ kiBitmap' = ApplyUpdates(kiBitmap, pendingEntries)
        /\ UNCHANGED <<kiHead, chain, lastHash, mdbxHead>>
    BY <1>2 DEF CommitIndex, mdbx, heads, node
  <2>2. ASSUME NEW k \in 1 .. Len(chain), NEW s \in Stem, NEW i \in SubIndex,
               chain[k].post[s][i] # Zero
        PROVE  i \in kiBitmap'[s]
    <3>1. i \in kiBitmap[s] \/ AwaitsIndex(s, i)
      BY <2>1, <2>2 DEF HeadsIndexed, Unindexed
    <3>2. AwaitsIndex(s, i) => pendingEntries[s][i] = StateAt(chain)[s][i]
      BY DEF AwaitsIndex, pendingEntries, ProcessChain
    <3>3. StateAt(chain)[s][i] \in Leaf
      BY StateAtType DEF TypeOK, State, Node
    <3>4. AwaitsIndex(s, i) => pendingEntries[s][i] # NoWrite
      BY <3>2, <3>3, TreeAssumption
    <3> QED
      BY <2>1, <3>1, <3>4 DEF ApplyUpdates, WrittenSubIndices
  <2>3. ChainIndexed(chain', kiBitmap')
    BY <2>1, <2>2 DEF ChainIndexed, BlockIndexed
  <2>4. pc' \notin Unindexed
    BY <2>1 DEF Unindexed, RevertSteps
  <2>5. [Next]_vars
    BY DEF Next
  <2> QED
    BY <2>1, <2>3, <2>4, <2>5, RecordsIndexed, ChainKept
<1>3. CASE CommitDeltas \/ FlushStems \/ FlushHead \/ FlushIndexHead \/ Prune \/ Ack
  <2>1. pc \notin Unindexed /\ pc \notin Stopped
    BY <1>3 DEF CommitDeltas, FlushStems, FlushHead, FlushIndexHead, Prune, Ack,
                Unindexed, RevertSteps, Stopped
  <2>2. pc' \notin Unindexed
    BY <1>3 DEF CommitDeltas, FlushStems, FlushHead, FlushIndexHead, Prune, Ack,
                Unindexed, RevertSteps
  <2>3. ChainIndexed(chain, kiBitmap)
    BY <2>1 DEF HeadsIndexed
  <2>4. /\ UNCHANGED <<kiBitmap, chain>>
        /\ lastHash' \in {lastHash, chain}
        /\ mdbxHead' \in {mdbxHead, MemoryHead}
        /\ kiHead' \in {kiHead, MemoryHead}
    BY <1>3 DEF CommitDeltas, FlushStems, FlushHead, FlushIndexHead, Prune, Ack,
                mdbx, keyIndex, memory, heads, node
  <2> QED
    BY <1>b, <1>c, <2>2, <2>3, <2>4, ChainKept
<1> QED
  BY <1>1, <1>2, <1>3 DEF Commit

LEMMA HeadsIndexedStop ==
    ASSUME BackfillsFresh
    PROVE  TypeInv /\ HeadsIndexed /\ StopOrStart => HeadsIndexed'
<1> SUFFICES ASSUME TypeOK, Bounds, HeadsIndexed, StopOrStart PROVE HeadsIndexed'
  BY DEF TypeInv
<1>b. /\ ChainIndexed(lastHash, kiBitmap)
      /\ mdbxHead # NoHead => ChainIndexed(mdbxHead.hash, kiBitmap)
      /\ kiHead # NoHead => ChainIndexed(kiHead.hash, kiBitmap)
      /\ ChainIndexed(<<>>, kiBitmap)
  BY DEF HeadsIndexed, ChainIndexed
<1>c. MemoryHead.hash = lastHash
  BY DEF MemoryHead
<1>1. CASE Crash \/ ShutdownHead \/ RestartRefused
  <2>1. /\ pc' \in Stopped /\ pc' \notin Unindexed
        /\ UNCHANGED <<kiBitmap, kiHead>>
        /\ lastHash' \in {lastHash, <<>>}
        /\ mdbxHead' \in {mdbxHead, MemoryHead}
    BY <1>1 DEF Crash, ShutdownHead, RestartRefused, Stop, Forget, Stopped, Unindexed,
                RevertSteps, mdbx, keyIndex, memory, heads
  <2> QED
    BY <1>b, <1>c, <2>1 DEF HeadsIndexed
<1>2. CASE Shutdown \/ ShutdownStems
  <2>1. /\ pc \notin Unindexed /\ pc \notin Stopped /\ pc' \notin Unindexed
        /\ UNCHANGED <<kiBitmap, kiHead, chain, lastHash, mdbxHead>>
    BY <1>2 DEF Shutdown, ShutdownStems, Unindexed, RevertSteps, Stopped, mdbx, keyIndex,
                memory, heads, node
  <2>2. ChainIndexed(chain, kiBitmap)
    BY <2>1 DEF HeadsIndexed
  <2> QED
    BY <1>b, <2>1, <2>2, ChainKept
<1>3. CASE Restart
  <2>1. /\ pc' = "idle"
        /\ lastHash' = LoadedHead.hash
        /\ chain' = SubSeq(LoadedHead.hash, 1, EffectiveHead)
        /\ UNCHANGED <<kiBitmap, kiHead, mdbxHead>>
    BY <1>3 DEF Restart, Resume, mdbx, keyIndex
  <2>2. LoadedHead \in UbtHead /\ LoadedHead.hash \in Chain
    BY HeadTypes DEF UbtHead
  <2>3. ChainIndexed(LoadedHead.hash, kiBitmap)
    BY <1>b DEF LoadedHead, FreshHead
  <2>4. EffectiveHead \in Nat /\ EffectiveHead <= Len(LoadedHead.hash)
    BY <2>2 DEF EffectiveHead, LoadedHead, FreshHead, Bounds, UbtHead, TypeOK
  <2>5. \A k \in 1 .. EffectiveHead : BlockIndexed(LoadedHead.hash[k], kiBitmap)
    <3>1. Len(LoadedHead.hash) \in Nat
      BY <2>2, LenProperties DEF Chain
    <3> QED
      BY <2>3, <2>4, <3>1 DEF ChainIndexed
  <2>6. ChainIndexed(chain', kiBitmap)
    BY <2>1, <2>2, <2>4, <2>5, IndexedPrefix
  <2>7. pc' \notin Unindexed
    BY <2>1 DEF Unindexed, RevertSteps
  <2> QED
    BY <1>b, <2>1, <2>3, <2>6, <2>7, ChainKept
<1> QED
  BY <1>1, <1>2, <1>3 DEF StopOrStart

LEMMA HeadsIndexedStep ==
    ASSUME BackfillsFresh
    PROVE  TypeInv /\ HeadsIndexed /\ [Next]_vars => HeadsIndexed'
<1>1. HeadsIndexed /\ UNCHANGED vars => HeadsIndexed'
  BY DEF HeadsIndexed, AwaitsIndex, vars, mdbx, keyIndex, memory, heads, node
<1> QED
  BY <1>1, HeadsIndexedNode, HeadsIndexedRevert, HeadsIndexedCommit, HeadsIndexedStop
  DEF Next

----------------------------------------------------------------------------
(* No leaf of the header's block is missing.                                 *)

FromNomt == call.kind \in {"state", "contract"}

\* From the moment the head is read, every leaf of its block is in the index, and
\* from the moment the index is read, on its way into the file.
CoverInv ==
    /\ at \in {"nomtHead", "indexHead"} => FromNomt \/ call.kind = "delta"
    /\ at \in {"exportHead", "stems", "leaves"} => FromNomt
    /\ at \in {"mdbxHead", "mdbxStems", "deltas", "values"} => ~FromNomt
    /\ at = "stems" => head \in UbtHead /\ ChainIndexed(head.hash, kiBitmap)
    /\ at \in {"leaves", "answered"} /\ FromNomt =>
        \A s \in Wanted, i \in SubIndex :
            StateAt(head.hash)[s][i] # Zero => file[s][i] # NoWrite \/ <<s, i>> \in todo
    /\ at = "answered" /\ FromNomt => todo = {}

LEMMA CoverInit == ExportInit => CoverInv
BY DEF ExportInit, Silent, CoverInv

LEMMA CoverHangUp == HangUp => CoverInv'
BY DEF HangUp, CoverInv

LEMMA CoverStep ==
    TypeInv /\ HeadsIndexed /\ ExportTypeOK /\ CoverInv /\ [ExportNext]_<<vars, exportVars>>
        => CoverInv'
<1> SUFFICES ASSUME TypeOK, HeadsIndexed, ExportTypeOK, CoverInv,
                    [ExportNext]_<<vars, exportVars>>
             PROVE  CoverInv'
  BY DEF TypeInv
<1>a. ASSUME UNCHANGED vars
      PROVE  UNCHANGED <<kiBitmap, kiHead, nomtState>>
  BY <1>a DEF vars, keyIndex, nomt
<1>b. \A s \in Stem : kiBitmap[s] \subseteq kiBitmap'[s]
  BY ExportStepReads, BitmapsGrow
<1>w. Wanted \subseteq Stem
  BY ExportAssumption DEF Wanted
<1>1. CASE \E c \in Calls : Ask(c)
  <2>1. PICK c \in Calls : Ask(c)
    BY <1>1
  <2>2. c.kind \in {"state", "contract", "delta", "mdbxState", "mdbxContract"}
    BY DEF Calls, Call
  <2>3. call' = c /\ at' = IF c.kind \in {"mdbxState", "mdbxContract"} THEN "mdbxHead" ELSE "nomtHead"
    BY <2>1 DEF Ask
  <2> QED
    BY <2>2, <2>3 DEF CoverInv, FromNomt
<1>2. CASE ReadNomtHead
  BY <1>2 DEF ReadNomtHead, CoverInv, FromNomt
<1>3. CASE EnsureNomtSynced
  BY <1>3 DEF EnsureNomtSynced, CoverInv, FromNomt
<1>4. CASE ReadIndexHead /\ UNCHANGED vars
  <2>1. head' \in UbtHead /\ ChainIndexed(head'.hash, kiBitmap)
    BY <1>4 DEF ReadIndexHead, HeadsIndexed, TypeOK
  <2> QED
    BY <1>4, <1>a, <2>1 DEF ReadIndexHead, CoverInv, FromNomt
<1>5. CASE ForEachStem
  <2>1. at = "stems" /\ at' = "leaves" /\ UNCHANGED <<call, head, file>>
    BY <1>5 DEF ForEachStem
  <2>2. ASSUME NEW s \in Wanted, NEW i \in SubIndex, StateAt(head.hash)[s][i] # Zero
        PROVE  <<s, i>> \in todo'
    <3>1. i \in kiBitmap[s]
      BY <1>w, <2>1, <2>2, IndexedState DEF CoverInv, UbtHead
    <3> QED
      BY <1>5, <3>1 DEF ForEachStem
  <2> QED
    BY <2>1, <2>2 DEF CoverInv, FromNomt, Wanted
<1>6. CASE ReadNomtValue
  <2>1. PICK l \in todo : /\ todo' = todo \ {l}
                          /\ file' = [file EXCEPT ![l[1]][l[2]] = nomtState[l[1]][l[2]]]
    BY <1>6 DEF ReadNomtValue
  <2>2. l[1] \in Stem /\ l[2] \in SubIndex /\ l = <<l[1], l[2]>>
    BY DEF ExportTypeOK
  <2>3. nomtState[l[1]][l[2]] # NoWrite
    BY <2>2, TreeAssumption DEF TypeOK, State, Node
  <2>4. at = "leaves" /\ UNCHANGED <<at, call, head>>
    BY <1>6 DEF ReadNomtValue
  <2>5. ASSUME NEW s \in Stem, NEW i \in SubIndex,
               file[s][i] # NoWrite \/ <<s, i>> \in todo
        PROVE  file'[s][i] # NoWrite \/ <<s, i>> \in todo'
    <3>1. CASE <<s, i>> = l
      <4>1. file'[s][i] = nomtState[l[1]][l[2]]
        BY <2>1, <2>2, <3>1 DEF ExportTypeOK, Patch
      <4> QED
        BY <2>3, <4>1
    <3>2. CASE <<s, i>> # l
      <4>1. s # l[1] \/ i # l[2]
        BY <2>2, <3>2
      <4>2. file'[s][i] = file[s][i]
        BY <2>1, <2>2, <4>1 DEF ExportTypeOK, Patch
      <4> QED
        BY <2>1, <2>5, <3>2, <4>2
    <3> QED
      BY <3>1, <3>2
  <2> QED
    BY <1>w, <2>4, <2>5 DEF CoverInv, FromNomt, Wanted
<1>7. CASE ReadMdbxHead \/ LoadBlockDeltas \/ ReadDeltaLeaf \/ IterStems
  <2>1. /\ UNCHANGED call
        /\ at \in {"mdbxHead", "mdbxStems", "deltas", "values"}
        /\ at' \in {"mdbxStems", "deltas", "values", "noAddress", "answered"}
    BY <1>7 DEF ReadMdbxHead, LoadBlockDeltas, ReadDeltaLeaf, IterStems
  <2> QED
    BY <2>1 DEF CoverInv, FromNomt
<1>8. CASE Finish
  <2>1. /\ at \in {"leaves", "values"} /\ at' = "answered" /\ todo = {}
        /\ UNCHANGED <<call, head, todo, file>>
    BY <1>8 DEF Finish, reply
  <2> QED
    BY <2>1 DEF CoverInv, FromNomt, Wanted
<1>9. CASE HangUp
  BY <1>9, CoverHangUp
<1>10. CASE UNCHANGED <<call, at, reply>>
  <2>1. ChainIndexed(head.hash, kiBitmap) => ChainIndexed(head.hash, kiBitmap')
    BY <1>b, IndexedLater
  <2> QED
    BY <1>10, <2>1 DEF CoverInv, FromNomt, Wanted, reply
<1> QED
  BY <1>1, <1>2, <1>3, <1>4, <1>5, <1>6, <1>7, <1>8, <1>9, <1>10
  DEF ExportNext, ExportStep, ExExStep, Refuse, Deliver, exportVars

\* If a node that is given no head backfills from genesis, no leaf of the block in
\* the header is missing from an export: the three stores may be at different
\* blocks, be reverted, and be left so by a crash anywhere, but the bits of a
\* block's leaves are always there before a head names it.
THEOREM ExportsCoverHead ==
    ASSUME BackfillsFresh
    PROVE  ExportSpec => []ExportCoversHead
<1>1. TypeInv /\ HeadsIndexed /\ [ExportNext]_<<vars, exportVars>> => HeadsIndexed'
  BY HeadsIndexedStep, ExportStepReads
<1>2. ExportInit => HeadsIndexed
  BY HeadsIndexedInit DEF ExportInit
<1>3. ExportTypeOK /\ CoverInv => ExportCoversHead
  BY DEF CoverInv, FromNomt, ExportCoversHead, Answered
<1> QED
  BY <1>1, <1>2, <1>3, CoverInit, CoverStep, ExportTypeCorrect, ExportsOnlyRead,
     TypeInvariant, PTL
  DEF ExportSpec
=============================================================================
