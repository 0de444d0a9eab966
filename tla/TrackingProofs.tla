--------------------------- MODULE TrackingProofs ---------------------------
(***************************************************************************)
(* What the ExEx shows, what NOMT holds, what the undo records lead back   *)
(* to and what the checkpoint says are all states of one chain: for every  *)
(* tree, every interval and every history, with reorgs up to MaxReorg, and *)
(* with stops wherever the three stores fit together.                      *)
(***************************************************************************)
EXTENDS UbtExExProofs, UbtRefinement

\* One new block in a notification, which changes something; undo records and
\* NOMT's log that reach as far back as a reorg and as a flush interval; a node that
\* backfills from genesis; no stop between the stems and the head of a flush, nor in
\* a revert that has begun to take blocks back.
SafeParameters ==
    /\ MaxBatch = 1
    /\ ~NoOpBlocks
    /\ MaxReorg <= DeltaRetention + 1
    /\ MaxReorg <= NomtHistory
    /\ FlushInterval <= NomtHistory
    /\ BackfillsFresh
    /\ CrashPoint \cap (TornSteps \cup {"revertBlock", "revertStems"}) = {}

----------------------------------------------------------------------------
(* The invariant.                                                            *)

\* The state after n blocks of a chain.
StateUpTo(c, n) == IF n = 0 THEN EmptyState ELSE c[n].post

SameUpTo(c, d, n) == \A k \in 1 .. n : c[k] = d[k]

Continues(c, d) == Len(d) <= Len(c) /\ SameUpTo(c, d, Len(d))

\* Every block has the state after it in its header, and changes something.
Built(c) ==
    \A k \in 1 .. Len(c) :
        /\ c[k].post = Patched(StateUpTo(c, k - 1), Writes[c[k].body])
        /\ c[k].post # StateUpTo(c, k - 1)

SavedHash == LoadedHead.hash

Reverting == {"revertNomt", "revertBlock"}
Reverted == {"revertStems", "revertHead"}
Committing == {"commitNomt", "commitOverlay", "commitIndex", "commitDeltas"}
NomtFirst == {"commitOverlay", "commitIndex", "commitDeltas"}
Shown == {"commitIndex", "commitDeltas"}
Committed == {"flushStems", "flushHead", "flushIndexHead", "prune", "ack"}

ChainsBuilt == Built(chain) /\ Built(lastHash) /\ Built(SavedHash)

\* How the chain of the node and that of the ExEx lie to each other.
ShapeInv ==
    /\ pc \in {"idle"} \cup ShutdownSteps \cup Committed => lastHash = chain
    /\ pc \in {"assembling"} \cup Reverting =>
        /\ job.lo - 1 <= Len(lastHash) /\ job.lo - 1 <= Len(chain) /\ Len(chain) <= job.lo
        /\ SameUpTo(chain, lastHash, job.lo - 1)
        /\ job.hi <= Len(lastHash) /\ (pc # "revertBlock" => job.hi = Len(lastHash))
        /\ job.lo <= job.hi => peak < job.lo + MaxReorg
    /\ pc \in Reverted \cup Committing =>
        /\ Len(lastHash) = job.lo - 1 /\ job.lo - 1 <= Len(chain) /\ Len(chain) <= job.lo
        /\ SameUpTo(chain, lastHash, job.lo - 1)
    /\ pc \in Committing => Len(chain) = job.lo
    /\ Len(lastHash) <= peak /\ Len(SavedHash) <= peak
    /\ pc \notin Stopped \cup {"assembling"} => Len(chain) <= peak

\* What overlay and MDBX show: in a revert, the blocks not taken back yet.
ViewInv ==
    /\ pc \in Reverting => View = StateUpTo(lastHash, job.hi)
    /\ pc \in Shown => View = StateAt(chain)
    /\ pc \notin Stopped \cup Reverting \cup Shown => View = StateAt(lastHash)

DeltaInv == pc \in Shown => Patched(StateAt(chain), delta) = StateAt(lastHash)

\* The undo records of the first n blocks of c, as far as they are retained.
Leads(c, n, deltas, top) ==
    \A b \in 1 .. n :
        b + DeltaRetention >= top => Patched(c[b].post, deltas[b]) = StateUpTo(c, b - 1)

RecordsLead(c, n) == Leads(c, n, mdbxDeltas, peak)

RecordsInv ==
    /\ pc \in Stopped => RecordsLead(SavedHash, Len(SavedHash))
    /\ pc \in Reverting => RecordsLead(lastHash, job.hi)
    /\ pc \notin Stopped \cup Reverting => RecordsLead(lastHash, Len(lastHash))

\* The checkpoint, and how far it is behind.
SavedInv ==
    /\ pc \notin TornSteps => StateOf(mdbxStems) = StateAt(SavedHash)
    /\ pc \in TornSteps \cup Stopped => overlay = EmptyTable
    /\ pc \notin Stopped \cup Reverted => Continues(lastHash, SavedHash)
    /\ pc \notin Stopped \cup {"flushIndexHead"} => lastPersistedBlock = Len(SavedHash)
    /\ pc = "flushIndexHead" => SavedHash = lastHash
    /\ pc \notin Stopped \cup Reverted \cup {"flushStems", "flushHead"}
        => Len(lastHash) < Len(SavedHash) + FlushInterval

\* NOMT holds the state after n blocks of c, and its log the states before them,
\* back to the checkpoint and as far as a reorg can reach.
LogOf(c, n, state, head, log) ==
    /\ state = StateUpTo(c, n)
    /\ head = n
    /\ Len(log) <= n
    /\ \A j \in 1 .. Len(log) :
        log[j] = [state |-> StateUpTo(c, n - Len(log) + j - 1), head |-> n - Len(log) + j - 1]

Reaches(n, kept, top, saved) ==
    /\ n = kept \/ n + MaxReorg <= top + kept
    /\ n <= saved + kept

NomtAt(c, n) ==
    /\ LogOf(c, n, nomtState, nomtHead, nomtLog)
    /\ Reaches(n, Len(nomtLog), peak, Len(SavedHash))

NomtInv ==
    /\ pc \in Stopped => \E c \in Chain : Continues(c, SavedHash) /\ NomtAt(c, Len(c))
    /\ pc = "revertBlock" => NomtAt(lastHash, job.lo - 1)
    /\ pc \in NomtFirst => NomtAt(chain, Len(chain))
    /\ pc \notin Stopped \cup {"revertBlock"} \cup NomtFirst => NomtAt(lastHash, Len(lastHash))

TrackInv ==
    /\ ChainsBuilt /\ ShapeInv
    /\ ViewInv /\ DeltaInv
    /\ RecordsInv /\ SavedInv /\ NomtInv

----------------------------------------------------------------------------
(* Chains.                                                                   *)

LEMMA ChainLen ==
    ASSUME NEW c \in Chain
    PROVE  /\ c \in Seq(Block) /\ Len(c) \in Nat
           /\ \A k \in 1 .. Len(c) : c[k] \in Block
           /\ Len(c) = 0 <=> c = <<>>
BY LenProperties, ElementOfSeq, EmptySeq DEF Chain

LEMMA StateUpToType ==
    ASSUME NEW c \in Chain, NEW n \in Nat, n <= Len(c) PROVE StateUpTo(c, n) \in State
<1>1. CASE n = 0
  BY <1>1, EmptyTypes DEF StateUpTo
<1>2. CASE n # 0
  <2>1. n \in 1 .. Len(c) /\ c[n] \in Block
    BY <1>2, ChainLen
  <2> QED
    BY <1>2, <2>1 DEF StateUpTo, Block
<1> QED
  BY <1>1, <1>2

LEMMA StateAtIs == ASSUME NEW c \in Chain PROVE StateAt(c) = StateUpTo(c, Len(c))
BY ChainLen DEF StateAt, StateUpTo

LEMMA SameStates ==
    ASSUME NEW c, NEW d, NEW m \in Nat, SameUpTo(c, d, m), NEW n \in Nat, n <= m
    PROVE  StateUpTo(c, n) = StateUpTo(d, n)
BY DEF SameUpTo, StateUpTo

LEMMA SameLess ==
    ASSUME NEW c, NEW d, NEW m \in Int, SameUpTo(c, d, m), NEW n \in Int, n <= m
    PROVE  SameUpTo(c, d, n) /\ SameUpTo(d, c, n)
BY DEF SameUpTo

LEMMA SameChain ==
    ASSUME NEW c \in Chain, NEW d \in Chain, Len(c) = Len(d), SameUpTo(c, d, Len(c))
    PROVE  c = d
<1>1. c \in Seq(Block) /\ d \in Seq(Block) /\ \A k \in 1 .. Len(c) : c[k] = d[k]
  BY ChainLen DEF SameUpTo
<1> QED
  BY <1>1, SeqEqual

LEMMA PrefixIs ==
    ASSUME NEW c \in Chain, NEW n \in Nat, n <= Len(c)
    PROVE  /\ SubSeq(c, 1, n) \in Chain /\ Len(SubSeq(c, 1, n)) = n
           /\ SameUpTo(c, SubSeq(c, 1, n), n)
           /\ StateAt(SubSeq(c, 1, n)) = StateUpTo(c, n)
<1> DEFINE p == SubSeq(c, 1, n)
<1>1. c \in Seq(Block) /\ Len(c) \in Nat
  BY ChainLen
<1>2. p \in Chain /\ Len(p) = n
  BY <1>1, PrefixType, SubSeqProperties
<1>3. \A k \in 1 .. n : p[k] = c[k]
  BY <1>1, SubSeqProperties
<1>4. SameUpTo(c, p, n) /\ SameUpTo(p, c, n)
  BY <1>3 DEF SameUpTo
<1>5. StateAt(p) = StateUpTo(p, n)
  BY <1>2, StateAtIs
<1>6. StateUpTo(p, n) = StateUpTo(c, n)
  BY <1>4, SameStates
<1> QED
  BY <1>2, <1>4, <1>5, <1>6

LEMMA WholePrefix == ASSUME NEW c \in Chain PROVE SubSeq(c, 1, Len(c)) = c
<1>1. Len(c) \in Nat
  BY ChainLen
<1> HIDE DEF Chain
<1>2. /\ SubSeq(c, 1, Len(c)) \in Chain /\ Len(SubSeq(c, 1, Len(c))) = Len(c)
      /\ SameUpTo(c, SubSeq(c, 1, Len(c)), Len(c))
  BY <1>1, PrefixIs
<1> QED
  BY <1>2, SameChain

LEMMA ContinuesPrefix ==
    ASSUME NEW c \in Chain, NEW d \in Chain, Continues(c, d)
    PROVE  d = SubSeq(c, 1, Len(d)) /\ StateAt(d) = StateUpTo(c, Len(d))
<1>1. Len(d) \in Nat /\ Len(d) <= Len(c) /\ SameUpTo(c, d, Len(d))
  BY ChainLen DEF Continues
<1> DEFINE p == SubSeq(c, 1, Len(d))
<1>2. p \in Chain /\ Len(p) = Len(d) /\ SameUpTo(c, p, Len(d))
  BY <1>1, PrefixIs
<1>3. SameUpTo(d, p, Len(d))
  BY <1>1, <1>2 DEF SameUpTo
<1>4. d = p
  BY <1>2, <1>3, SameChain
<1> QED
  BY <1>1, <1>4, PrefixIs

LEMMA BuiltShorter ==
    ASSUME NEW c \in Chain, NEW d \in Chain, Continues(c, d), Built(c) PROVE Built(d)
<1>1. Len(d) \in Nat /\ Len(c) \in Nat /\ Len(d) <= Len(c) /\ SameUpTo(c, d, Len(d))
  BY ChainLen DEF Continues
<1> SUFFICES ASSUME NEW k \in 1 .. Len(d)
             PROVE  /\ d[k].post = Patched(StateUpTo(d, k - 1), Writes[d[k].body])
                    /\ d[k].post # StateUpTo(d, k - 1)
  BY DEF Built
<1>2. c[k] = d[k] /\ k \in 1 .. Len(c)
  BY <1>1 DEF SameUpTo
<1>3. StateUpTo(c, k - 1) = StateUpTo(d, k - 1)
  BY <1>1, SameStates
<1> QED
  BY <1>2, <1>3 DEF Built

LEMMA BuiltPrefix ==
    ASSUME NEW c \in Chain, NEW n \in Nat, n <= Len(c), Built(c)
    PROVE  Built(SubSeq(c, 1, n))
<1> DEFINE p == SubSeq(c, 1, n)
<1>1. p \in Chain /\ Len(p) = n /\ SameUpTo(c, p, n)
  BY PrefixIs
<1>2. Continues(c, p)
  BY <1>1 DEF Continues
<1> HIDE DEF p
<1>3. Built(p)
  BY <1>1, <1>2, BuiltShorter
<1> QED
  BY <1>3 DEF p

LEMMA AppendIs ==
    ASSUME NEW c \in Chain, NEW b \in Block
    PROVE  /\ Append(c, b) \in Chain /\ Len(Append(c, b)) = Len(c) + 1
           /\ Append(c, b)[Len(c) + 1] = b
           /\ SameUpTo(Append(c, b), c, Len(c))
<1>1. c \in Seq(Block)
  BY ChainLen
<1> QED
  BY <1>1, AppendProperties DEF SameUpTo, Chain

LEMMA BuiltLonger ==
    ASSUME NEW c \in Chain, NEW b \in Block, Built(c),
           b.post = Patched(StateAt(c), Writes[b.body]), b.post # StateAt(c)
    PROVE  Built(Append(c, b))
<1> DEFINE d == Append(c, b)
<1>1. /\ d \in Chain /\ Len(d) = Len(c) + 1 /\ Len(c) \in Nat
      /\ d[Len(c) + 1] = b /\ SameUpTo(d, c, Len(c))
  BY AppendIs, ChainLen
<1> HIDE DEF d
<1> SUFFICES ASSUME NEW k \in 1 .. Len(d)
             PROVE  /\ d[k].post = Patched(StateUpTo(d, k - 1), Writes[d[k].body])
                    /\ d[k].post # StateUpTo(d, k - 1)
  BY DEF Built, d
<1>2. StateUpTo(d, k - 1) = StateUpTo(c, k - 1)
  BY <1>1, SameStates
<1>3. CASE k = Len(c) + 1
  BY <1>1, <1>2, <1>3, StateAtIs
<1>4. CASE k # Len(c) + 1
  <2>1. k \in 1 .. Len(c) /\ d[k] = c[k]
    BY <1>1, <1>4 DEF SameUpTo
  <2> QED
    BY <1>2, <2>1 DEF Built
<1> QED
  BY <1>3, <1>4

\* What process_chain extracts from one new block is what the block wrote.
LEMMA OneBlockWritten ==
    ASSUME NEW c \in Chain, Built(c), Len(c) # 0
    PROVE  Patched(StateUpTo(c, Len(c) - 1), ProcessChain(c, Len(c))) = StateAt(c)
<1> DEFINE n == Len(c)
           S == StateUpTo(c, n - 1)
           P == Writes[c[n].body]
           E == ProcessChain(c, n)
<1>1. n \in Nat /\ n # 0 /\ n \in 1 .. n
  BY ChainLen
<1>2. StateAt(c) = c[n].post /\ c[n].post = Patched(S, P)
  BY <1>1, StateAtIs DEF Built, StateUpTo
<1>3. \A k : k \in n .. n <=> k = n
  BY <1>1
<1>4. E = [s \in Stem |-> [i \in SubIndex |->
            IF P[s][i] # NoWrite THEN Patched(S, P)[s][i] ELSE NoWrite]]
  BY <1>2, <1>3 DEF ProcessChain
<1>5. c[n] \in Block /\ P \in Patch
  BY <1>1, ChainLen, UbtAssumption DEF Block
<1> HIDE DEF n, S, P, E
<1>6. ASSUME NEW s \in Stem, NEW i \in SubIndex
      PROVE  (IF E[s][i] = NoWrite THEN S[s][i] ELSE E[s][i])
               = IF P[s][i] = NoWrite THEN S[s][i] ELSE P[s][i]
  BY <1>4 DEF Patched, PatchNode
<1>7. Patched(S, E) = Patched(S, P)
  BY <1>6 DEF Patched, PatchNode
<1> QED
  BY <1>2, <1>7 DEF n, S, P, E

----------------------------------------------------------------------------
(* What the steps move.                                                      *)

LEMMA Ranges ==
    ASSUME TypeInv
    PROVE  /\ chain \in Chain /\ lastHash \in Chain /\ SavedHash \in Chain
           /\ Len(chain) \in Nat /\ Len(lastHash) \in Nat /\ Len(SavedHash) \in Nat
           /\ job.lo \in Nat \ {0} /\ job.hi \in Nat /\ peak \in Nat
           /\ lastPersistedBlock \in Nat /\ lastBlock = Len(lastHash)
           /\ LoadedHead.block = Len(SavedHash)
           /\ MaxReorg \in Nat /\ DeltaRetention \in Nat /\ NomtHistory \in Nat
           /\ FlushInterval \in Nat \ {0} /\ MaxHeight \in Nat
<1>1. TypeOK /\ Bounds
  BY DEF TypeInv
<1>2. chain \in Chain /\ lastHash \in Chain /\ LoadedHead \in UbtHead
  BY <1>1, HeadTypes DEF TypeOK
<1>3. SavedHash \in Chain
  BY <1>2 DEF SavedHash, UbtHead
<1>4. LoadedHead.block = Len(SavedHash)
  BY <1>1 DEF Bounds, LoadedHead, FreshHead, SavedHash
<1>5. Len(chain) \in Nat /\ Len(lastHash) \in Nat /\ Len(SavedHash) \in Nat
  BY <1>2, <1>3, ChainLen
<1>6. /\ job.lo \in Nat \ {0} /\ job.hi \in Nat /\ peak \in Nat
      /\ lastPersistedBlock \in Nat /\ lastBlock = Len(lastHash)
  BY <1>1 DEF TypeOK, Bounds
<1> QED
  BY <1>2, <1>3, <1>4, <1>5, <1>6, UbtAssumption, StoresAssumption

LEMMA PrefixOfChain ==
    ASSUME TypeInv, NEW n \in Nat, n <= Len(chain)
    PROVE  /\ SubSeq(chain, 1, n) \in Chain /\ Len(SubSeq(chain, 1, n)) = n
           /\ SameUpTo(chain, SubSeq(chain, 1, n), n)
           /\ StateAt(SubSeq(chain, 1, n)) = StateUpTo(chain, n)
BY Ranges, PrefixIs

LEMMA ChainMoves ==
    ASSUME [Next]_vars
    PROVE  \/ chain' = chain
           \/ \E k \in 0 .. MaxReorg : NodeUnwinds(k)
           \/ \E body \in Body : NodeExtends(body)
           \/ Restart
<1>1. CASE Notify
  BY <1>1 DEF Notify
<1>2. CASE Revert
  BY <1>2 DEF Revert, RevertNomt, RevertBlock, RevertLastBlock, RevertStems, RevertHead, node
<1>3. CASE Commit
  BY <1>3 DEF Commit, CommitNomt, CommitOverlay, CommitIndex, CommitDeltas, FlushStems,
              FlushHead, FlushIndexHead, Prune, Ack, node
<1>4. CASE Crash \/ Shutdown \/ ShutdownStems \/ ShutdownHead \/ RestartRefused
  BY <1>4 DEF Crash, Shutdown, ShutdownStems, ShutdownHead, RestartRefused, node
<1> QED
  BY <1>1, <1>2, <1>3, <1>4 DEF Next, NodeStep, StopOrStart, vars, node

LEMMA LastHashMoves ==
    ASSUME [Next]_vars
    PROVE  \/ lastHash' = lastHash
           \/ RevertLastBlock \/ CommitDeltas \/ Restart
           \/ lastHash' = <<>> /\ pc' = "down"
<1>1. CASE NodeStep
  BY <1>1 DEF NodeStep, NodeUnwinds, NodeExtends, Notify, memory, heads
<1>2. CASE Revert
  BY <1>2 DEF Revert, RevertNomt, RevertBlock, RevertStems, RevertHead, memory, heads
<1>3. CASE Commit
  BY <1>3 DEF Commit, CommitNomt, CommitOverlay, CommitIndex, FlushStems,
              FlushHead, FlushIndexHead, Prune, Ack, memory, heads
<1>4. CASE StopOrStart
  BY <1>4 DEF StopOrStart, Crash, Stop, Forget, Shutdown, ShutdownStems, ShutdownHead,
              RestartRefused, memory, heads
<1> QED
  BY <1>1, <1>2, <1>3, <1>4 DEF Next, vars, memory, heads

LEMMA HeadMoves ==
    ASSUME TypeInv, [Next]_vars
    PROVE  \/ mdbxHead' = mdbxHead /\ LoadedHead' = LoadedHead /\ SavedHash' = SavedHash
           \/ /\ RevertHead \/ FlushHead \/ ShutdownHead
              /\ LoadedHead' = MemoryHead /\ SavedHash' = lastHash
<1>1. mdbxHead' = mdbxHead \/ RevertHead \/ FlushHead \/ ShutdownHead
  <2>1. CASE NodeStep
    BY <2>1 DEF NodeStep, NodeUnwinds, NodeExtends, Notify, mdbx
  <2>2. CASE Revert
    BY <2>2 DEF Revert, RevertNomt, RevertBlock, RevertLastBlock, RevertStems, mdbx
  <2>3. CASE Commit
    BY <2>3 DEF Commit, CommitNomt, CommitOverlay, CommitIndex, CommitDeltas, FlushStems,
                FlushIndexHead, Prune, Ack, mdbx
  <2>4. CASE StopOrStart
    BY <2>4 DEF StopOrStart, Crash, Shutdown, ShutdownStems, RestartRefused, Restart, mdbx
  <2> QED
    BY <2>1, <2>2, <2>3, <2>4 DEF Next, vars, mdbx
<1>2. CASE mdbxHead' = mdbxHead
  BY <1>2 DEF LoadedHead, SavedHash
<1>3. CASE RevertHead \/ FlushHead \/ ShutdownHead
  <2>1. mdbxHead' = MemoryHead
    BY <1>3 DEF RevertHead, FlushHead, ShutdownHead
  <2>2. MemoryHead # NoHead
    BY HeadTypes, HeadAssumption DEF TypeInv
  <2>3. LoadedHead' = MemoryHead
    BY <2>1, <2>2 DEF LoadedHead
  <2> QED
    BY <1>3, <2>3 DEF SavedHash, MemoryHead
<1> QED
  BY <1>1, <1>2, <1>3

\* Where a node that backfills resumes.
LEMMA ResumesAtHead ==
    ASSUME TypeInv, SafeParameters, Restart, Len(SavedHash) <= nomtHead
    PROVE  chain' = SavedHash /\ lastPersistedBlock' = Len(SavedHash)
<1>1. LoadedHead.block = Len(SavedHash) /\ SavedHash \in Chain /\ Len(SavedHash) \in Nat
  BY Ranges
<1>2. EffectiveHead = Len(SavedHash)
  BY <1>1 DEF EffectiveHead, TypeInv, TypeOK
<1>3. chain' = SubSeq(SavedHash, 1, Len(SavedHash))
  BY <1>2 DEF Restart, Resume, SafeParameters, SavedHash
<1> QED
  BY <1>1, <1>2, <1>3, WholePrefix DEF Restart

----------------------------------------------------------------------------
(* Every chain in sight is built block by block.                             *)

LEMMA ChainsBuiltInit == Init => ChainsBuilt
BY DEF Init, ChainsBuilt, Built, SavedHash, LoadedHead, FreshHead

LEMMA ChainsBuiltStep ==
    ASSUME SafeParameters, TypeInv, ChainsBuilt, ShapeInv, [Next]_vars PROVE ChainsBuilt'
<1>a. TypeOK /\ Bounds
  BY DEF TypeInv
<1>b. Built(chain) /\ Built(lastHash) /\ Built(SavedHash)
  BY DEF ChainsBuilt
<1>1. Built(chain')
  <2>1. ASSUME NEW k \in 0 .. MaxReorg, NodeUnwinds(k) PROVE Built(chain')
    <3>1. /\ chain' = SubSeq(chain, 1, Len(chain) - k)
          /\ Len(chain) - k \in Nat /\ Len(chain) - k <= Len(chain)
      BY <2>1, Ranges DEF NodeUnwinds
    <3> QED
      BY <3>1, <1>b, Ranges, BuiltPrefix
  <2>2. ASSUME NEW body \in Body, NodeExtends(body) PROVE Built(chain')
    <3> DEFINE post == Patched(StateAt(chain), Writes[body])
               b == [body |-> body, post |-> post]
    <3>1. chain' = Append(chain, b) /\ post # StateAt(chain)
      BY <2>2 DEF NodeExtends, SafeParameters
    <3>2. post \in State
      BY Ranges, StateAtType, PatchedType, UbtAssumption
    <3>3. b \in Block
      BY <3>2 DEF Block
    <3> HIDE DEF post
    <3>4. b.post = Patched(StateAt(chain), Writes[b.body]) /\ b.post # StateAt(chain)
      BY <3>1 DEF post
    <3> HIDE DEF b
    <3> QED
      BY <3>1, <3>3, <3>4, <1>b, Ranges, BuiltLonger
  <2>3. CASE Restart
    <3>1. EffectiveHead \in Nat /\ EffectiveHead <= Len(SavedHash)
      BY <1>a, Ranges DEF EffectiveHead, TypeOK
    <3>2. chain' = SubSeq(SavedHash, 1, EffectiveHead)
      BY <2>3 DEF Restart, Resume, SavedHash, SafeParameters
    <3> QED
      BY <3>1, <3>2, <1>b, Ranges, BuiltPrefix
  <2> QED
    BY <2>1, <2>2, <2>3, <1>b, ChainMoves
<1>2. Built(lastHash')
  <2>1. CASE RevertLastBlock
    <3>1. /\ lastHash' = SubSeq(chain, 1, job.lo - 1)
          /\ job.lo - 1 \in Nat /\ job.lo - 1 <= Len(chain)
      <4>1. job.lo \in Nat \ {0} /\ job.lo <= Len(chain) + 1 /\ Len(chain) \in Nat
        BY <1>a, Ranges DEF Bounds
      <4>2. lastHash' = SubSeq(chain, 1, job.lo - 1)
        BY <2>1 DEF RevertLastBlock
      <4> QED
        BY <4>1, <4>2
    <3> QED
      BY <3>1, <1>b, Ranges, BuiltPrefix
  <2>2. CASE CommitDeltas
    BY <2>2, <1>b DEF CommitDeltas
  <2>3. CASE Restart
    BY <2>3, <1>b DEF Restart, SavedHash
  <2>4. CASE lastHash' = <<>>
    BY <2>4 DEF Built
  <2> QED
    BY <2>1, <2>2, <2>3, <2>4, <1>b, LastHashMoves
<1>3. Built(SavedHash')
  BY <1>b, HeadMoves
<1> QED
  BY <1>1, <1>2, <1>3 DEF ChainsBuilt

----------------------------------------------------------------------------
(* The chain of the node and that of the ExEx.                               *)

LEMMA NomtNotBehind ==
    ASSUME TypeInv, NomtInv, pc \in Stopped PROVE Len(SavedHash) <= nomtHead
<1>1. PICK c \in Chain : Continues(c, SavedHash) /\ NomtAt(c, Len(c))
  BY DEF NomtInv
<1> QED
  BY <1>1 DEF Continues, NomtAt, LogOf

LEMMA ShapeInit == Init => ShapeInv
BY DEF Init, ShapeInv, SavedHash, LoadedHead, FreshHead, Reverting, Reverted, Committing,
       Committed, ShutdownSteps, Stopped

LEMMA ShapeNode ==
    ASSUME SafeParameters, TypeInv, ShapeInv, NodeStep PROVE ShapeInv'
<1> USE DEF Reverting, Reverted, Committing, Committed, ShutdownSteps, Stopped
<1>a. /\ Len(chain) \in Nat /\ Len(lastHash) \in Nat /\ Len(SavedHash) \in Nat
      /\ job.lo \in Nat \ {0} /\ job.hi \in Nat /\ peak \in Nat /\ MaxReorg \in Nat
  BY Ranges
<1>b. SavedHash' = SavedHash /\ lastHash' = lastHash
  BY DEF NodeStep, NodeUnwinds, NodeExtends, Notify, SavedHash, LoadedHead, mdbx, memory, heads
<1>1. ASSUME NEW k \in 0 .. MaxReorg, NodeUnwinds(k) PROVE ShapeInv'
  <2>1. /\ pc = "idle" /\ pc' = "assembling" /\ peak' = peak
        /\ k <= Len(chain) /\ (k > 0 => peak + k <= Len(chain) + MaxReorg)
        /\ job'.lo = Len(chain) - k + 1 /\ job'.hi = Len(chain)
        /\ chain' = SubSeq(chain, 1, Len(chain) - k)
    BY <1>1 DEF NodeUnwinds
  <2>2. k \in Nat /\ Len(chain) - k \in Nat /\ Len(chain) - k <= Len(chain)
    BY <1>a, <2>1
  <2>3. Len(chain') = Len(chain) - k /\ SameUpTo(chain, chain', Len(chain) - k)
    BY <2>1, <2>2, PrefixOfChain
  <2>4. lastHash' = chain
    BY <2>1, <1>b DEF ShapeInv
  <2>5. SameUpTo(chain', lastHash', Len(chain) - k)
    BY <2>2, <2>3, <2>4, SameLess
  <2>6. Len(lastHash) <= peak /\ Len(SavedHash) <= peak
    BY DEF ShapeInv
  <2>7. job'.lo - 1 = Len(chain) - k
    BY <1>a, <2>1, <2>2
  <2>8. job'.lo <= job'.hi => peak' < job'.lo + MaxReorg
    BY <1>a, <2>1, <2>2
  <2>9. SameUpTo(chain', lastHash', job'.lo - 1)
    BY <2>5, <2>7
  <2>10. Len(lastHash') = Len(chain) /\ Len(lastHash') = Len(lastHash)
    BY <1>b, <2>4
  <2>a. job'.lo = Len(chain) - k + 1 /\ job'.hi = Len(chain)
    BY <2>1
  <2>11. /\ job'.lo - 1 <= Len(lastHash') /\ job'.lo - 1 <= Len(chain')
         /\ Len(chain') <= job'.lo /\ job'.hi = Len(lastHash')
    BY <1>a, <2>a, <2>2, <2>3, <2>10
  <2>12. Len(lastHash') <= peak' /\ Len(SavedHash') <= peak'
    BY <1>b, <2>1, <2>6
  <2> QED
    BY <1>a, <2>1, <2>8, <2>9, <2>10, <2>11, <2>12 DEF ShapeInv
<1>2. ASSUME NEW body \in Body, NodeExtends(body) PROVE ShapeInv'
  <2> DEFINE b == [body |-> body, post |-> Patched(StateAt(chain), Writes[body])]
  <2>1. /\ pc = "assembling" /\ pc' = pc /\ peak' = peak /\ job' = job
        /\ Len(chain) + 1 < job.lo + 1
        /\ chain' = Append(chain, b)
    BY <1>2 DEF NodeExtends, SafeParameters
  <2>2. b \in Block
    BY Ranges, StateAtType, PatchedType, UbtAssumption DEF Block
  <2> HIDE DEF b
  <2>3. Len(chain') = Len(chain) + 1 /\ SameUpTo(chain', chain, Len(chain))
    BY <2>1, <2>2, Ranges, AppendIs
  <2>4. /\ job.lo - 1 <= Len(lastHash) /\ job.lo - 1 <= Len(chain)
        /\ SameUpTo(chain, lastHash, job.lo - 1)
        /\ job.hi = Len(lastHash)
        /\ job.lo <= job.hi => peak < job.lo + MaxReorg
        /\ Len(lastHash) <= peak /\ Len(SavedHash) <= peak
    BY <2>1 DEF ShapeInv
  <2>5. SameUpTo(chain', lastHash, job.lo - 1)
    BY <1>a, <2>3, <2>4 DEF SameUpTo
  <2> QED
    BY <1>a, <1>b, <2>1, <2>3, <2>4, <2>5 DEF ShapeInv
<1>3. CASE Notify
  <2>1. /\ pc = "assembling" /\ chain' = chain /\ job' = job
        /\ job.lo <= job.hi \/ job.lo <= Len(chain)
        /\ peak' = IF Len(chain) > peak THEN Len(chain) ELSE peak
        /\ pc' = IF job.lo <= job.hi THEN "revertNomt" ELSE "commitNomt"
    BY <1>3 DEF Notify
  <2>2. /\ job.lo - 1 <= Len(lastHash) /\ job.lo - 1 <= Len(chain) /\ Len(chain) <= job.lo
        /\ SameUpTo(chain, lastHash, job.lo - 1)
        /\ job.hi = Len(lastHash)
        /\ job.lo <= job.hi => peak < job.lo + MaxReorg
        /\ Len(lastHash) <= peak /\ Len(SavedHash) <= peak
    BY <2>1 DEF ShapeInv
  <2>3. /\ peak' \in Nat /\ peak <= peak' /\ Len(chain) <= peak'
        /\ job.lo <= job.hi => peak' = peak
    BY <1>a, <2>1, <2>2
  <2>4. Len(lastHash) <= peak' /\ Len(SavedHash) <= peak'
    BY <1>a, <2>2, <2>3
  <2>5. CASE job.lo <= job.hi
    BY <1>a, <1>b, <2>1, <2>2, <2>3, <2>4, <2>5 DEF ShapeInv
  <2>6. CASE ~(job.lo <= job.hi)
    <3>1. Len(lastHash) = job.lo - 1 /\ Len(chain) = job.lo
      BY <1>a, <2>1, <2>2, <2>6
    <3> QED
      BY <1>a, <1>b, <2>1, <2>2, <2>3, <2>4, <2>6, <3>1 DEF ShapeInv
  <2> QED
    BY <2>5, <2>6
<1> QED
  BY <1>1, <1>2, <1>3 DEF NodeStep

\* After a revert the ExEx waits if nothing replaces the old blocks, and else has
\* their replacement to commit.
LEMMA ShapeAfterRevert ==
    ASSUME TypeInv, Len(lastHash) = job.lo - 1, job.lo - 1 <= Len(chain), Len(chain) <= job.lo,
           SameUpTo(chain, lastHash, job.lo - 1)
    PROVE  \/ AfterRevert = "idle" /\ lastHash = chain
           \/ AfterRevert = "commitNomt" /\ Len(chain) = job.lo
<1>1. CASE job.lo <= Len(chain)
  BY <1>1, Ranges DEF AfterRevert
<1>2. CASE ~(job.lo <= Len(chain))
  <2>1. Len(chain) = Len(lastHash)
    BY <1>2, Ranges
  <2>2. chain = lastHash
    BY <2>1, Ranges, SameChain
  <2> QED
    BY <1>2, <2>2 DEF AfterRevert
<1> QED
  BY <1>1, <1>2

LEMMA ShapeRevert ==
    ASSUME TypeInv, ShapeInv, Revert PROVE ShapeInv'
<1> USE DEF Reverting, Reverted, Committing, Committed, ShutdownSteps, Stopped
<1>a. /\ Len(chain) \in Nat /\ Len(lastHash) \in Nat /\ Len(SavedHash) \in Nat
      /\ job.lo \in Nat \ {0} /\ job.hi \in Nat /\ peak \in Nat /\ MaxReorg \in Nat
  BY Ranges
<1>b. chain' = chain /\ peak' = peak
  BY DEF Revert, RevertNomt, RevertBlock, RevertLastBlock, RevertStems, RevertHead, node
<1>c. SavedHash' = SavedHash \/ SavedHash' = lastHash
  BY HeadMoves DEF Next
<1>d. Len(lastHash) <= peak /\ Len(SavedHash) <= peak
  BY DEF ShapeInv
<1>1. CASE RevertNomt
  <2>1. pc = "revertNomt" /\ pc' = "revertBlock" /\ UNCHANGED <<lastHash, job, SavedHash>>
    BY <1>1 DEF RevertNomt, memory, heads, mdbx, SavedHash, LoadedHead
  <2> QED
    BY <1>a, <1>b, <2>1 DEF ShapeInv
<1>2. CASE RevertBlock
  <2>1. /\ pc = "revertBlock" /\ pc' = "revertBlock" /\ UNCHANGED <<lastHash, SavedHash>>
        /\ job'.lo = job.lo /\ job'.hi = job.hi - 1
    BY <1>2 DEF RevertBlock, heads, SavedHash, LoadedHead, TypeInv, TypeOK
  <2> QED
    BY <1>a, <1>b, <2>1 DEF ShapeInv
<1>3. CASE RevertLastBlock
  <2>1. /\ pc = "revertBlock" /\ pc' \in {"revertStems", AfterRevert} /\ SavedHash' = SavedHash
        /\ lastHash' = SubSeq(chain, 1, job.lo - 1) /\ job'.lo = job.lo
    BY <1>3 DEF RevertLastBlock, SavedHash, LoadedHead, TypeInv, TypeOK
  <2>2. job.lo - 1 \in Nat /\ job.lo - 1 <= Len(chain) /\ Len(chain) <= job.lo
        /\ job.lo - 1 <= Len(lastHash) /\ Len(chain) <= peak
    BY <1>a, <2>1 DEF ShapeInv
  <2>3. Len(lastHash') = job.lo - 1 /\ SameUpTo(chain, lastHash', job.lo - 1)
        /\ lastHash' \in Chain
    BY <2>1, <2>2, PrefixOfChain
  <2>4. \/ AfterRevert = "idle" /\ lastHash' = chain
        \/ AfterRevert = "commitNomt" /\ Len(chain) = job.lo
    <3>1. CASE job.lo <= Len(chain)
      BY <3>1, <1>a, <2>2 DEF AfterRevert
    <3>2. CASE ~(job.lo <= Len(chain))
      <4>1. chain = lastHash'
        BY <1>a, <2>2, <2>3, <3>2, Ranges, SameChain
      <4> QED
        BY <3>2, <4>1 DEF AfterRevert
    <3> QED
      BY <3>1, <3>2
  <2> QED
    BY <1>a, <1>b, <1>d, <2>1, <2>2, <2>3, <2>4 DEF ShapeInv
<1>4. CASE RevertStems
  <2>1. pc = "revertStems" /\ pc' = "revertHead" /\ UNCHANGED <<lastHash, job, SavedHash>>
    BY <1>4 DEF RevertStems, heads, SavedHash, LoadedHead
  <2> QED
    BY <1>a, <1>b, <2>1 DEF ShapeInv
<1>5. CASE RevertHead
  <2>1. pc = "revertHead" /\ pc' = AfterRevert /\ UNCHANGED <<lastHash, job>>
    BY <1>5 DEF RevertHead
  <2>2. /\ Len(lastHash) = job.lo - 1 /\ job.lo - 1 <= Len(chain) /\ Len(chain) <= job.lo
        /\ SameUpTo(chain, lastHash, job.lo - 1) /\ Len(chain) <= peak
    BY <2>1 DEF ShapeInv
  <2>3. \/ AfterRevert = "idle" /\ lastHash = chain
        \/ AfterRevert = "commitNomt" /\ Len(chain) = job.lo
    BY <2>2, ShapeAfterRevert
  <2> QED
    BY <1>a, <1>b, <1>c, <1>d, <2>1, <2>2, <2>3 DEF ShapeInv
<1> QED
  BY <1>1, <1>2, <1>3, <1>4, <1>5 DEF Revert

LEMMA ShapeCommit ==
    ASSUME TypeInv, ShapeInv, Commit PROVE ShapeInv'
<1> USE DEF Reverting, Reverted, Committing, Committed, ShutdownSteps, Stopped
<1>a. /\ Len(chain) \in Nat /\ Len(lastHash) \in Nat /\ Len(SavedHash) \in Nat
  BY Ranges
<1>b. chain' = chain /\ peak' = peak
  BY DEF Commit, CommitNomt, CommitOverlay, CommitIndex, CommitDeltas, FlushStems,
         FlushHead, FlushIndexHead, Prune, Ack, node
<1>c. /\ pc \in Committing \cup Committed
      /\ Len(lastHash) <= peak /\ Len(SavedHash) <= peak /\ Len(chain) <= peak
  BY DEF ShapeInv, Commit, CommitNomt, CommitOverlay, CommitIndex, CommitDeltas, FlushStems,
         FlushHead, FlushIndexHead, Prune, Ack
<1>d. SavedHash' = SavedHash \/ SavedHash' = lastHash
  BY HeadMoves DEF Next
<1>1. CASE CommitNomt \/ CommitOverlay \/ CommitIndex
  <2>1. /\ pc \in Committing /\ pc' \in Committing /\ UNCHANGED <<lastHash, job>>
    BY <1>1 DEF CommitNomt, CommitOverlay, CommitIndex, memory, heads
  <2> QED
    BY <1>a, <1>b, <1>c, <1>d, <2>1 DEF ShapeInv
<1>2. CASE CommitDeltas
  <2>1. pc' \in {"flushStems", "ack"} /\ lastHash' = chain
    BY <1>2 DEF CommitDeltas
  <2> QED
    BY <1>a, <1>b, <1>c, <1>d, <2>1 DEF ShapeInv
<1>3. CASE FlushStems \/ FlushHead \/ FlushIndexHead \/ Prune \/ Ack
  <2>1. pc \in Committed /\ pc' \in Committed \cup {"idle"} /\ lastHash' = lastHash
    BY <1>3 DEF FlushStems, FlushHead, FlushIndexHead, Prune, Ack, memory, heads
  <2> QED
    BY <1>a, <1>b, <1>c, <1>d, <2>1 DEF ShapeInv
<1> QED
  BY <1>1, <1>2, <1>3 DEF Commit

LEMMA ShapeStop ==
    ASSUME SafeParameters, TypeInv, ShapeInv, NomtInv, StopOrStart PROVE ShapeInv'
<1> USE DEF Reverting, Reverted, Committing, Committed, ShutdownSteps, Stopped
<1>a. /\ Len(chain) \in Nat /\ Len(lastHash) \in Nat /\ Len(SavedHash) \in Nat
      /\ peak \in Nat /\ Len(<<>>) = 0
  BY Ranges
<1>b. peak' = peak
  BY DEF StopOrStart, Crash, Shutdown, ShutdownStems, ShutdownHead, RestartRefused, Restart, node
<1>c. Len(lastHash) <= peak /\ Len(SavedHash) <= peak
  BY DEF ShapeInv
<1>d. SavedHash' = SavedHash \/ SavedHash' = lastHash
  BY HeadMoves DEF Next
<1>1. CASE Crash \/ ShutdownHead \/ RestartRefused
  <2>1. pc' \in Stopped /\ lastHash' \in {<<>>, lastHash}
    BY <1>1 DEF Crash, Stop, Forget, ShutdownHead, RestartRefused, memory, heads
  <2> QED
    BY <1>a, <1>b, <1>c, <1>d, <2>1 DEF ShapeInv
<1>2. CASE Shutdown \/ ShutdownStems
  <2>1. /\ pc \in {"idle"} \cup ShutdownSteps /\ pc' \in ShutdownSteps
        /\ UNCHANGED <<chain, lastHash>>
    BY <1>2 DEF Shutdown, ShutdownStems, memory, heads, node
  <2> QED
    BY <1>a, <1>b, <1>c, <1>d, <2>1 DEF ShapeInv
<1>3. CASE Restart
  <2>1. /\ pc = "down" /\ pc' = "idle" /\ lastHash' = SavedHash /\ SavedHash' = SavedHash
    BY <1>3 DEF Restart, SavedHash, LoadedHead, mdbx
  <2>2. chain' = SavedHash
    BY <1>3, <2>1, NomtNotBehind, ResumesAtHead
  <2> QED
    BY <1>a, <1>b, <1>c, <2>1, <2>2 DEF ShapeInv
<1> QED
  BY <1>1, <1>2, <1>3 DEF StopOrStart

LEMMA ShapeStep ==
    ASSUME SafeParameters, TypeInv, ShapeInv, NomtInv, [Next]_vars PROVE ShapeInv'
<1>1. CASE UNCHANGED vars
  BY <1>1 DEF ShapeInv, SavedHash, LoadedHead, vars, node, memory, heads, mdbx
<1> QED
  BY <1>1, ShapeNode, ShapeRevert, ShapeCommit, ShapeStop DEF Next

----------------------------------------------------------------------------
(* What overlay and MDBX show.                                               *)

LEMMA FlushedView ==
    ASSUME TypeOK
    PROVE  /\ StateOf(Overlaid(EmptyTable, BatchUpdateStems(mdbxStems, overlay))) = View
           /\ StateOf(Overlaid(EmptyTable, mdbxStems)) = StateOf(mdbxStems)
<1>1. ASSUME NEW T \in Table PROVE Overlaid(EmptyTable, T) = T
  BY DEF Overlaid, EmptyTable, Table
<1>2. Overlaid(overlay, mdbxStems) \in Table /\ mdbxStems \in Table
  BY OverlaidType DEF TypeOK
<1> QED
  BY <1>1, <1>2 DEF BatchUpdateStems, View

\* One turn of the loop of revert takes one block back.
LEMMA BlockTakenBack ==
    ASSUME SafeParameters, TypeInv, ShapeInv, ViewInv, RecordsInv, pc = "revertBlock",
           overlay' = WriteThrough(overlay, mdbxStems, mdbxDeltas[job.hi]),
           mdbxStems' = mdbxStems
    PROVE  View' = StateUpTo(lastHash, job.hi - 1)
<1>a. TypeOK /\ Bounds
  BY DEF TypeInv
<1>b. /\ job.lo \in Nat \ {0} /\ job.hi \in Nat /\ MaxHeight \in Nat /\ Len(lastHash) \in Nat
      /\ MaxReorg \in Nat /\ DeltaRetention \in Nat /\ peak \in Nat
  BY Ranges
<1>1. job.lo <= job.hi /\ job.hi <= MaxHeight
  BY <1>a DEF Bounds
<1>2. job.hi \in BlockNumber /\ mdbxDeltas[job.hi] \in Patch
  BY <1>a, <1>b, <1>1 DEF BlockNumber, TypeOK
<1>3. View' = Patched(View, mdbxDeltas[job.hi])
  BY <1>a, <1>2, WriteThroughView DEF View, TypeOK
<1>4. View = StateUpTo(lastHash, job.hi) /\ RecordsLead(lastHash, job.hi)
  BY DEF ViewInv, RecordsInv, Reverting
<1>5. peak < job.lo + MaxReorg /\ job.hi <= Len(lastHash)
  BY <1>1 DEF ShapeInv, Reverting
<1>6. job.hi \in 1 .. job.hi /\ job.hi + DeltaRetention >= peak
  BY <1>b, <1>1, <1>5 DEF SafeParameters
<1>7. Patched(lastHash[job.hi].post, mdbxDeltas[job.hi]) = StateUpTo(lastHash, job.hi - 1)
  BY <1>4, <1>6 DEF RecordsLead, Leads
<1>8. View = lastHash[job.hi].post
  BY <1>4, <1>6, <1>b, <1>1 DEF StateUpTo
<1> QED
  BY <1>3, <1>7, <1>8

\* commit brings one block in.
LEMMA BlockTakenIn ==
    ASSUME TypeInv, ChainsBuilt, ShapeInv, pc \in Committing
    PROVE  /\ Patched(StateAt(lastHash), pendingEntries) = StateAt(chain)
           /\ StateAt(lastHash) # StateAt(chain)
           /\ StateAt(lastHash) = StateUpTo(chain, Len(chain) - 1)
<1>a. /\ chain \in Chain /\ lastHash \in Chain
      /\ Len(chain) \in Nat /\ Len(lastHash) \in Nat /\ job.lo \in Nat \ {0}
  BY Ranges
<1>1. /\ Len(lastHash) = job.lo - 1 /\ Len(chain) = job.lo
      /\ SameUpTo(chain, lastHash, job.lo - 1)
  BY DEF ShapeInv
<1>2. StateAt(lastHash) = StateUpTo(lastHash, job.lo - 1)
  BY <1>a, <1>1, StateAtIs
<1>3. StateUpTo(lastHash, job.lo - 1) = StateUpTo(chain, job.lo - 1)
  BY <1>a, <1>1, SameStates
<1>4. Built(chain) /\ Len(chain) # 0
  BY <1>a, <1>1 DEF ChainsBuilt
<1>5. Patched(StateUpTo(chain, job.lo - 1), ProcessChain(chain, job.lo)) = StateAt(chain)
  BY <1>a, <1>1, <1>4, OneBlockWritten
<1>6. chain[job.lo].post # StateUpTo(chain, job.lo - 1)
  BY <1>a, <1>1, <1>4 DEF Built
<1>7. StateAt(chain) = chain[job.lo].post
  BY <1>a, <1>1, StateAtIs DEF StateUpTo
<1> QED
  BY <1>1, <1>2, <1>3, <1>5, <1>6, <1>7 DEF pendingEntries

LEMMA ViewInit == Init => ViewInv /\ DeltaInv
<1> SUFFICES ASSUME Init PROVE ViewInv /\ DeltaInv
  OBVIOUS
<1>1. View = EmptyState
  BY EmptyTypes DEF Init, View, StateOf, NodeOf, Overlaid, EmptyTable, EmptyState
<1> QED
  BY <1>1 DEF Init, ViewInv, DeltaInv, StateAt, Reverting, Shown

LEMMA ViewRevert ==
    ASSUME SafeParameters, TypeInv, ShapeInv, ViewInv, RecordsInv, Revert PROVE ViewInv'
<1> USE DEF Reverting, Shown, Stopped
<1>a. chain \in Chain /\ lastHash \in Chain /\ job.lo \in Nat \ {0} /\ job.hi \in Nat
  BY Ranges
<1>1. CASE RevertNomt
  BY <1>1 DEF RevertNomt, ViewInv, View, mdbx, memory, heads
<1>2. CASE RevertBlock
  <2>1. /\ pc = "revertBlock" /\ pc' = pc /\ lastHash' = lastHash
        /\ mdbxStems' = mdbxStems
        /\ overlay' = WriteThrough(overlay, mdbxStems, mdbxDeltas[job.hi])
        /\ job'.hi = job.hi - 1
    BY <1>2 DEF RevertBlock, ApplyDeltasReverse, heads, TypeInv, TypeOK
  <2>2. View' = StateUpTo(lastHash, job.hi - 1)
    BY <2>1, BlockTakenBack
  <2> QED
    BY <2>1, <2>2 DEF ViewInv
<1>3. CASE RevertLastBlock
  <2>1. /\ pc = "revertBlock" /\ pc' \notin Reverting \cup Shown
        /\ lastHash' = SubSeq(chain, 1, job.lo - 1)
        /\ mdbxStems' = mdbxStems /\ job.lo = job.hi
        /\ overlay' = WriteThrough(overlay, mdbxStems, mdbxDeltas[job.hi])
    BY <1>3 DEF RevertLastBlock, AfterRevert, ApplyDeltasReverse
  <2>2. View' = StateUpTo(lastHash, job.lo - 1)
    BY <2>1, BlockTakenBack
  <2>3. /\ job.lo - 1 \in Nat /\ job.lo - 1 <= Len(chain)
        /\ SameUpTo(chain, lastHash, job.lo - 1)
    BY <1>a, <2>1 DEF ShapeInv
  <2>4. StateAt(SubSeq(chain, 1, job.lo - 1)) = StateUpTo(chain, job.lo - 1)
    BY <2>3, PrefixOfChain
  <2>5. StateUpTo(chain, job.lo - 1) = StateUpTo(lastHash, job.lo - 1)
    BY <2>3, SameStates
  <2>6. View' = StateAt(lastHash')
    BY <2>1, <2>2, <2>4, <2>5
  <2> QED
    BY <2>1, <2>6 DEF ViewInv
<1>4. CASE RevertStems
  <2>1. View' = View
    BY <1>4, FlushedView DEF RevertStems, View, TypeInv
  <2> QED
    BY <1>4, <2>1 DEF RevertStems, ViewInv, heads
<1>5. CASE RevertHead
  BY <1>5 DEF RevertHead, AfterRevert, ViewInv, View
<1> QED
  BY <1>1, <1>2, <1>3, <1>4, <1>5 DEF Revert

LEMMA ViewCommit ==
    ASSUME TypeInv, ChainsBuilt, ShapeInv, ViewInv, DeltaInv, Commit
    PROVE  ViewInv' /\ DeltaInv'
<1> USE DEF Reverting, Shown, Stopped
<1>1. CASE CommitNomt
  BY <1>1 DEF CommitNomt, ViewInv, DeltaInv, View, mdbx, memory, heads
<1>2. CASE CommitOverlay
  <2>1. TypeOK /\ pc = "commitOverlay"
    BY <1>2 DEF CommitOverlay, TypeInv
  <2>2. View = StateAt(lastHash) /\ View \in State
    BY <2>1, HeadTypes DEF ViewInv
  <2>3. pendingEntries \in Patch
    BY <2>1, PendingType
  <2>4. Patched(StateAt(lastHash), pendingEntries) = StateAt(chain)
    BY <2>1, BlockTakenIn DEF Committing
  <2>5. View' = Patched(View, pendingEntries)
    BY <1>2, <2>1, <2>3, WriteThroughView DEF CommitOverlay, View, TypeOK
  <2>6. Patched(Patched(View, pendingEntries), delta') = View
    BY <1>2, <2>2, <2>3, UndoPatch DEF CommitOverlay
  <2>7. pc' = "commitIndex" /\ UNCHANGED <<chain, lastHash>>
    BY <1>2 DEF CommitOverlay, heads, node
  <2> QED
    BY <2>2, <2>4, <2>5, <2>6, <2>7 DEF ViewInv, DeltaInv
<1>3. CASE CommitIndex
  BY <1>3 DEF CommitIndex, ViewInv, DeltaInv, View, mdbx, heads, node
<1>4. CASE CommitDeltas
  BY <1>4 DEF CommitDeltas, ViewInv, DeltaInv, View
<1>5. CASE FlushStems
  <2>1. View' = View
    BY <1>5, FlushedView DEF FlushStems, View, TypeInv
  <2> QED
    BY <1>5, <2>1 DEF FlushStems, ViewInv, DeltaInv, heads
<1>6. CASE FlushHead \/ FlushIndexHead \/ Prune \/ Ack
  BY <1>6 DEF FlushHead, FlushIndexHead, Prune, Ack, ViewInv, DeltaInv, View, mdbx, memory, heads
<1> QED
  BY <1>1, <1>2, <1>3, <1>4, <1>5, <1>6 DEF Commit

LEMMA ViewStep ==
    ASSUME SafeParameters, TypeInv, TrackInv, [Next]_vars PROVE ViewInv' /\ DeltaInv'
<1> USE DEF Reverting, Shown, Stopped
<1>a. /\ ChainsBuilt /\ ShapeInv /\ ViewInv /\ DeltaInv /\ RecordsInv /\ SavedInv
      /\ TypeOK
  BY DEF TrackInv, TypeInv
<1>1. CASE NodeStep
  <2>1. View' = View /\ lastHash' = lastHash
    BY <1>1 DEF NodeStep, NodeUnwinds, NodeExtends, Notify, View, mdbx, memory, heads
  <2>2. /\ pc \in {"idle", "assembling"}
        /\ pc' \in {"assembling", "revertNomt", "commitNomt"}
        /\ pc' = "revertNomt" => pc = "assembling" /\ job' = job
    <3>1. ASSUME NEW k \in 0 .. MaxReorg, NodeUnwinds(k)
          PROVE  pc = "idle" /\ pc' = "assembling"
      BY <3>1 DEF NodeUnwinds
    <3>2. ASSUME NEW body \in Body, NodeExtends(body)
          PROVE  pc = "assembling" /\ pc' = "assembling"
      BY <3>2 DEF NodeExtends
    <3>3. Notify => /\ pc = "assembling" /\ pc' \in {"revertNomt", "commitNomt"}
                    /\ job' = job
      BY DEF Notify
    <3> QED
      BY <1>1, <3>1, <3>2, <3>3 DEF NodeStep
  <2>3. View = StateAt(lastHash)
    BY <1>a, <2>2 DEF ViewInv
  <2>4. pc = "assembling" => StateAt(lastHash) = StateUpTo(lastHash, job.hi)
    BY <1>a, Ranges, StateAtIs DEF ShapeInv
  <2> QED
    BY <2>1, <2>2, <2>3, <2>4 DEF ViewInv, DeltaInv
<1>2. CASE Revert
  <2>1. ViewInv'
    BY <1>2, <1>a, ViewRevert
  <2>2. pc' \notin Shown
    BY <1>2 DEF Revert, RevertNomt, RevertBlock, RevertLastBlock, RevertStems, RevertHead,
                AfterRevert
  <2> QED
    BY <2>1, <2>2 DEF DeltaInv
<1>3. CASE Commit
  BY <1>3, <1>a, ViewCommit
<1>4. CASE Crash \/ ShutdownHead \/ RestartRefused
  BY <1>4 DEF Crash, Stop, ShutdownHead, RestartRefused, ViewInv, DeltaInv
<1>5. CASE Shutdown
  BY <1>5, <1>a DEF Shutdown, ViewInv, DeltaInv, View, mdbx, memory, heads
<1>6. CASE ShutdownStems
  <2>1. View' = View
    BY <1>6, <1>a, FlushedView DEF ShutdownStems, View
  <2> QED
    BY <1>6, <1>a, <2>1 DEF ShutdownStems, ViewInv, DeltaInv, heads
<1>7. CASE Restart
  <2>1. /\ pc = "down" /\ pc' = "idle" /\ lastHash' = SavedHash
        /\ overlay' = overlay /\ mdbxStems' = mdbxStems
    BY <1>7 DEF Restart, SavedHash, mdbx
  <2>2. overlay = EmptyTable /\ StateOf(mdbxStems) = StateAt(SavedHash)
    BY <1>a, <2>1 DEF SavedInv, TornSteps
  <2>3. View' = StateAt(SavedHash)
    BY <1>a, <2>1, <2>2, FlushedView DEF View
  <2> QED
    BY <2>1, <2>3 DEF ViewInv, DeltaInv
<1>8. CASE UNCHANGED vars
  BY <1>8, <1>a DEF vars, ViewInv, DeltaInv, View, mdbx, memory, heads, node
<1> QED
  BY <1>1, <1>2, <1>3, <1>4, <1>5, <1>6, <1>7, <1>8 DEF Next, StopOrStart

----------------------------------------------------------------------------
(* The undo records.                                                         *)

LEMMA LeadsStill ==
    ASSUME NEW c, NEW d, NEW n \in Nat, NEW m \in Nat, m <= n, SameUpTo(c, d, m),
           NEW ds, NEW es, NEW top \in Nat, NEW newTop \in Nat, top <= newTop,
           Leads(c, n, ds, top),
           \A b \in 1 .. m : b + DeltaRetention >= newTop => es[b] = ds[b]
    PROVE  Leads(d, m, es, newTop)
<1> SUFFICES ASSUME NEW b \in 1 .. m, b + DeltaRetention >= newTop
             PROVE  Patched(d[b].post, es[b]) = StateUpTo(d, b - 1)
  BY DEF Leads
<1>1. b \in 1 .. n /\ b + DeltaRetention >= top /\ b - 1 \in Nat /\ b - 1 <= m
  BY UbtAssumption
<1>2. Patched(c[b].post, ds[b]) = StateUpTo(c, b - 1)
  BY <1>1 DEF Leads
<1>3. StateUpTo(c, b - 1) = StateUpTo(d, b - 1)
  BY <1>1, SameStates
<1> QED
  BY <1>2, <1>3 DEF SameUpTo

LEMMA NothingToApply == ASSUME NEW S \in State PROVE Patched(S, EmptyPatch) = S
<1>1. ASSUME NEW s \in Stem PROVE PatchNode(S[s], EmptyPatch[s]) = S[s]
  BY DEF State, Node, PatchNode, EmptyPatch
<1> QED
  BY <1>1 DEF Patched, State

\* A record is saved for the block that came in.
LEMMA RecordSaved ==
    ASSUME TypeInv, ChainsBuilt, ShapeInv, DeltaInv, CommitDeltas
    PROVE  /\ mdbxDeltas' = [mdbxDeltas EXCEPT ![Len(chain)] = delta]
           /\ Patched(chain[Len(chain)].post, mdbxDeltas'[Len(chain)])
                = StateUpTo(chain, Len(chain) - 1)
<1>a. TypeOK /\ Bounds /\ pc = "commitDeltas"
  BY DEF TypeInv, CommitDeltas
<1>b. chain \in Chain /\ Len(chain) \in Nat /\ job.lo \in Nat \ {0} /\ MaxHeight \in Nat
  BY Ranges
<1>1. Len(chain) = job.lo
  BY <1>a DEF ShapeInv, Committing
<1>2. Len(chain) \in BlockNumber
  BY <1>a, <1>b, <1>1 DEF Bounds, BlockNumber
<1>3. /\ StateAt(lastHash) # StateAt(chain)
      /\ StateAt(lastHash) = StateUpTo(chain, Len(chain) - 1)
  BY <1>a, BlockTakenIn DEF Committing
<1>4. Patched(StateAt(chain), delta) = StateAt(lastHash)
  BY <1>a DEF DeltaInv, Shown
<1>5. delta # EmptyPatch
  BY <1>b, <1>3, <1>4, NothingToApply, StateAtType
<1>6. mdbxDeltas' = [mdbxDeltas EXCEPT ![Len(chain)] = delta]
  BY <1>5 DEF CommitDeltas, SaveBlockDeltas, tip
<1>7. mdbxDeltas'[Len(chain)] = delta
  BY <1>a, <1>2, <1>6 DEF TypeOK
<1>8. StateAt(chain) = chain[Len(chain)].post
  BY <1>b, <1>1, StateAtIs DEF StateUpTo
<1> QED
  BY <1>3, <1>4, <1>6, <1>7, <1>8

LEMMA RecordsInit == Init => RecordsInv
BY DEF Init, RecordsInv, RecordsLead, Leads, Reverting, Stopped

LEMMA RecordsRevert ==
    ASSUME TypeInv, ShapeInv, RecordsInv, Revert PROVE RecordsInv'
<1> USE DEF Reverting, Stopped
<1>a. /\ TypeOK /\ Bounds /\ chain \in Chain /\ lastHash \in Chain
      /\ job.lo \in Nat \ {0} /\ job.hi \in Nat /\ peak \in Nat
      /\ Len(lastHash) \in Nat /\ Len(chain) \in Nat /\ MaxHeight \in Nat
  BY Ranges DEF TypeInv
<1>1. CASE RevertNomt
  BY <1>1 DEF RevertNomt, RecordsInv, RecordsLead, mdbx, memory, heads, node
<1>2. CASE RevertBlock
  <2>1. /\ pc = "revertBlock" /\ pc' = pc /\ lastHash' = lastHash /\ peak' = peak
        /\ mdbxDeltas' \in {mdbxDeltas, [mdbxDeltas EXCEPT ![job.hi] = EmptyPatch]}
        /\ job'.hi = job.hi - 1 /\ job.lo < job.hi
    BY <1>2, <1>a DEF RevertBlock, ApplyDeltasReverse, DeleteBlockDeltas, heads, node, TypeOK
  <2>2. RecordsLead(lastHash, job.hi)
    BY <2>1 DEF RecordsInv
  <2>3. job.hi - 1 \in Nat /\ job.hi - 1 <= job.hi /\ SameUpTo(lastHash, lastHash, job.hi - 1)
    BY <1>a, <2>1 DEF SameUpTo
  <2>4. \A b \in 1 .. job.hi - 1 : mdbxDeltas'[b] = mdbxDeltas[b]
    <3> SUFFICES ASSUME NEW b \in 1 .. job.hi - 1 PROVE mdbxDeltas'[b] = mdbxDeltas[b]
      OBVIOUS
    <3>1. b \in BlockNumber /\ b # job.hi
      BY <1>a DEF BlockNumber, Bounds
    <3> QED
      BY <1>a, <2>1, <3>1 DEF TypeOK
  <2>5. Leads(lastHash, job.hi - 1, mdbxDeltas', peak)
    BY <1>a, <2>2, <2>3, <2>4, LeadsStill DEF RecordsLead
  <2> QED
    BY <2>1, <2>5 DEF RecordsInv, RecordsLead
<1>3. CASE RevertLastBlock
  <2>1. /\ pc = "revertBlock" /\ pc' \notin Reverting \cup Stopped /\ peak' = peak
        /\ lastHash' = SubSeq(chain, 1, job.lo - 1)
        /\ mdbxDeltas' \in {mdbxDeltas, [mdbxDeltas EXCEPT ![job.lo] = EmptyPatch]}
        /\ job.lo = job.hi
    BY <1>3, <1>a DEF RevertLastBlock, AfterRevert, ApplyDeltasReverse, DeleteBlockDeltas,
                      node
  <2>2. RecordsLead(lastHash, job.lo)
    BY <2>1 DEF RecordsInv
  <2>3. /\ job.lo - 1 \in Nat /\ job.lo - 1 <= Len(chain) /\ job.lo - 1 <= job.lo
        /\ SameUpTo(chain, lastHash, job.lo - 1)
    BY <1>a, <2>1 DEF ShapeInv
  <2>4. Len(lastHash') = job.lo - 1 /\ SameUpTo(chain, lastHash', job.lo - 1)
    BY <2>1, <2>3, PrefixOfChain
  <2>5. SameUpTo(lastHash, lastHash', job.lo - 1)
    BY <2>3, <2>4 DEF SameUpTo
  <2>6. \A b \in 1 .. job.lo - 1 : mdbxDeltas'[b] = mdbxDeltas[b]
    <3> SUFFICES ASSUME NEW b \in 1 .. job.lo - 1 PROVE mdbxDeltas'[b] = mdbxDeltas[b]
      OBVIOUS
    <3>1. b \in BlockNumber /\ b # job.lo
      BY <1>a, <2>1 DEF BlockNumber, Bounds
    <3> QED
      BY <1>a, <2>1, <3>1 DEF TypeOK
  <2>7. Leads(lastHash', job.lo - 1, mdbxDeltas', peak)
    BY <1>a, <2>2, <2>3, <2>5, <2>6, LeadsStill DEF RecordsLead
  <2> QED
    BY <2>1, <2>4, <2>7 DEF RecordsInv, RecordsLead
<1>4. CASE RevertStems
  BY <1>4 DEF RevertStems, RecordsInv, RecordsLead, heads, node
<1>5. CASE RevertHead
  BY <1>5 DEF RevertHead, AfterRevert, RecordsInv, RecordsLead, node
<1> QED
  BY <1>1, <1>2, <1>3, <1>4, <1>5 DEF Revert

LEMMA RecordsCommit ==
    ASSUME SafeParameters, TypeInv, ChainsBuilt, ShapeInv, DeltaInv, RecordsInv, Commit
    PROVE  RecordsInv'
<1> USE DEF Reverting, Stopped
<1>a. /\ TypeOK /\ Bounds /\ chain \in Chain /\ lastHash \in Chain
      /\ job.lo \in Nat \ {0} /\ peak \in Nat /\ DeltaRetention \in Nat /\ MaxReorg \in Nat
      /\ Len(lastHash) \in Nat /\ Len(chain) \in Nat /\ MaxHeight \in Nat
  BY Ranges DEF TypeInv
<1>1. CASE CommitNomt \/ CommitOverlay \/ CommitIndex
  BY <1>1 DEF CommitNomt, CommitOverlay, CommitIndex, RecordsInv, RecordsLead,
              mdbx, memory, heads, node
<1>2. CASE CommitDeltas
  <2> DEFINE n == Len(chain)
  <2>1. /\ pc = "commitDeltas" /\ pc' \notin Reverting \cup Stopped /\ peak' = peak
        /\ lastHash' = chain
    BY <1>2 DEF CommitDeltas, node
  <2>2. RecordsLead(lastHash, Len(lastHash))
    BY <2>1 DEF RecordsInv
  <2>3. Len(lastHash) = n - 1 /\ SameUpTo(chain, lastHash, n - 1)
    BY <2>1, <1>a DEF ShapeInv, Committing
  <2>4. /\ mdbxDeltas' = [mdbxDeltas EXCEPT ![n] = delta]
        /\ Patched(chain[n].post, mdbxDeltas'[n]) = StateUpTo(chain, n - 1)
    BY <1>2, RecordSaved
  <2>5. \A b \in 1 .. n - 1 : mdbxDeltas'[b] = mdbxDeltas[b]
    BY <1>a, <2>4
  <2>6. n - 1 \in Nat /\ SameUpTo(lastHash, chain, n - 1)
    BY <1>a, <2>3 DEF SameUpTo
  <2>7. Leads(chain, n - 1, mdbxDeltas', peak)
    BY <1>a, <2>2, <2>3, <2>5, <2>6, LeadsStill DEF RecordsLead
  <2>8. Leads(chain, n, mdbxDeltas', peak)
    <3> SUFFICES ASSUME NEW b \in 1 .. n, b + DeltaRetention >= peak
                 PROVE  Patched(chain[b].post, mdbxDeltas'[b]) = StateUpTo(chain, b - 1)
      BY DEF Leads
    <3>1. b = n \/ b \in 1 .. n - 1
      BY <1>a
    <3> QED
      BY <2>4, <2>7, <3>1 DEF Leads
  <2> QED
    BY <2>1, <2>8 DEF RecordsInv, RecordsLead
<1>3. CASE FlushStems \/ FlushHead \/ FlushIndexHead \/ Ack
  BY <1>3 DEF FlushStems, FlushHead, FlushIndexHead, Ack, RecordsInv, RecordsLead,
              mdbx, memory, heads, node
<1>4. CASE Prune
  <2>1. /\ pc = "prune" /\ pc' = "ack" /\ lastHash' = lastHash /\ peak' = peak
        /\ mdbxDeltas' \in {mdbxDeltas, PruneDeltasBefore(mdbxDeltas, Len(chain) - DeltaRetention)}
    BY <1>4 DEF Prune, memory, heads, node, tip
  <2>2. lastHash = chain /\ Len(chain) <= peak
    BY <2>1 DEF ShapeInv, Committed
  <2>3. RecordsLead(chain, Len(chain))
    BY <2>1, <2>2 DEF RecordsInv
  <2>4. ASSUME NEW b \in 1 .. Len(chain), b + DeltaRetention >= peak
        PROVE  mdbxDeltas'[b] = mdbxDeltas[b]
    <3>1. ~(b < Len(chain) - DeltaRetention)
      BY <1>a, <2>2, <2>4
    <3>2. b \in BlockNumber /\ DOMAIN mdbxDeltas = BlockNumber
      BY <1>a DEF BlockNumber, Bounds, TypeOK
    <3> QED
      BY <2>1, <3>1, <3>2 DEF PruneDeltasBefore
  <2>5. SameUpTo(chain, chain, Len(chain))
    BY DEF SameUpTo
  <2>6. Leads(chain, Len(chain), mdbxDeltas', peak)
    BY <1>a, <2>3, <2>4, <2>5, LeadsStill DEF RecordsLead
  <2> QED
    BY <2>1, <2>2, <2>6 DEF RecordsInv, RecordsLead
<1> QED
  BY <1>1, <1>2, <1>3, <1>4 DEF Commit

LEMMA RecordsNode ==
    ASSUME TypeInv, ShapeInv, RecordsInv, NodeStep PROVE RecordsInv'
<1> USE DEF Reverting, Stopped
<1>a. peak \in Nat /\ Len(lastHash) \in Nat /\ Len(chain) \in Nat
  BY Ranges
<1>1. lastHash' = lastHash /\ mdbxDeltas' = mdbxDeltas
  BY DEF NodeStep, NodeUnwinds, NodeExtends, Notify, mdbx, memory, heads
<1>2. ASSUME NEW k \in 0 .. MaxReorg, NodeUnwinds(k)
      PROVE  pc = "idle" /\ pc' = "assembling" /\ peak' = peak
  BY <1>2 DEF NodeUnwinds
<1>3. ASSUME NEW body \in Body, NodeExtends(body)
      PROVE  pc = "assembling" /\ pc' = "assembling" /\ peak' = peak
  BY <1>3 DEF NodeExtends
<1>4. Notify => /\ pc = "assembling" /\ job' = job
                /\ pc' \in {"revertNomt", "commitNomt"}
                /\ peak' = IF Len(chain) > peak THEN Len(chain) ELSE peak
  BY DEF Notify
<1>5. /\ pc \in {"idle", "assembling"}
      /\ pc' \in {"assembling", "revertNomt", "commitNomt"}
      /\ peak' \in Nat /\ peak <= peak'
      /\ pc' = "revertNomt" => pc = "assembling" /\ job' = job
  BY <1>a, <1>2, <1>3, <1>4 DEF NodeStep
<1>6. Leads(lastHash, Len(lastHash), mdbxDeltas, peak)
  BY <1>5 DEF RecordsInv, RecordsLead
<1>7. SameUpTo(lastHash, lastHash, Len(lastHash))
  BY DEF SameUpTo
<1>8. Leads(lastHash, Len(lastHash), mdbxDeltas, peak')
  BY <1>a, <1>5, <1>6, <1>7, LeadsStill
<1>9. pc' = "revertNomt" => job'.hi = Len(lastHash)
  BY <1>5 DEF ShapeInv
<1> QED
  BY <1>1, <1>5, <1>8, <1>9 DEF RecordsInv, RecordsLead

LEMMA RecordsStop ==
    ASSUME SafeParameters, TypeInv, ShapeInv, SavedInv, RecordsInv, StopOrStart
    PROVE  RecordsInv'
<1> USE DEF Reverting, Stopped
<1>a. /\ peak \in Nat /\ Len(lastHash) \in Nat /\ Len(SavedHash) \in Nat
      /\ peak' = peak /\ mdbxDeltas' = mdbxDeltas
  BY Ranges DEF StopOrStart, Crash, Shutdown, ShutdownStems, ShutdownHead, RestartRefused,
                Restart, node, mdbx
<1>1. CASE Crash
  <2>1. /\ pc \notin Stopped \cup Reverted \cup TornSteps \cup {"revertBlock"}
        /\ pc' = "down" /\ SavedHash' = SavedHash
    BY <1>1 DEF Crash, Stop, SafeParameters, Reverted, TornSteps, SavedHash, LoadedHead, mdbx
  <2>2. Continues(lastHash, SavedHash)
    BY <2>1 DEF SavedInv
  <2>3. Leads(lastHash, Len(lastHash), mdbxDeltas, peak)
    <3>1. pc = "revertNomt" => job.hi = Len(lastHash)
      BY DEF ShapeInv
    <3> QED
      BY <2>1, <3>1 DEF RecordsInv, RecordsLead
  <2>4. Leads(SavedHash, Len(SavedHash), mdbxDeltas, peak)
    BY <1>a, <2>2, <2>3, LeadsStill DEF Continues
  <2> QED
    BY <1>a, <2>1, <2>4 DEF RecordsInv, RecordsLead
<1>2. CASE Shutdown \/ ShutdownStems
  BY <1>2, <1>a DEF Shutdown, ShutdownStems, RecordsInv, RecordsLead, memory, heads
<1>3. CASE ShutdownHead
  <2>1. pc = "shutHead" /\ pc' = "down"
    BY <1>3 DEF ShutdownHead
  <2>2. SavedHash' = lastHash
    <3>1. MemoryHead # NoHead
      BY HeadTypes, HeadAssumption DEF TypeInv
    <3> QED
      BY <1>3, <3>1 DEF ShutdownHead, SavedHash, LoadedHead, MemoryHead
  <2> QED
    BY <1>a, <2>1, <2>2 DEF RecordsInv, RecordsLead
<1>4. CASE RestartRefused
  BY <1>4, <1>a DEF RestartRefused, RecordsInv, RecordsLead, SavedHash, LoadedHead, mdbx
<1>5. CASE Restart
  <2>1. pc = "down" /\ pc' = "idle" /\ lastHash' = SavedHash
    BY <1>5 DEF Restart, SavedHash
  <2> QED
    BY <1>a, <2>1 DEF RecordsInv, RecordsLead
<1> QED
  BY <1>1, <1>2, <1>3, <1>4, <1>5 DEF StopOrStart

LEMMA RecordsStep ==
    ASSUME SafeParameters, TypeInv, TrackInv, [Next]_vars PROVE RecordsInv'
<1>1. CASE UNCHANGED vars
  BY <1>1 DEF TrackInv, RecordsInv, RecordsLead, SavedHash, LoadedHead,
              vars, node, memory, heads, mdbx
<1> QED
  BY <1>1, RecordsNode, RecordsRevert, RecordsCommit, RecordsStop DEF Next, TrackInv

----------------------------------------------------------------------------
(* The checkpoint.                                                           *)

LEMMA SavedInit == Init => SavedInv
<1>1. StateOf(EmptyTable) = EmptyState
  BY DEF StateOf, NodeOf, EmptyTable, EmptyState
<1> QED
  BY <1>1, UbtAssumption
  DEF Init, SavedInv, SavedHash, LoadedHead, FreshHead, Continues, SameUpTo, StateAt,
      TornSteps, Stopped, Reverted

\* Between the stems and the head MDBX holds what the tree shows.
LEMMA StemsAhead ==
    ASSUME TypeInv, ViewInv, SavedInv, pc \in TornSteps
    PROVE  StateOf(mdbxStems) = StateAt(lastHash)
<1>1. overlay = EmptyTable
  BY DEF SavedInv
<1>2. View = StateOf(mdbxStems)
  BY <1>1, FlushedView DEF View, TypeInv
<1>3. View = StateAt(lastHash)
  BY DEF ViewInv, TornSteps, Reverting, Shown, Stopped
<1> QED
  BY <1>2, <1>3

LEMMA ContinuesItself == ASSUME NEW c \in Chain PROVE Continues(c, c)
BY ChainLen DEF Continues, SameUpTo

LEMMA ContinuesFurther ==
    ASSUME NEW c \in Chain, NEW d \in Chain, NEW e \in Chain,
           Len(d) <= Len(c), SameUpTo(c, d, Len(d)), Continues(d, e)
    PROVE  Continues(c, e)
<1>1. Len(c) \in Nat /\ Len(d) \in Nat /\ Len(e) \in Nat
  BY ChainLen
<1>2. Len(e) <= Len(d) /\ \A k \in 1 .. Len(e) : d[k] = e[k]
  BY DEF Continues, SameUpTo
<1>3. ASSUME NEW k \in 1 .. Len(e) PROVE c[k] = e[k]
  <2>1. k \in 1 .. Len(d)
    BY <1>1, <1>2
  <2> QED
    BY <1>2, <2>1 DEF SameUpTo
<1> QED
  BY <1>1, <1>2, <1>3 DEF Continues, SameUpTo

LEMMA SavedNode == ASSUME SavedInv, NodeStep PROVE SavedInv'
<1>1. /\ pc \in {"idle", "assembling"}
      /\ pc' \in {"assembling", "revertNomt", "commitNomt"}
  BY DEF NodeStep, NodeUnwinds, NodeExtends, Notify
<1>2. UNCHANGED <<mdbxStems, SavedHash, overlay, lastHash, lastPersistedBlock>>
  BY DEF NodeStep, NodeUnwinds, NodeExtends, Notify, mdbx, memory, heads, SavedHash, LoadedHead
<1> QED
  BY <1>1, <1>2 DEF SavedInv, TornSteps, Stopped, Reverted

LEMMA SavedRevert ==
    ASSUME TypeInv, ShapeInv, ViewInv, SavedInv, Revert PROVE SavedInv'
<1> USE DEF TornSteps, Stopped, Reverted
<1>a. /\ lastHash \in Chain /\ chain \in Chain
      /\ Len(lastHash) \in Nat /\ Len(SavedHash) \in Nat /\ Len(chain) \in Nat
      /\ job.lo \in Nat \ {0} /\ FlushInterval \in Nat \ {0} /\ lastBlock = Len(lastHash)
  BY Ranges
<1>1. CASE RevertNomt \/ RevertBlock
  BY <1>1 DEF RevertNomt, RevertBlock, SavedInv, SavedHash, LoadedHead, mdbx, memory, heads
<1>2. CASE RevertLastBlock
  <2>1. /\ pc = "revertBlock"
        /\ UNCHANGED <<mdbxStems, SavedHash, lastPersistedBlock>>
        /\ lastHash' = SubSeq(chain, 1, job.lo - 1)
        /\ pc' = "revertStems" \/ (lastPersistedBlock < job.lo /\ pc' \in {"idle", "commitNomt"})
    BY <1>2, <1>a DEF RevertLastBlock, AfterRevert, RevertedPersisted, SavedHash, LoadedHead,
                      TypeInv, TypeOK
  <2>2. /\ StateOf(mdbxStems) = StateAt(SavedHash)
        /\ lastPersistedBlock = Len(SavedHash)
        /\ Continues(lastHash, SavedHash)
        /\ Len(lastHash) < Len(SavedHash) + FlushInterval
    BY <2>1 DEF SavedInv
  <2>3. /\ job.lo - 1 \in Nat /\ job.lo - 1 <= Len(chain) /\ job.lo - 1 <= Len(lastHash)
        /\ SameUpTo(chain, lastHash, job.lo - 1)
    BY <1>a, <2>1 DEF ShapeInv, Reverting
  <2>4. Len(lastHash') = job.lo - 1 /\ SameUpTo(chain, lastHash', job.lo - 1)
    BY <2>1, <2>3, PrefixOfChain
  <2>5. CASE pc' = "revertStems"
    BY <2>1, <2>2, <2>5 DEF SavedInv
  <2>6. CASE lastPersistedBlock < job.lo /\ pc' \in {"idle", "commitNomt"}
    <3>1. Len(SavedHash) <= job.lo - 1
      BY <1>a, <2>2, <2>6
    <3>2. SameUpTo(lastHash', SavedHash, Len(SavedHash))
      BY <1>a, <2>2, <2>3, <2>4, <3>1 DEF Continues, SameUpTo
    <3>3. Continues(lastHash', SavedHash')
      BY <2>1, <2>4, <3>1, <3>2 DEF Continues
    <3>4. Len(lastHash') < Len(SavedHash') + FlushInterval
      BY <1>a, <2>1, <2>2, <2>3, <2>4
    <3> QED
      BY <2>1, <2>2, <2>6, <3>3, <3>4 DEF SavedInv
  <2> QED
    BY <2>1, <2>5, <2>6
<1>3. CASE RevertStems
  BY <1>3 DEF RevertStems, SavedInv, SavedHash, LoadedHead, heads
<1>4. CASE RevertHead
  <2>1. /\ pc = "revertHead" /\ pc' \in {"idle", "commitNomt"}
        /\ UNCHANGED <<mdbxStems, lastHash>> /\ lastPersistedBlock' = Len(lastHash)
    BY <1>4, <1>a DEF RevertHead, AfterRevert
  <2>2. SavedHash' = lastHash
    <3>1. MemoryHead # NoHead
      BY HeadTypes, HeadAssumption DEF TypeInv
    <3> QED
      BY <1>4, <3>1 DEF RevertHead, SavedHash, LoadedHead, MemoryHead
  <2>3. StateOf(mdbxStems) = StateAt(lastHash)
    BY <2>1, StemsAhead
  <2>4. Continues(lastHash, lastHash)
    BY <1>a, ContinuesItself
  <2>5. Len(lastHash) < Len(lastHash) + FlushInterval
    BY <1>a
  <2> QED
    BY <2>1, <2>2, <2>3, <2>4, <2>5 DEF SavedInv
<1> QED
  BY <1>1, <1>2, <1>3, <1>4 DEF Revert

LEMMA SavedCommit ==
    ASSUME TypeInv, ShapeInv, ViewInv, SavedInv, Commit PROVE SavedInv'
<1> USE DEF TornSteps, Stopped, Reverted
<1>a. /\ lastHash \in Chain /\ chain \in Chain
      /\ Len(lastHash) \in Nat /\ Len(SavedHash) \in Nat /\ Len(chain) \in Nat
      /\ job.lo \in Nat \ {0} /\ FlushInterval \in Nat \ {0} /\ lastBlock = Len(lastHash)
  BY Ranges
<1>1. CASE CommitNomt \/ CommitOverlay \/ CommitIndex
  BY <1>1 DEF CommitNomt, CommitOverlay, CommitIndex, SavedInv, SavedHash, LoadedHead,
              mdbx, memory, heads
<1>2. CASE CommitDeltas
  <2>1. /\ pc = "commitDeltas"
        /\ UNCHANGED <<mdbxStems, SavedHash, lastPersistedBlock>>
        /\ lastHash' = chain
        /\ \/ pc' = "flushStems"
           \/ pc' = "ack" /\ ~(Len(chain) - lastPersistedBlock >= FlushInterval)
    BY <1>2 DEF CommitDeltas, ShouldFlush, tip, SavedHash, LoadedHead
  <2>2. /\ StateOf(mdbxStems) = StateAt(SavedHash)
        /\ lastPersistedBlock = Len(SavedHash)
        /\ Continues(lastHash, SavedHash)
    BY <2>1 DEF SavedInv
  <2>3. /\ Len(lastHash) = job.lo - 1 /\ Len(chain) = job.lo
        /\ SameUpTo(chain, lastHash, job.lo - 1)
    BY <2>1 DEF ShapeInv, Committing
  <2>4. Continues(chain, SavedHash)
    BY <1>a, <2>2, <2>3, Ranges, ContinuesFurther
  <2>5. Continues(lastHash', SavedHash')
    BY <2>1, <2>4
  <2>6. pc' = "ack" => Len(lastHash') < Len(SavedHash') + FlushInterval
    BY <1>a, <2>1, <2>2
  <2> QED
    BY <2>1, <2>2, <2>5, <2>6 DEF SavedInv
<1>3. CASE FlushStems
  BY <1>3 DEF FlushStems, SavedInv, SavedHash, LoadedHead, heads
<1>4. CASE FlushHead
  <2>1. /\ pc = "flushHead" /\ pc' = "flushIndexHead"
        /\ UNCHANGED <<mdbxStems, lastHash>>
    BY <1>4 DEF FlushHead, memory, heads
  <2>2. SavedHash' = lastHash
    <3>1. MemoryHead # NoHead
      BY HeadTypes, HeadAssumption DEF TypeInv
    <3> QED
      BY <1>4, <3>1 DEF FlushHead, SavedHash, LoadedHead, MemoryHead
  <2>3. StateOf(mdbxStems) = StateAt(lastHash)
    BY <2>1, StemsAhead
  <2>4. Continues(lastHash, lastHash) /\ Len(lastHash) < Len(lastHash) + FlushInterval
    BY <1>a, ContinuesItself
  <2> QED
    BY <2>1, <2>2, <2>3, <2>4 DEF SavedInv
<1>5. CASE FlushIndexHead
  <2>1. /\ pc = "flushIndexHead" /\ pc' \in {"prune", "ack"}
        /\ UNCHANGED <<mdbxStems, overlay, lastHash, SavedHash>>
        /\ lastPersistedBlock' = Len(lastHash)
    BY <1>5, <1>a DEF FlushIndexHead, mdbx, SavedHash, LoadedHead
  <2>2. SavedHash = lastHash
    BY <2>1 DEF SavedInv
  <2> QED
    BY <2>1, <2>2 DEF SavedInv
<1>6. CASE Prune \/ Ack
  BY <1>6 DEF Prune, Ack, SavedInv, SavedHash, LoadedHead, mdbx, memory, heads
<1> QED
  BY <1>1, <1>2, <1>3, <1>4, <1>5, <1>6 DEF Commit

LEMMA SavedStop ==
    ASSUME SafeParameters, TypeInv, ViewInv, SavedInv, NomtInv, StopOrStart PROVE SavedInv'
<1> USE DEF TornSteps, Stopped, Reverted
<1>1. CASE Crash
  <2>1. /\ pc \notin TornSteps /\ pc' = "down" /\ overlay' = EmptyTable
        /\ UNCHANGED <<mdbxStems, SavedHash>>
    BY <1>1 DEF Crash, Stop, Forget, SafeParameters, mdbx, SavedHash, LoadedHead
  <2> QED
    BY <2>1 DEF SavedInv
<1>2. CASE Shutdown
  BY <1>2 DEF Shutdown, SavedInv, SavedHash, LoadedHead, mdbx, memory, heads
<1>3. CASE ShutdownStems
  BY <1>3 DEF ShutdownStems, SavedInv, SavedHash, LoadedHead, heads
<1>4. CASE ShutdownHead
  <2>1. /\ pc = "shutHead" /\ pc' = "down" /\ overlay' = EmptyTable /\ mdbxStems' = mdbxStems
    BY <1>4 DEF ShutdownHead, Forget
  <2>2. SavedHash' = lastHash
    <3>1. MemoryHead # NoHead
      BY HeadTypes, HeadAssumption DEF TypeInv
    <3> QED
      BY <1>4, <3>1 DEF ShutdownHead, SavedHash, LoadedHead, MemoryHead
  <2>3. StateOf(mdbxStems) = StateAt(lastHash)
    BY <2>1, StemsAhead
  <2> QED
    BY <2>1, <2>2, <2>3 DEF SavedInv
<1>5. CASE RestartRefused
  BY <1>5 DEF RestartRefused, SavedInv, SavedHash, LoadedHead, mdbx, memory, heads
<1>6. CASE Restart
  <2>1. /\ pc = "down" /\ pc' = "idle" /\ lastHash' = SavedHash
        /\ UNCHANGED <<mdbxStems, SavedHash>>
    BY <1>6 DEF Restart, mdbx, SavedHash, LoadedHead
  <2>2. lastPersistedBlock' = Len(SavedHash)
    BY <1>6, <2>1, NomtNotBehind, ResumesAtHead
  <2>3. Continues(SavedHash, SavedHash) /\ Len(SavedHash) < Len(SavedHash) + FlushInterval
    BY Ranges, ContinuesItself
  <2> QED
    BY <2>1, <2>2, <2>3 DEF SavedInv
<1> QED
  BY <1>1, <1>2, <1>3, <1>4, <1>5, <1>6 DEF StopOrStart

LEMMA SavedStep ==
    ASSUME SafeParameters, TypeInv, TrackInv, [Next]_vars PROVE SavedInv'
<1>1. CASE UNCHANGED vars
  BY <1>1 DEF TrackInv, SavedInv, SavedHash, LoadedHead, vars, memory, heads, mdbx
<1> QED
  BY <1>1, SavedNode, SavedRevert, SavedCommit, SavedStop DEF Next, TrackInv

----------------------------------------------------------------------------
(* NOMT.                                                                     *)

LEMMA LogSame ==
    ASSUME NEW c, NEW d, NEW n \in Nat, SameUpTo(c, d, n),
           NEW state, NEW head, NEW log \in Seq(NomtRecord), LogOf(c, n, state, head, log)
    PROVE  LogOf(d, n, state, head, log)
<1>1. Len(log) \in Nat /\ Len(log) <= n
  BY LenProperties DEF LogOf
<1>2. state = StateUpTo(d, n) /\ head = n
  BY SameStates DEF LogOf
<1>3. ASSUME NEW j \in 1 .. Len(log)
      PROVE  log[j] = [state |-> StateUpTo(d, n - Len(log) + j - 1),
                       head  |-> n - Len(log) + j - 1]
  <2> DEFINE m == n - Len(log) + j - 1
  <2>1. m \in Nat /\ m <= n
    BY <1>1
  <2>2. log[j] = [state |-> StateUpTo(c, m), head |-> m]
    BY DEF LogOf
  <2> HIDE DEF m
  <2>3. StateUpTo(c, m) = StateUpTo(d, m)
    BY <2>1, SameStates
  <2>4. log[j] = [state |-> StateUpTo(d, m), head |-> m]
    BY <2>2, <2>3
  <2> QED
    BY <2>4 DEF m
<1> QED
  BY <1>1, <1>2, <1>3 DEF LogOf

LEMMA LogCommitted ==
    ASSUME NEW c, NEW n \in Nat, NEW log \in Seq(NomtRecord),
           NEW state \in State, NEW head \in Nat, LogOf(c, n, state, head, log)
    PROVE  LET new == CommitLog(log, [state |-> state, head |-> head])
           IN  /\ LogOf(c, n + 1, StateUpTo(c, n + 1), n + 1, new)
               /\ Len(new) = IF Len(log) + 1 <= NomtHistory THEN Len(log) + 1 ELSE NomtHistory
<1> DEFINE r == [state |-> state, head |-> head]
           a == Append(log, r)
           new == CommitLog(log, r)
<1>1. Len(log) \in Nat /\ Len(log) <= n /\ NomtHistory \in Nat
  BY LenProperties, StoresAssumption DEF LogOf
<1>2. r \in NomtRecord
  BY DEF NomtRecord
<1>3. r = [state |-> StateUpTo(c, n), head |-> n]
  BY DEF LogOf
<1> HIDE DEF r
<1>4. /\ a \in Seq(NomtRecord) /\ Len(a) = Len(log) + 1
      /\ a[Len(log) + 1] = r /\ \A j \in 1 .. Len(log) : a[j] = log[j]
  BY <1>2, AppendProperties
<1>5. ASSUME NEW j \in 1 .. Len(a)
      PROVE  a[j] = [state |-> StateUpTo(c, n - Len(log) + j - 1),
                     head  |-> n - Len(log) + j - 1]
  <2>1. CASE j = Len(log) + 1
    <3>1. n - Len(log) + j - 1 = n
      BY <1>1, <2>1
    <3> QED
      BY <1>3, <1>4, <2>1, <3>1
  <2>2. CASE j # Len(log) + 1
    <3>1. j \in 1 .. Len(log)
      BY <1>1, <1>4, <2>2
    <3> QED
      BY <1>4, <3>1 DEF LogOf
  <2> QED
    BY <2>1, <2>2
<1>6. new = KeepLast(a, NomtHistory)
  BY DEF CommitLog
<1> HIDE DEF a, new
<1>7. CASE Len(log) + 1 <= NomtHistory
  <2>1. new = a /\ Len(new) = Len(log) + 1
    BY <1>4, <1>6, <1>7 DEF KeepLast
  <2>2. ASSUME NEW j \in 1 .. Len(new)
        PROVE  new[j] = [state |-> StateUpTo(c, (n + 1) - Len(new) + j - 1),
                         head  |-> (n + 1) - Len(new) + j - 1]
    <3>1. (n + 1) - Len(new) + j - 1 = n - Len(log) + j - 1
      BY <1>1, <2>1
    <3> QED
      BY <1>5, <2>1, <3>1
  <2>3. LogOf(c, n + 1, StateUpTo(c, n + 1), n + 1, new)
    BY <1>1, <2>1, <2>2 DEF LogOf
  <2> QED
    BY <1>7, <2>1, <2>3 DEF new, r
<1>8. CASE ~(Len(log) + 1 <= NomtHistory)
  <2> DEFINE k == Len(a) - NomtHistory
  <2>1. k \in Nat /\ k >= 1 /\ k = Len(log) + 1 - NomtHistory
    BY <1>1, <1>4, <1>8
  <2>2. new = SubSeq(a, k + 1, Len(a))
    BY <1>4, <1>6, <1>8 DEF KeepLast
  <2> HIDE DEF k
  <2>3. Len(new) = NomtHistory /\ \A j \in 1 .. NomtHistory : new[j] = a[k + j]
    <3>1. Len(a) \in Nat /\ k + 1 \in Nat /\ k + 1 <= Len(a) + 1
      BY <1>1, <1>4, <2>1
    <3>2. Len(new) = Len(a) - (k + 1) + 1
      BY <1>4, <2>2, <3>1, SubSeqProperties
    <3>3. Len(new) = NomtHistory
      BY <1>1, <1>4, <2>1, <3>2
    <3>4. \A j \in 1 .. NomtHistory : new[j] = a[(k + 1) + j - 1]
      BY <1>1, <1>4, <2>1, <2>2, <3>1, <3>2, <3>3, SubSeqProperties
    <3>5. \A j \in 1 .. NomtHistory : (k + 1) + j - 1 = k + j
      BY <2>1
    <3> QED
      BY <3>3, <3>4, <3>5
  <2>4. ASSUME NEW j \in 1 .. Len(new)
        PROVE  new[j] = [state |-> StateUpTo(c, (n + 1) - Len(new) + j - 1),
                         head  |-> (n + 1) - Len(new) + j - 1]
    <3>1. k + j \in 1 .. Len(a)
      BY <1>1, <1>4, <2>1, <2>3
    <3>2. (n + 1) - Len(new) + j - 1 = n - Len(log) + (k + j) - 1
      BY <1>1, <2>1, <2>3
    <3> QED
      BY <1>5, <2>3, <3>1, <3>2
  <2>5. Len(new) <= n + 1
    BY <1>1, <1>8, <2>3
  <2>6. LogOf(c, n + 1, StateUpTo(c, n + 1), n + 1, new)
    BY <2>4, <2>5 DEF LogOf
  <2> QED
    BY <1>8, <2>3, <2>6 DEF new, r
<1> QED
  BY <1>7, <1>8

LEMMA LogRolledBack ==
    ASSUME NEW c, NEW n \in Nat, NEW log \in Seq(NomtRecord), NEW state, NEW head,
           LogOf(c, n, state, head, log), NEW k \in Nat, k # 0, k <= Len(log)
    PROVE  /\ LogOf(c, n - k, RollbackTarget(log, k).state, RollbackTarget(log, k).head,
                    RollbackLog(log, k))
           /\ Len(RollbackLog(log, k)) = Len(log) - k
<1> DEFINE new == RollbackLog(log, k)
<1>1. Len(log) \in Nat /\ Len(log) <= n
  BY LenProperties DEF LogOf
<1>2. Len(log) - k + 1 \in 1 .. Len(log) /\ n - Len(log) + (Len(log) - k + 1) - 1 = n - k
  BY <1>1
<1>3. RollbackTarget(log, k) = [state |-> StateUpTo(c, n - k), head |-> n - k]
  BY <1>2 DEF RollbackTarget, LogOf
<1>4. /\ Len(new) = Len(log) - k
      /\ \A j \in 1 .. Len(log) - k : new[j] = log[j]
  <2>1. new = SubSeq(log, 1, Len(log) - k) /\ Len(log) - k \in Nat
    BY <1>1 DEF RollbackLog
  <2> QED
    BY <1>1, <2>1, SubSeqProperties
<1> HIDE DEF new
<1>5. ASSUME NEW j \in 1 .. Len(new)
      PROVE  new[j] = [state |-> StateUpTo(c, (n - k) - Len(new) + j - 1),
                       head  |-> (n - k) - Len(new) + j - 1]
  <2>1. j \in 1 .. Len(log) /\ j \in 1 .. Len(log) - k
    BY <1>1, <1>4
  <2>2. (n - k) - Len(new) + j - 1 = n - Len(log) + j - 1
    BY <1>1, <1>4
  <2> QED
    BY <1>4, <2>1, <2>2 DEF LogOf
<1>6. Len(new) <= n - k
  BY <1>1, <1>4
<1> QED
  BY <1>3, <1>4, <1>5, <1>6 DEF LogOf, new

\* The log reaches at least as far when the highest block or the checkpoint moves up.
LEMMA ReachesStill ==
    ASSUME NEW n \in Nat, NEW kept \in Nat, NEW top \in Nat, NEW saved \in Nat,
           NEW newTop \in Nat, NEW newSaved \in Nat, top <= newTop,
           Reaches(n, kept, top, saved), saved <= newSaved \/ n <= newSaved
    PROVE  Reaches(n, kept, newTop, newSaved)
BY UbtAssumption DEF Reaches

LEMMA NomtInit == Init => NomtInv
<1> SUFFICES ASSUME Init PROVE NomtInv
  OBVIOUS
<1>1. NomtAt(lastHash, Len(lastHash))
  BY DEF Init, NomtAt, LogOf, Reaches, StateUpTo, SavedHash, LoadedHead, FreshHead
<1> QED
  BY <1>1 DEF Init, NomtInv, Stopped, NomtFirst

LEMMA NomtNode == ASSUME TypeInv, NomtInv, NodeStep PROVE NomtInv'
<1>a. /\ peak \in Nat /\ Len(lastHash) \in Nat /\ Len(SavedHash) \in Nat /\ Len(chain) \in Nat
      /\ Len(nomtLog) \in Nat
  BY Ranges, LenProperties DEF TypeInv, TypeOK
<1>1. /\ pc \in {"idle", "assembling"}
      /\ pc' \in {"assembling", "revertNomt", "commitNomt"}
  BY DEF NodeStep, NodeUnwinds, NodeExtends, Notify
<1>2. UNCHANGED <<nomtState, nomtHead, nomtLog, SavedHash, lastHash>>
  BY DEF NodeStep, NodeUnwinds, NodeExtends, Notify, nomt, mdbx, memory, heads, SavedHash,
         LoadedHead
<1>3. peak' \in Nat /\ peak <= peak'
  <2>1. ASSUME NEW k \in 0 .. MaxReorg, NodeUnwinds(k) PROVE peak' = peak
    BY <2>1 DEF NodeUnwinds
  <2>2. ASSUME NEW body \in Body, NodeExtends(body) PROVE peak' = peak
    BY <2>2 DEF NodeExtends
  <2>3. Notify => peak' = IF Len(chain) > peak THEN Len(chain) ELSE peak
    BY DEF Notify
  <2> QED
    BY <1>a, <2>1, <2>2, <2>3 DEF NodeStep
<1>4. NomtAt(lastHash, Len(lastHash))
  BY <1>1 DEF NomtInv, Stopped, NomtFirst
<1>5. Reaches(Len(lastHash), Len(nomtLog), peak', Len(SavedHash))
  <2>1. Reaches(Len(lastHash), Len(nomtLog), peak, Len(SavedHash))
    BY <1>4 DEF NomtAt
  <2> QED
    BY <1>a, <1>3, <2>1, ReachesStill
<1>6. NomtAt(lastHash, Len(lastHash))'
  BY <1>2, <1>4, <1>5 DEF NomtAt
<1> QED
  BY <1>1, <1>6 DEF NomtInv, Stopped, NomtFirst

LEMMA NomtRevert ==
    ASSUME TypeInv, ShapeInv, NomtInv, Revert PROVE NomtInv'
<1> USE DEF Stopped, NomtFirst
<1>a. /\ peak \in Nat /\ Len(lastHash) \in Nat /\ Len(SavedHash) \in Nat /\ Len(chain) \in Nat
      /\ job.lo \in Nat \ {0} /\ job.hi \in Nat /\ MaxReorg \in Nat
      /\ nomtLog \in Seq(NomtRecord) /\ Len(nomtLog) \in Nat
      /\ lastHash \in Chain /\ TypeOK /\ Bounds
  BY Ranges, LenProperties DEF TypeInv, TypeOK
<1>1. CASE RevertNomt
  <2> DEFINE n == Len(lastHash)
             k == RollbackCount
  <2>1. /\ pc = "revertNomt" /\ pc' = "revertBlock" /\ NomtRollback(RollbackCount)
        /\ UNCHANGED <<lastHash, job, peak, SavedHash>>
    BY <1>1 DEF RevertNomt, mdbx, memory, heads, node, SavedHash, LoadedHead
  <2>2. /\ job.lo <= job.hi /\ job.hi = n /\ peak < job.lo + MaxReorg
    BY <1>a, <2>1 DEF ShapeInv, Reverting, Bounds
  <2>3. k \in Nat /\ k # 0 /\ n - k = job.lo - 1 /\ k <= n
    <3>1. job.lo \in Nat \ {0} /\ job.hi \in Nat /\ job.lo <= job.hi /\ job.hi = n
      BY <1>a, <2>2
    <3> HIDE DEF n
    <3>2. k = job.hi - job.lo + 1
      BY DEF RollbackCount
    <3> HIDE DEF k
    <3> QED
      BY <3>1, <3>2
  <2>4. /\ LogOf(lastHash, n, nomtState, nomtHead, nomtLog)
        /\ Reaches(n, Len(nomtLog), peak, Len(SavedHash))
    BY <2>1 DEF NomtInv, NomtAt
  <2> HIDE DEF k, n
  <2>5. k <= Len(nomtLog)
    <3>1. n \in Nat /\ Len(nomtLog) \in Nat
      BY <1>a DEF n
    <3>2. n + MaxReorg <= peak + Len(nomtLog) \/ n = Len(nomtLog)
      BY <2>4 DEF Reaches
    <3>3. n + MaxReorg > peak + (k - 1)
      BY <1>a, <2>2, <2>3, <3>1
    <3> QED
      BY <1>a, <2>3, <3>1, <3>2, <3>3
  <2>6. /\ nomtState' = RollbackTarget(nomtLog, k).state
        /\ nomtHead' = RollbackTarget(nomtLog, k).head
        /\ nomtLog' = RollbackLog(nomtLog, k)
    BY <1>a, <2>1, <2>3, <2>5 DEF NomtRollback, CanRollback, k
  <2>7. /\ LogOf(lastHash, n - k, nomtState', nomtHead', nomtLog')
        /\ Len(nomtLog') = Len(nomtLog) - k
    BY <1>a, <2>3, <2>4, <2>5, <2>6, LogRolledBack DEF n
  <2>8. n \in Nat
    BY <1>a DEF n
  <2>9. Reaches(n - k, Len(nomtLog) - k, peak, Len(SavedHash))
    BY <1>a, <2>3, <2>4, <2>5, <2>8 DEF Reaches
  <2>10. NomtAt(lastHash, job.lo - 1)'
    BY <2>1, <2>3, <2>7, <2>9 DEF NomtAt
  <2> QED
    BY <2>1, <2>10 DEF NomtInv
<1>2. CASE RevertBlock
  <2>1. /\ pc = "revertBlock" /\ pc' = pc /\ job'.lo = job.lo
        /\ UNCHANGED <<lastHash, peak, SavedHash, nomtState, nomtHead, nomtLog>>
    BY <1>2, <1>a DEF RevertBlock, nomt, heads, node, SavedHash, LoadedHead, TypeOK
  <2> QED
    BY <2>1 DEF NomtInv, NomtAt
<1>3. CASE RevertLastBlock
  <2>1. /\ pc = "revertBlock" /\ pc' \in {"revertStems", "idle", "commitNomt"}
        /\ lastHash' = SubSeq(chain, 1, job.lo - 1)
        /\ UNCHANGED <<peak, SavedHash, nomtState, nomtHead, nomtLog>>
    BY <1>3 DEF RevertLastBlock, AfterRevert, nomt, node, SavedHash, LoadedHead
  <2>2. /\ job.lo - 1 \in Nat /\ job.lo - 1 <= Len(chain)
        /\ SameUpTo(chain, lastHash, job.lo - 1)
    BY <1>a, <2>1 DEF ShapeInv, Reverting
  <2>3. Len(lastHash') = job.lo - 1 /\ SameUpTo(chain, lastHash', job.lo - 1)
    BY <2>1, <2>2, PrefixOfChain
  <2>4. SameUpTo(lastHash, lastHash', job.lo - 1)
    BY <2>2, <2>3 DEF SameUpTo
  <2>5. NomtAt(lastHash, job.lo - 1)
    BY <2>1 DEF NomtInv
  <2>6. LogOf(lastHash', job.lo - 1, nomtState, nomtHead, nomtLog)
    BY <1>a, <2>2, <2>4, <2>5, LogSame DEF NomtAt
  <2>7. NomtAt(lastHash, Len(lastHash))'
    BY <2>1, <2>3, <2>5, <2>6 DEF NomtAt
  <2> QED
    BY <2>1, <2>7 DEF NomtInv
<1>4. CASE RevertStems
  BY <1>4 DEF RevertStems, NomtInv, NomtAt, nomt, heads, node, SavedHash, LoadedHead
<1>5. CASE RevertHead
  <2>1. /\ pc = "revertHead" /\ pc' \in {"idle", "commitNomt"}
        /\ UNCHANGED <<lastHash, peak, nomtState, nomtHead, nomtLog>>
    BY <1>5 DEF RevertHead, AfterRevert, nomt, node
  <2>2. SavedHash' = lastHash
    <3>1. MemoryHead # NoHead
      BY HeadTypes, HeadAssumption DEF TypeInv
    <3> QED
      BY <1>5, <3>1 DEF RevertHead, SavedHash, LoadedHead, MemoryHead
  <2>3. NomtAt(lastHash, Len(lastHash))
    BY <2>1 DEF NomtInv
  <2>4. Reaches(Len(lastHash), Len(nomtLog), peak, Len(lastHash))
    BY <1>a, <2>3, ReachesStill DEF NomtAt
  <2>5. NomtAt(lastHash, Len(lastHash))'
    BY <2>1, <2>2, <2>3, <2>4 DEF NomtAt
  <2> QED
    BY <2>1, <2>5 DEF NomtInv
<1> QED
  BY <1>1, <1>2, <1>3, <1>4, <1>5 DEF Revert

LEMMA NomtCommit ==
    ASSUME SafeParameters, TypeInv, ChainsBuilt, ShapeInv, SavedInv, NomtInv, Commit
    PROVE  NomtInv'
<1> USE DEF Stopped, NomtFirst
<1>a. /\ peak \in Nat /\ Len(lastHash) \in Nat /\ Len(SavedHash) \in Nat /\ Len(chain) \in Nat
      /\ job.lo \in Nat \ {0} /\ MaxReorg \in Nat /\ NomtHistory \in Nat
      /\ FlushInterval \in Nat
      /\ nomtLog \in Seq(NomtRecord) /\ Len(nomtLog) \in Nat
      /\ lastHash \in Chain /\ chain \in Chain /\ TypeOK /\ Bounds
  BY Ranges, LenProperties DEF TypeInv, TypeOK
<1>1. CASE CommitNomt
  <2> DEFINE n == Len(lastHash)
  <2>1. /\ pc = "commitNomt" /\ pc' = "commitOverlay"
        /\ nomtLog' = CommitLog(nomtLog, [state |-> nomtState, head |-> nomtHead])
        /\ nomtState' = Patched(nomtState, pendingEntries)
        /\ nomtHead' = Len(chain)
        /\ UNCHANGED <<chain, peak, SavedHash>>
    BY <1>1 DEF CommitNomt, tip, mdbx, memory, node, SavedHash, LoadedHead
  <2>2. /\ n = job.lo - 1 /\ Len(chain) = job.lo /\ SameUpTo(chain, lastHash, job.lo - 1)
        /\ Len(chain) <= peak
    BY <2>1 DEF ShapeInv, Committing
  <2>3. /\ LogOf(lastHash, n, nomtState, nomtHead, nomtLog)
        /\ Reaches(n, Len(nomtLog), peak, Len(SavedHash))
    BY <2>1 DEF NomtInv, NomtAt
  <2>4. nomtState = StateAt(lastHash)
    BY <1>a, <2>3, StateAtIs DEF LogOf
  <2>5. Patched(StateAt(lastHash), pendingEntries) = StateAt(chain)
    BY <2>1, BlockTakenIn DEF Committing
  <2>6. n < Len(SavedHash) + FlushInterval
    BY <2>1 DEF SavedInv, Reverted
  <2>7. n \in Nat /\ n + 1 = Len(chain) /\ SameUpTo(lastHash, chain, n)
    BY <1>a, <2>2 DEF SameUpTo
  <2> HIDE DEF n
  <2>8. LogOf(chain, n, nomtState, nomtHead, nomtLog)
    BY <1>a, <2>3, <2>7, LogSame
  <2>9. nomtState \in State /\ nomtHead \in Nat
    BY <1>a DEF TypeOK
  <2>10. /\ LogOf(chain, n + 1, StateUpTo(chain, n + 1), n + 1, nomtLog')
         /\ Len(nomtLog') = IF Len(nomtLog) + 1 <= NomtHistory THEN Len(nomtLog) + 1
                                                               ELSE NomtHistory
    BY <1>a, <2>1, <2>7, <2>8, <2>9, LogCommitted
  <2>11. nomtState' = StateUpTo(chain, n + 1)
    BY <1>a, <2>1, <2>4, <2>5, <2>7, StateAtIs
  <2>12. Reaches(n + 1, Len(nomtLog'), peak, Len(SavedHash))
    <3>1. MaxReorg <= NomtHistory /\ FlushInterval <= NomtHistory
      BY DEF SafeParameters
    <3>2. CASE Len(nomtLog) + 1 <= NomtHistory
      BY <1>a, <2>3, <2>7, <2>10, <3>2 DEF Reaches
    <3>3. CASE ~(Len(nomtLog) + 1 <= NomtHistory)
      <4>1. Len(nomtLog') = NomtHistory
        BY <2>10, <3>3
      <4>2. n + 1 <= peak /\ n < Len(SavedHash) + FlushInterval
        BY <1>a, <2>2, <2>6, <2>7
      <4>3. /\ n \in Nat /\ peak \in Nat /\ Len(SavedHash) \in Nat
            /\ MaxReorg \in Nat /\ NomtHistory \in Nat /\ FlushInterval \in Nat
        BY <1>a, <2>7, Ranges
      <4> QED
        BY <3>1, <4>1, <4>2, <4>3 DEF Reaches
    <3> QED
      BY <3>2, <3>3
  <2>13. NomtAt(chain, Len(chain))'
    BY <2>1, <2>7, <2>10, <2>11, <2>12 DEF NomtAt
  <2> QED
    BY <2>1, <2>13 DEF NomtInv
<1>2. CASE CommitOverlay \/ CommitIndex
  BY <1>2 DEF CommitOverlay, CommitIndex, NomtInv, NomtAt, nomt, mdbx, node, SavedHash, LoadedHead
<1>3. CASE CommitDeltas
  BY <1>3 DEF CommitDeltas, NomtInv, NomtAt, nomt, node, SavedHash, LoadedHead
<1>4. CASE FlushStems \/ FlushIndexHead \/ Prune \/ Ack
  BY <1>4 DEF FlushStems, FlushIndexHead, Prune, Ack, NomtInv, NomtAt, nomt, mdbx, memory,
              heads, node, SavedHash, LoadedHead
<1>5. CASE FlushHead
  <2>1. /\ pc = "flushHead" /\ pc' = "flushIndexHead"
        /\ UNCHANGED <<lastHash, peak, nomtState, nomtHead, nomtLog>>
    BY <1>5 DEF FlushHead, nomt, memory, heads, node
  <2>2. SavedHash' = lastHash
    <3>1. MemoryHead # NoHead
      BY HeadTypes, HeadAssumption DEF TypeInv
    <3> QED
      BY <1>5, <3>1 DEF FlushHead, SavedHash, LoadedHead, MemoryHead
  <2>3. NomtAt(lastHash, Len(lastHash))
    BY <2>1 DEF NomtInv
  <2>4. Reaches(Len(lastHash), Len(nomtLog), peak, Len(lastHash))
    BY <1>a, <2>3, ReachesStill DEF NomtAt
  <2>5. NomtAt(lastHash, Len(lastHash))'
    BY <2>1, <2>2, <2>3, <2>4 DEF NomtAt
  <2> QED
    BY <2>1, <2>5 DEF NomtInv
<1> QED
  BY <1>1, <1>2, <1>3, <1>4, <1>5 DEF Commit

LEMMA NomtStop ==
    ASSUME SafeParameters, TypeInv, ShapeInv, SavedInv, NomtInv, StopOrStart PROVE NomtInv'
<1> USE DEF Stopped, NomtFirst
<1>a. /\ peak \in Nat /\ Len(lastHash) \in Nat /\ Len(SavedHash) \in Nat /\ Len(chain) \in Nat
      /\ job.lo \in Nat \ {0}
      /\ nomtLog \in Seq(NomtRecord) /\ Len(nomtLog) \in Nat
      /\ lastHash \in Chain /\ chain \in Chain /\ SavedHash \in Chain
      /\ LoadedHead.block = Len(SavedHash)
  BY Ranges, LenProperties DEF TypeInv, TypeOK
<1>1. CASE Crash
  <2>1. /\ pc \notin Stopped \cup Reverted \cup {"revertBlock"} /\ pc' = "down"
        /\ UNCHANGED <<peak, SavedHash, nomtState, nomtHead, nomtLog>>
    BY <1>1 DEF Crash, Stop, SafeParameters, Reverted, TornSteps, SavedHash, LoadedHead, mdbx, nomt
  <2>2. Continues(lastHash, SavedHash)
    BY <2>1 DEF SavedInv
  <2>3. CASE pc \in NomtFirst
    <3>1. /\ Len(lastHash) = job.lo - 1 /\ Len(chain) = job.lo
          /\ SameUpTo(chain, lastHash, job.lo - 1)
      BY <2>3 DEF ShapeInv, Committing
    <3>2. Continues(chain, SavedHash)
      BY <1>a, <2>2, <3>1, ContinuesFurther
    <3>3. NomtAt(chain, Len(chain))
      BY <2>3 DEF NomtInv
    <3>4. \E c \in Chain : Continues(c, SavedHash) /\ NomtAt(c, Len(c))
      BY <1>a, <3>2, <3>3
    <3> QED
      BY <2>1, <3>4 DEF NomtInv, NomtAt
  <2>4. CASE pc \notin NomtFirst
    <3>1. NomtAt(lastHash, Len(lastHash))
      BY <2>1, <2>4 DEF NomtInv
    <3>2. \E c \in Chain : Continues(c, SavedHash) /\ NomtAt(c, Len(c))
      BY <1>a, <2>2, <3>1
    <3> QED
      BY <2>1, <3>2 DEF NomtInv, NomtAt
  <2> QED
    BY <2>3, <2>4
<1>2. CASE Shutdown \/ ShutdownStems
  BY <1>2 DEF Shutdown, ShutdownStems, NomtInv, NomtAt, nomt, mdbx, memory, heads, node,
              SavedHash, LoadedHead
<1>3. CASE ShutdownHead
  <2>1. /\ pc = "shutHead" /\ pc' = "down"
        /\ UNCHANGED <<peak, nomtState, nomtHead, nomtLog>>
    BY <1>3 DEF ShutdownHead, nomt
  <2>2. SavedHash' = lastHash
    <3>1. MemoryHead # NoHead
      BY HeadTypes, HeadAssumption DEF TypeInv
    <3> QED
      BY <1>3, <3>1 DEF ShutdownHead, SavedHash, LoadedHead, MemoryHead
  <2>3. NomtAt(lastHash, Len(lastHash))
    BY <2>1 DEF NomtInv
  <2>4. Reaches(Len(lastHash), Len(nomtLog), peak, Len(lastHash))
    BY <1>a, <2>3, ReachesStill DEF NomtAt
  <2>5. Continues(lastHash, lastHash)
    BY <1>a, ContinuesItself
  <2>6. (\E c \in Chain : Continues(c, SavedHash) /\ NomtAt(c, Len(c)))'
    BY <1>a, <2>1, <2>2, <2>3, <2>4, <2>5 DEF NomtAt
  <2> QED
    BY <2>1, <2>6 DEF NomtInv
<1>4. CASE RestartRefused
  BY <1>4 DEF RestartRefused, NomtInv, NomtAt, nomt, mdbx, node, SavedHash, LoadedHead
<1>5. CASE Restart
  <2>1. /\ pc = "down" /\ pc' = "idle" /\ lastHash' = SavedHash
        /\ UNCHANGED <<peak, SavedHash>>
    BY <1>5 DEF Restart, SavedHash, LoadedHead, mdbx
  <2>2. PICK c \in Chain : Continues(c, SavedHash) /\ NomtAt(c, Len(c))
    BY <2>1 DEF NomtInv
  <2> DEFINE n == Len(c)
             m == Len(SavedHash)
  <2>3. /\ n \in Nat /\ m \in Nat /\ m <= n /\ SameUpTo(c, SavedHash, m)
        /\ LogOf(c, n, nomtState, nomtHead, nomtLog) /\ nomtHead = n
        /\ Reaches(n, Len(nomtLog), peak, m)
    BY <1>a, <2>2, ChainLen DEF Continues, NomtAt, LogOf
  <2>4. IF n > m THEN NomtRollback(n - m) ELSE UNCHANGED nomt
    BY <1>5, <1>a, <2>3 DEF Restart
  <2> HIDE DEF n, m
  <2>5. /\ LogOf(c, m, nomtState', nomtHead', nomtLog')
        /\ Len(nomtLog') \in Nat /\ Reaches(m, Len(nomtLog'), peak, m)
        /\ nomtLog' \in Seq(NomtRecord)
    <3>1. CASE n > m
      <4>1. PICK k \in Nat : k = n - m
        BY <2>3, <3>1
      <4>2. k # 0 /\ k <= Len(nomtLog) /\ n - k = m
        BY <1>a, <2>3, <3>1, <4>1 DEF Reaches
      <4>3. /\ nomtState' = RollbackTarget(nomtLog, k).state
            /\ nomtHead' = RollbackTarget(nomtLog, k).head
            /\ nomtLog' = RollbackLog(nomtLog, k)
        BY <1>a, <2>4, <3>1, <4>1, <4>2 DEF NomtRollback, CanRollback
      <4>4. /\ LogOf(c, n - k, RollbackTarget(nomtLog, k).state, RollbackTarget(nomtLog, k).head,
                     RollbackLog(nomtLog, k))
            /\ Len(RollbackLog(nomtLog, k)) = Len(nomtLog) - k
        BY <1>a, <2>3, <4>2, LogRolledBack
      <4>5. Reaches(m, Len(nomtLog) - k, peak, m)
        BY <1>a, <2>3, <4>2, UbtAssumption DEF Reaches
      <4>6. nomtLog' \in Seq(NomtRecord)
        BY <1>a, <4>2, <4>3, RollbackType DEF CanRollback
      <4>7. Len(nomtLog) - k \in Nat
        BY <1>a, <4>2
      <4> QED
        BY <4>2, <4>3, <4>4, <4>5, <4>6, <4>7
    <3>2. CASE ~(n > m)
      BY <1>a, <2>3, <2>4, <3>2 DEF nomt
    <3> QED
      BY <3>1, <3>2
  <2>6. LogOf(SavedHash, m, nomtState', nomtHead', nomtLog')
    BY <2>3, <2>5, LogSame
  <2>7. NomtAt(lastHash, Len(lastHash))'
    BY <2>1, <2>5, <2>6 DEF NomtAt, m
  <2> QED
    BY <2>1, <2>7 DEF NomtInv
<1> QED
  BY <1>1, <1>2, <1>3, <1>4, <1>5 DEF StopOrStart

LEMMA NomtStep ==
    ASSUME SafeParameters, TypeInv, TrackInv, [Next]_vars PROVE NomtInv'
<1>1. CASE UNCHANGED vars
  BY <1>1 DEF TrackInv, NomtInv, NomtAt, SavedHash, LoadedHead, vars, node, memory, heads,
              mdbx, nomt
<1> QED
  BY <1>1, NomtNode, NomtRevert, NomtCommit, NomtStop DEF Next, TrackInv

----------------------------------------------------------------------------
(* The theorems.                                                             *)

LEMMA TrackInvariant == ASSUME SafeParameters PROVE Spec => []TrackInv
<1>1. Init => TrackInv
  BY ChainsBuiltInit, ShapeInit, ViewInit, RecordsInit, SavedInit, NomtInit DEF TrackInv
<1>2. TypeInv /\ TrackInv /\ [Next]_vars => TrackInv'
  BY ChainsBuiltStep, ShapeStep, ViewStep, RecordsStep, SavedStep, NomtStep DEF TrackInv
<1> QED
  BY <1>1, <1>2, TypeInvariant, PTL DEF Spec

\* Between two notifications the tree is the state after the canonical chain
\* (commit, revert and new of ubt_exex.rs).
THEOREM TreeTracksChain == ASSUME SafeParameters PROVE Spec => []TracksChain
<1>1. TypeInv /\ TrackInv => TracksChain
  BY Ranges
  DEF TrackInv, ViewInv, ShapeInv, TracksChain, Stopped, Reverting, Shown
<1> QED
  BY <1>1, TypeInvariant, TrackInvariant, PTL

\* NOMT, rolled back by commits and not by deltas, agrees with it.
THEOREM NomtFollowsChain == ASSUME SafeParameters PROVE Spec => []NomtTracksChain
<1>1. TypeInv /\ TrackInv => NomtTracksChain
  <2> SUFFICES ASSUME TypeInv, TrackInv, pc = "idle"
               PROVE  nomtState = StateAt(chain) /\ nomtHead = Len(chain)
    BY DEF NomtTracksChain
  <2>1. lastHash = chain /\ NomtAt(lastHash, Len(lastHash))
    BY DEF TrackInv, ShapeInv, NomtInv, Stopped, NomtFirst
  <2> QED
    BY <2>1, Ranges, StateAtIs DEF NomtAt, LogOf
<1> QED
  BY <1>1, TypeInvariant, TrackInvariant, PTL

\* Whatever was pruned, deleted, overwritten or restarted, the undo records of
\* the blocks that may still be unwound lead back exactly.
THEOREM UndoAlwaysExact == ASSUME SafeParameters PROVE Spec => []UndoExact
<1>1. TypeInv /\ TrackInv => UndoExact
  <2> SUFFICES ASSUME TypeInv, TrackInv, pc = "idle",
                      NEW b \in BlockNumber, b <= Len(chain), b + MaxReorg > peak
               PROVE  Patched(chain[b].post, mdbxDeltas[b]) = StateAt(SubSeq(chain, 1, b - 1))
    BY DEF UndoExact
  <2>1. lastHash = chain /\ RecordsLead(lastHash, Len(lastHash))
    BY DEF TrackInv, ShapeInv, RecordsInv, Stopped, Reverting
  <2>2. b \in 1 .. Len(chain) /\ b - 1 \in Nat /\ b - 1 <= Len(chain)
    BY Ranges DEF BlockNumber
  <2>3. Patched(chain[b].post, mdbxDeltas[b]) = StateUpTo(chain, b - 1)
    <3>1. /\ b \in Nat /\ peak \in Nat /\ MaxReorg \in Nat /\ DeltaRetention \in Nat
          /\ MaxReorg <= DeltaRetention + 1
      BY Ranges, UbtAssumption DEF SafeParameters, BlockNumber
    <3>2. b + DeltaRetention >= peak
      BY <3>1
    <3> QED
      BY <2>1, <2>2, <3>2 DEF RecordsLead, Leads
  <2>4. StateAt(SubSeq(chain, 1, b - 1)) = StateUpTo(chain, b - 1)
    BY <2>2, PrefixOfChain
  <2> QED
    BY <2>3, <2>4
<1> QED
  BY <1>1, TypeInvariant, TrackInvariant, PTL

\* What a stop falls back to is the state after the block in MDBX's head record.
THEOREM CheckpointAlwaysExact == ASSUME SafeParameters PROVE Spec => []CheckpointExact
<1>1. TypeInv /\ TrackInv => CheckpointExact
  BY Ranges DEF TrackInv, SavedInv, SavedHash, CheckpointExact
<1> QED
  BY <1>1, TypeInvariant, TrackInvariant, PTL

\* get_value is wrong only of a leaf that was cleared since the checkpoint, and then
\* as of the checkpoint.
THEOREM ValueStaleAtWorst == ASSUME SafeParameters PROVE Spec => []GetValueStaleAtWorst
<1>1. TypeInv /\ TrackInv => GetValueStaleAtWorst
  <2> SUFFICES ASSUME TypeInv, TrackInv, pc = "idle", NEW s \in Stem, NEW i \in SubIndex
               PROVE  \/ GetValue(s, i) = StateAt(chain)[s][i]
                      \/ /\ StateAt(chain)[s][i] = Zero
                         /\ GetValue(s, i) = StateAt(LoadedHead.hash)[s][i]
    BY DEF GetValueStaleAtWorst
  <2>1. View = StateAt(chain) /\ StateOf(mdbxStems) = StateAt(LoadedHead.hash)
    BY DEF TrackInv, ShapeInv, ViewInv, SavedInv, SavedHash, Stopped, Reverting, Shown,
           TornSteps
  <2>2. /\ View[s][i] = NodeOf(IF overlay[s] = NoNode THEN mdbxStems[s] ELSE overlay[s])[i]
        /\ StateOf(mdbxStems)[s][i] = NodeOf(mdbxStems[s])[i]
    BY DEF View, StateOf, Overlaid
  <2>3. NodeOf(NoNode)[i] = Zero
    BY DEF NodeOf, EmptyNode
  <2>4. CASE overlay[s] = NoNode
    BY <2>1, <2>2, <2>3, <2>4 DEF GetValue
  <2>5. CASE overlay[s] # NoNode
    BY <2>1, <2>2, <2>5 DEF GetValue
  <2> QED
    BY <2>4, <2>5
<1> QED
  BY <1>1, TypeInvariant, TrackInvariant, PTL

----------------------------------------------------------------------------
(* Every step of a handler is a step of ChainTracker, or leaves what it shows  *)
(* alone.                                                                    *)

Saved == StateOf(mdbxStems)
Running == pc \notin Stopped

SameTip == UNCHANGED <<Followed, View>>
SameSave == UNCHANGED <<Checkpointed, Saved>>
Stays == SameTip /\ SameSave /\ Running' = Running
TakesIn ==
    /\ Running /\ Running' /\ SameSave
    /\ Len(Followed') > Len(Followed) /\ SubSeq(Followed', 1, Len(Followed)) = Followed
    /\ View' = StateAt(Followed')
TakesBack ==
    /\ Running /\ Running' /\ SameSave
    /\ Followed # <<>> /\ Followed' = SubSeq(Followed, 1, Len(Followed) - 1)
    /\ View' = StateAt(Followed')
Saves == Running /\ Running' /\ SameTip /\ Checkpointed' = Followed /\ Saved' = View
FallsBack == Running /\ ~Running' /\ SameSave /\ Followed' = Checkpointed /\ View' = Saved
ComesUp == ~Running /\ Running' /\ SameTip /\ SameSave
Tracks == Stays \/ TakesIn \/ TakesBack \/ Saves \/ FallsBack \/ ComesUp

LEMMA TracksIsNext ==
    Tracks => [Tracker!Next]_<<Followed, View, Checkpointed, StateOf(mdbxStems), pc \notin Stopped>>
<1>1. Running \in BOOLEAN /\ Running' \in BOOLEAN
  BY DEF Running
<1> QED
  BY <1>1 DEF Tracks, Stays, TakesIn, TakesBack, Saves, FallsBack, ComesUp, SameTip, SameSave,
              Saved, Running, Tracker!Next, Tracker!Extend, Tracker!Unwind, Tracker!Save,
              Tracker!Stop, Tracker!Start, Tracker!Follow

\* What has been followed, by the place of the handler.
LEMMA FollowedIs ==
    /\ pc \in Reverting => Followed = SubSeq(lastHash, 1, job.hi)
    /\ pc \in Shown => Followed = chain
    /\ pc \in Stopped => Followed = SavedHash
    /\ pc \notin Reverting \cup Shown \cup Stopped => Followed = lastHash
BY DEF Followed, Reverting, Shown, Stopped, SavedHash

LEMMA FollowedNext ==
    /\ pc' \in Reverting => Followed' = SubSeq(lastHash', 1, job'.hi)
    /\ pc' \in Shown => Followed' = chain'
    /\ pc' \in Stopped => Followed' = SavedHash'
    /\ pc' \notin Reverting \cup Shown \cup Stopped => Followed' = lastHash'
BY DEF Followed, Reverting, Shown, Stopped, SavedHash

LEMMA CheckpointIs ==
    /\ Checkpointed = IF pc \in TornSteps THEN lastHash ELSE SavedHash
    /\ Checkpointed' = IF pc' \in TornSteps THEN lastHash' ELSE SavedHash'
BY DEF Checkpointed, SavedHash

LEMMA TracksNode == ASSUME TypeInv, ShapeInv, NodeStep PROVE Tracks
<1>1. /\ pc \in {"idle", "assembling"}
      /\ pc' \in {"assembling", "revertNomt", "commitNomt"}
      /\ pc' = "revertNomt" => pc = "assembling" /\ job' = job
  <2>1. ASSUME NEW k \in 0 .. MaxReorg, NodeUnwinds(k)
        PROVE  pc = "idle" /\ pc' = "assembling"
    BY <2>1 DEF NodeUnwinds
  <2>2. ASSUME NEW body \in Body, NodeExtends(body)
        PROVE  pc = "assembling" /\ pc' = "assembling"
    BY <2>2 DEF NodeExtends
  <2>3. Notify => /\ pc = "assembling" /\ pc' \in {"revertNomt", "commitNomt"}
                  /\ job' = job
    BY DEF Notify
  <2> QED
    BY <2>1, <2>2, <2>3 DEF NodeStep
<1>2. UNCHANGED <<lastHash, overlay, mdbxStems, SavedHash>>
  BY DEF NodeStep, NodeUnwinds, NodeExtends, Notify, mdbx, memory, heads, SavedHash, LoadedHead
<1>3. Followed = lastHash /\ Checkpointed = SavedHash /\ Checkpointed' = SavedHash
  BY <1>1, <1>2, FollowedIs, CheckpointIs DEF Reverting, Shown, Stopped, TornSteps
<1>4. Followed' = lastHash
  <2>1. CASE pc' = "revertNomt"
    <3>1. job'.hi = Len(lastHash)
      BY <1>1, <2>1 DEF ShapeInv
    <3>2. Followed' = SubSeq(lastHash, 1, Len(lastHash))
      BY <1>2, <2>1, <3>1, FollowedNext DEF Reverting
    <3> QED
      BY <3>2, WholePrefix, Ranges
  <2>2. CASE pc' # "revertNomt"
    BY <1>1, <1>2, <2>2, FollowedNext DEF Reverting, Shown, Stopped
  <2> QED
    BY <2>1, <2>2
<1> QED
  BY <1>1, <1>2, <1>3, <1>4 DEF Tracks, Stays, SameTip, SameSave, Saved, Running, View, Stopped

LEMMA TracksRevert ==
    ASSUME SafeParameters, TypeInv, ShapeInv, ViewInv, ViewInv', RecordsInv, SavedInv, Revert
    PROVE  Tracks
<1> USE DEF Reverting, Reverted, Shown, Stopped, TornSteps
<1>a. /\ chain \in Chain /\ lastHash \in Chain /\ Len(lastHash) \in Nat /\ Len(chain) \in Nat
      /\ job.lo \in Nat \ {0} /\ job.hi \in Nat /\ Bounds
  BY Ranges DEF TypeInv
<1>1. CASE RevertNomt
  <2>1. /\ pc = "revertNomt" /\ pc' = "revertBlock"
        /\ UNCHANGED <<lastHash, job, SavedHash, overlay, mdbxStems>>
    BY <1>1 DEF RevertNomt, mdbx, memory, heads, SavedHash, LoadedHead
  <2>2. Followed' = Followed /\ Checkpointed' = Checkpointed
    BY <2>1, FollowedIs, FollowedNext, CheckpointIs
  <2> QED
    BY <2>1, <2>2 DEF Tracks, Stays, SameTip, SameSave, Saved, Running, View
<1>2. CASE RevertBlock \/ RevertLastBlock
  <2>1. /\ pc = "revertBlock" /\ pc' \notin Stopped \cup Shown \cup TornSteps
        /\ UNCHANGED <<SavedHash, mdbxStems>>
    BY <1>2 DEF RevertBlock, RevertLastBlock, AfterRevert, SavedHash, LoadedHead
  <2>2. /\ job.lo <= job.hi /\ job.hi <= Len(lastHash) /\ job.lo - 1 <= Len(chain)
        /\ SameUpTo(chain, lastHash, job.lo - 1)
    BY <1>a, <2>1 DEF ShapeInv, Bounds
  <2>3. Followed = SubSeq(lastHash, 1, job.hi)
    BY <2>1, FollowedIs
  <2>4. /\ Followed \in Chain /\ Len(Followed) = job.hi /\ SameUpTo(lastHash, Followed, job.hi)
    BY <1>a, <2>2, <2>3, PrefixIs
  <2>5. /\ job.hi - 1 \in Nat /\ job.hi - 1 <= Len(Followed) /\ job.hi - 1 <= Len(lastHash)
    BY <1>a, <2>2, <2>4
  <2> DEFINE p == SubSeq(Followed, 1, job.hi - 1)
  <2>6. p \in Chain /\ Len(p) = job.hi - 1 /\ SameUpTo(Followed, p, job.hi - 1)
    BY <2>4, <2>5, PrefixIs
  <2> HIDE DEF p
  <2>7. SameUpTo(lastHash, p, job.hi - 1)
    BY <1>a, <2>4, <2>6 DEF SameUpTo
  <2>8. Followed' \in Chain /\ Len(Followed') = job.hi - 1
        /\ SameUpTo(lastHash, Followed', job.hi - 1)
        /\ View' = StateUpTo(lastHash, job.hi - 1)
    <3>1. CASE RevertBlock
      <4>1. /\ pc' = "revertBlock" /\ lastHash' = lastHash /\ job'.hi = job.hi - 1
            /\ overlay' = WriteThrough(overlay, mdbxStems, mdbxDeltas[job.hi])
        BY <3>1 DEF RevertBlock, ApplyDeltasReverse, heads, TypeInv, TypeOK
      <4>2. Followed' = SubSeq(lastHash, 1, job.hi - 1)
        BY <4>1, FollowedNext
      <4>3. View' = StateUpTo(lastHash, job.hi - 1)
        BY <2>1, <4>1, BlockTakenBack
      <4> QED
        BY <1>a, <2>5, <4>2, <4>3, PrefixIs
    <3>2. CASE RevertLastBlock
      <4>1. /\ pc' \notin Reverting \cup Shown \cup Stopped /\ job.hi = job.lo
            /\ lastHash' = SubSeq(chain, 1, job.lo - 1)
            /\ overlay' = WriteThrough(overlay, mdbxStems, mdbxDeltas[job.hi])
        BY <3>2 DEF RevertLastBlock, AfterRevert, ApplyDeltasReverse
      <4>2. Followed' = SubSeq(chain, 1, job.lo - 1)
        BY <4>1, FollowedNext
      <4>3. View' = StateUpTo(lastHash, job.hi - 1)
        BY <2>1, <4>1, BlockTakenBack
      <4>4. /\ Followed' \in Chain /\ Len(Followed') = job.lo - 1
            /\ SameUpTo(chain, Followed', job.lo - 1)
        BY <1>a, <2>2, <2>5, <4>1, <4>2, PrefixIs
      <4>5. SameUpTo(lastHash, Followed', job.lo - 1)
        BY <2>2, <4>4 DEF SameUpTo
      <4> QED
        BY <4>1, <4>3, <4>4, <4>5
    <3> QED
      BY <1>2, <3>1, <3>2
  <2>9. Followed' = p
    <3>1. SameUpTo(Followed', p, job.hi - 1)
      BY <2>7, <2>8 DEF SameUpTo
    <3> QED
      BY <2>6, <2>8, <3>1, SameChain
  <2>10. View' = StateAt(Followed')
    <3>1. StateAt(Followed') = StateUpTo(Followed', job.hi - 1)
      BY <2>8, StateAtIs
    <3>2. StateUpTo(Followed', job.hi - 1) = StateUpTo(lastHash, job.hi - 1)
      BY <2>5, <2>8, SameStates
    <3> QED
      BY <2>8, <3>1, <3>2
  <2>11. Followed' = SubSeq(Followed, 1, Len(Followed) - 1)
    BY <2>4, <2>9 DEF p
  <2>12. Followed # <<>>
    BY <1>a, <2>2, <2>4, ChainLen
  <2>13. Checkpointed' = Checkpointed
    BY <2>1, CheckpointIs
  <2> QED
    BY <2>1, <2>10, <2>11, <2>12, <2>13 DEF Tracks, TakesBack, SameSave, Saved, Running
<1>3. CASE RevertStems
  <2>1. pc = "revertStems" /\ pc' = "revertHead" /\ lastHash' = lastHash /\ overlay' = EmptyTable
        /\ mdbxStems' = BatchUpdateStems(mdbxStems, overlay)
    BY <1>3 DEF RevertStems, heads
  <2>2. View' = View /\ Saved' = View
    BY <2>1, FlushedView DEF View, Saved, TypeInv, BatchUpdateStems
  <2>3. Followed' = Followed /\ Checkpointed' = Followed
    BY <2>1, FollowedIs, FollowedNext, CheckpointIs
  <2> QED
    BY <2>1, <2>2, <2>3 DEF Tracks, Saves, SameTip, Running
<1>4. CASE RevertHead
  <2>1. /\ pc = "revertHead" /\ pc' \in {"idle", "commitNomt"}
        /\ UNCHANGED <<lastHash, overlay, mdbxStems>>
    BY <1>4 DEF RevertHead, AfterRevert
  <2>2. SavedHash' = lastHash
    <3>1. MemoryHead # NoHead
      BY HeadTypes, HeadAssumption DEF TypeInv
    <3> QED
      BY <1>4, <3>1 DEF RevertHead, SavedHash, LoadedHead, MemoryHead
  <2>3. Followed' = Followed /\ Checkpointed' = Checkpointed
    BY <2>1, <2>2, FollowedIs, FollowedNext, CheckpointIs
  <2> QED
    BY <2>1, <2>3 DEF Tracks, Stays, SameTip, SameSave, Saved, Running, View
<1> QED
  BY <1>1, <1>2, <1>3, <1>4 DEF Revert

LEMMA TracksCommit ==
    ASSUME TypeInv, ShapeInv, ViewInv', SavedInv, Commit PROVE Tracks
<1> USE DEF Reverting, Reverted, Shown, Stopped, TornSteps
<1>a. /\ chain \in Chain /\ lastHash \in Chain /\ Len(lastHash) \in Nat /\ Len(chain) \in Nat
      /\ job.lo \in Nat \ {0}
  BY Ranges
<1>1. CASE CommitNomt \/ CommitIndex
  <2>1. /\ UNCHANGED <<chain, lastHash, SavedHash, overlay, mdbxStems>>
        /\ \/ pc = "commitNomt" /\ pc' = "commitOverlay"
           \/ pc = "commitIndex" /\ pc' = "commitDeltas"
    BY <1>1 DEF CommitNomt, CommitIndex, mdbx, memory, heads, node, SavedHash, LoadedHead
  <2>2. Followed' = Followed /\ Checkpointed' = Checkpointed
    BY <2>1, FollowedIs, FollowedNext, CheckpointIs
  <2> QED
    BY <2>1, <2>2 DEF Tracks, Stays, SameTip, SameSave, Saved, Running, View
<1>2. CASE CommitOverlay
  <2>1. /\ pc = "commitOverlay" /\ pc' = "commitIndex"
        /\ UNCHANGED <<chain, SavedHash, mdbxStems>>
    BY <1>2 DEF CommitOverlay, heads, node, SavedHash, LoadedHead
  <2>2. /\ Len(lastHash) = job.lo - 1 /\ Len(chain) = job.lo
        /\ SameUpTo(chain, lastHash, job.lo - 1)
    BY <2>1 DEF ShapeInv, Committing
  <2>3. Followed = lastHash /\ Followed' = chain /\ Checkpointed' = Checkpointed
    BY <2>1, FollowedIs, FollowedNext, CheckpointIs
  <2>4. View' = StateAt(chain)
    BY <2>1 DEF ViewInv
  <2>5. lastHash = SubSeq(chain, 1, Len(lastHash))
    BY <1>a, <2>2, ContinuesPrefix DEF Continues
  <2>6. Len(chain) > Len(lastHash)
    BY <1>a, <2>2
  <2> QED
    BY <2>1, <2>3, <2>4, <2>5, <2>6 DEF Tracks, TakesIn, SameSave, Saved, Running
<1>3. CASE CommitDeltas
  <2>1. /\ pc = "commitDeltas" /\ pc' \in {"flushStems", "ack"} /\ lastHash' = chain
        /\ UNCHANGED <<SavedHash, overlay, mdbxStems>>
    BY <1>3 DEF CommitDeltas, SavedHash, LoadedHead
  <2>2. Followed' = Followed /\ Checkpointed' = Checkpointed
    BY <2>1, FollowedIs, FollowedNext, CheckpointIs
  <2> QED
    BY <2>1, <2>2 DEF Tracks, Stays, SameTip, SameSave, Saved, Running, View
<1>4. CASE FlushStems
  <2>1. pc = "flushStems" /\ pc' = "flushHead" /\ lastHash' = lastHash /\ overlay' = EmptyTable
        /\ mdbxStems' = BatchUpdateStems(mdbxStems, overlay)
    BY <1>4 DEF FlushStems, heads
  <2>2. View' = View /\ Saved' = View
    BY <2>1, FlushedView DEF View, Saved, TypeInv, BatchUpdateStems
  <2>3. Followed' = Followed /\ Checkpointed' = Followed
    BY <2>1, FollowedIs, FollowedNext, CheckpointIs
  <2> QED
    BY <2>1, <2>2, <2>3 DEF Tracks, Saves, SameTip, Running
<1>5. CASE FlushHead
  <2>1. /\ pc = "flushHead" /\ pc' = "flushIndexHead"
        /\ UNCHANGED <<lastHash, overlay, mdbxStems>>
    BY <1>5 DEF FlushHead, memory, heads
  <2>2. SavedHash' = lastHash
    <3>1. MemoryHead # NoHead
      BY HeadTypes, HeadAssumption DEF TypeInv
    <3> QED
      BY <1>5, <3>1 DEF FlushHead, SavedHash, LoadedHead, MemoryHead
  <2>3. Followed' = Followed /\ Checkpointed' = Checkpointed
    BY <2>1, <2>2, FollowedIs, FollowedNext, CheckpointIs
  <2> QED
    BY <2>1, <2>3 DEF Tracks, Stays, SameTip, SameSave, Saved, Running, View
<1>6. CASE FlushIndexHead \/ Prune \/ Ack
  <2>1. /\ pc \in {"flushIndexHead", "prune", "ack"} /\ pc' \in {"prune", "ack", "idle"}
        /\ UNCHANGED <<lastHash, SavedHash, overlay, mdbxStems>>
    BY <1>6 DEF FlushIndexHead, Prune, Ack, mdbx, memory, heads, SavedHash, LoadedHead
  <2>2. Followed' = Followed /\ Checkpointed' = Checkpointed
    BY <2>1, FollowedIs, FollowedNext, CheckpointIs
  <2> QED
    BY <2>1, <2>2 DEF Tracks, Stays, SameTip, SameSave, Saved, Running, View
<1> QED
  BY <1>1, <1>2, <1>3, <1>4, <1>5, <1>6 DEF Commit

LEMMA TracksStop ==
    ASSUME SafeParameters, TypeInv, SavedInv, StopOrStart PROVE Tracks
<1> USE DEF Reverting, Reverted, Shown, Stopped, TornSteps
<1>1. CASE Crash
  <2>1. /\ pc \notin Stopped \cup TornSteps /\ pc' = "down" /\ overlay' = EmptyTable
        /\ UNCHANGED <<SavedHash, mdbxStems>>
    BY <1>1 DEF Crash, Stop, Forget, SafeParameters, SavedHash, LoadedHead, mdbx
  <2>2. Followed' = Checkpointed /\ Checkpointed' = Checkpointed
    BY <2>1, FollowedNext, CheckpointIs
  <2>3. View' = Saved
    BY <2>1, FlushedView DEF View, Saved, TypeInv
  <2> QED
    BY <2>1, <2>2, <2>3 DEF Tracks, FallsBack, SameSave, Saved, Running
<1>2. CASE Shutdown
  <2>1. /\ pc = "idle" /\ pc' = "shutStems"
        /\ UNCHANGED <<lastHash, SavedHash, overlay, mdbxStems>>
    BY <1>2 DEF Shutdown, mdbx, memory, heads, SavedHash, LoadedHead
  <2>2. Followed' = Followed /\ Checkpointed' = Checkpointed
    BY <2>1, FollowedIs, FollowedNext, CheckpointIs
  <2> QED
    BY <2>1, <2>2 DEF Tracks, Stays, SameTip, SameSave, Saved, Running, View
<1>3. CASE ShutdownStems
  <2>1. pc = "shutStems" /\ pc' = "shutHead" /\ lastHash' = lastHash /\ overlay' = EmptyTable
        /\ mdbxStems' = BatchUpdateStems(mdbxStems, overlay)
    BY <1>3 DEF ShutdownStems, heads
  <2>2. View' = View /\ Saved' = View
    BY <2>1, FlushedView DEF View, Saved, TypeInv, BatchUpdateStems
  <2>3. Followed' = Followed /\ Checkpointed' = Followed
    BY <2>1, FollowedIs, FollowedNext, CheckpointIs
  <2> QED
    BY <2>1, <2>2, <2>3 DEF Tracks, Saves, SameTip, Running
<1>4. CASE ShutdownHead
  <2>1. /\ pc = "shutHead" /\ pc' = "down" /\ overlay' = EmptyTable /\ mdbxStems' = mdbxStems
    BY <1>4 DEF ShutdownHead, Forget
  <2>2. SavedHash' = lastHash
    <3>1. MemoryHead # NoHead
      BY HeadTypes, HeadAssumption DEF TypeInv
    <3> QED
      BY <1>4, <3>1 DEF ShutdownHead, SavedHash, LoadedHead, MemoryHead
  <2>3. Followed' = Checkpointed /\ Checkpointed' = Checkpointed
    BY <2>1, <2>2, FollowedNext, CheckpointIs
  <2>4. View' = Saved
    BY <2>1, FlushedView DEF View, Saved, TypeInv
  <2> QED
    BY <2>1, <2>3, <2>4 DEF Tracks, FallsBack, SameSave, Saved, Running
<1>5. CASE RestartRefused
  <2>1. /\ pc \in Stopped /\ pc' \in Stopped /\ UNCHANGED <<SavedHash, overlay, mdbxStems>>
    BY <1>5 DEF RestartRefused, mdbx, memory, SavedHash, LoadedHead
  <2>2. Followed' = Followed /\ Checkpointed' = Checkpointed
    BY <2>1, FollowedIs, FollowedNext, CheckpointIs
  <2> QED
    BY <2>1, <2>2 DEF Tracks, Stays, SameTip, SameSave, Saved, Running, View
<1>6. CASE Restart
  <2>1. /\ pc = "down" /\ pc' = "idle" /\ lastHash' = SavedHash
        /\ UNCHANGED <<SavedHash, overlay, mdbxStems>>
    BY <1>6 DEF Restart, mdbx, SavedHash, LoadedHead
  <2>2. Followed' = Followed /\ Checkpointed' = Checkpointed
    BY <2>1, FollowedIs, FollowedNext, CheckpointIs
  <2> QED
    BY <2>1, <2>2 DEF Tracks, ComesUp, SameTip, SameSave, Saved, Running, View
<1> QED
  BY <1>1, <1>2, <1>3, <1>4, <1>5, <1>6 DEF StopOrStart

LEMMA TracksStep ==
    ASSUME SafeParameters, TypeInv, TrackInv, TrackInv', [Next]_vars PROVE Tracks
<1>1. CASE UNCHANGED vars
  BY <1>1 DEF Tracks, Stays, SameTip, SameSave, Followed, Checkpointed, Saved, Running, View,
              LoadedHead, vars, node, memory, heads, mdbx
<1> QED
  BY <1>1, TracksNode, TracksRevert, TracksCommit, TracksStop DEF Next, TrackInv

LEMMA TracksInit == Init => Tracker!Init
<1> SUFFICES ASSUME Init PROVE Tracker!Init
  OBVIOUS
<1>1. View = EmptyState /\ StateOf(mdbxStems) = EmptyState
  BY EmptyTypes DEF Init, View, StateOf, NodeOf, Overlaid, EmptyTable, EmptyState
<1>2. Followed = <<>> /\ Checkpointed = <<>> /\ pc \notin Stopped /\ StateAt(<<>>) = EmptyState
  BY FollowedIs, CheckpointIs
  DEF Init, SavedHash, LoadedHead, FreshHead, Reverting, Shown, Stopped, StateAt
<1> QED
  BY <1>1, <1>2 DEF Tracker!Init

\* commit, revert, flush, stop and restart, taken apart into the writes of three
\* stores, implement the abstract tracker.
THEOREM ImplementsTracker == ASSUME SafeParameters PROVE Spec => FollowsTracker
<1>1. TypeInv /\ TrackInv /\ TrackInv' /\ [Next]_vars
        => [Tracker!Next]_<<Followed, View, Checkpointed, StateOf(mdbxStems), pc \notin Stopped>>
  BY TracksStep, TracksIsNext
<1> QED
  BY <1>1, TracksInit, TypeInvariant, TrackInvariant, PTL DEF Spec, FollowsTracker, Tracker!Spec
=============================================================================
