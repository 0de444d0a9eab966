------------------------- MODULE BlockDeltasProofs -------------------------
(***************************************************************************)
(* Theorems of BlockDeltas, for any tree, any lists of entries (a leaf may  *)
(* come any number of times) and any order of commits, flushes and reverts. *)
(***************************************************************************)
EXTENDS BlockDeltas, SequenceTheorems, TLAPS

----------------------------------------------------------------------------
(* One leaf is set.                                                          *)

LEMMA EmptyTableType == EmptyTable \in Table
BY DEF EmptyTable, Table

LEMMA NodeOfType ==
    ASSUME NEW T \in Table, NEW s \in Stem PROVE NodeOf(T[s]) \in Node
BY DEF NodeOf, Table, EmptyNode, Node, Leaf

LEMMA OverlaidInTable ==
    ASSUME NEW over \in Table, NEW base \in Table
    PROVE  Overlaid(over, base) \in Table
BY DEF Overlaid, Table

LEMMA ShownType == LoopTypeOK => Shown \in State
BY OverlaidInTable, NodeOfType DEF LoopTypeOK, Shown, StateOf, State

\* What setting one leaf does to what is shown: that leaf and no other.
LEMMA SetValueShown ==
    ASSUME LoopTypeOK, NEW s \in Stem, NEW i \in SubIndex, NEW v \in Leaf,
           overlay' = SetValue(s, i, v), mdbxStems' = mdbxStems
    PROVE  /\ overlay' \in Table
           /\ \A t \in Stem, j \in SubIndex :
                Shown'[t][j] = IF t = s /\ j = i THEN v ELSE Shown[t][j]
<1> DEFINE T == Overlaid(overlay, mdbxStems)
           n == [NodeOf(T[s]) EXCEPT ![i] = v]
<1>1. T \in Table /\ NodeOf(T[s]) \in Node
  BY OverlaidInTable, NodeOfType DEF LoopTypeOK
<1>2. n \in Node /\ \A j \in SubIndex : n[j] = IF j = i THEN v ELSE NodeOf(T[s])[j]
  BY <1>1 DEF Node
<1>3. n # NoNode /\ NodeOf(n) = n
  BY <1>2, TreeAssumption DEF NodeOf
<1>4. overlay' = [overlay EXCEPT ![s] = n]
  BY DEF SetValue
<1>5. overlay' \in Table
  BY <1>2, <1>4 DEF LoopTypeOK, Table
<1>6. ASSUME NEW t \in Stem
      PROVE  NodeOf(Overlaid(overlay', mdbxStems')[t]) = IF t = s THEN n ELSE NodeOf(T[t])
  BY <1>3, <1>4 DEF Overlaid, LoopTypeOK, Table
<1>7. ASSUME NEW t \in Stem, NEW j \in SubIndex
      PROVE  Shown'[t][j] = IF t = s /\ j = i THEN v ELSE Shown[t][j]
  <2>1. Shown'[t] = IF t = s THEN n ELSE NodeOf(T[t])
    BY <1>6 DEF Shown, StateOf
  <2>2. Shown[t] = NodeOf(T[t])
    BY DEF Shown, StateOf
  <2> QED
    BY <2>1, <2>2, <1>2
<1> QED
  BY <1>5, <1>7

LEMMA FlushShown ==
    ASSUME LoopTypeOK, Flush PROVE Shown' = Shown
<1>1. Overlaid(overlay', mdbxStems') = Overlaid(overlay, mdbxStems)
  BY DEF Flush, Overlaid, EmptyTable
<1> QED
  BY <1>1 DEF Shown

----------------------------------------------------------------------------
(* Sequences without their first or last element.                            *)

LEMMA FrontFacts ==
    ASSUME NEW S, NEW q \in Seq(S), q # <<>>
    PROVE  /\ FrontOf(q) \in Seq(S)
           /\ Len(FrontOf(q)) = Len(q) - 1
           /\ Len(q) \in Nat \ {0}
           /\ \A k \in 1 .. Len(q) - 1 : FrontOf(q)[k] = q[k]
           /\ LastOf(q) \in S
           /\ q = Append(FrontOf(q), LastOf(q))
<1>1. Len(q) \in Nat \ {0}
  BY EmptySeq, LenProperties
<1>2. /\ FrontOf(q) \in Seq(S) /\ Len(FrontOf(q)) = Len(q) - 1
      /\ \A k \in 1 .. Len(q) - 1 : FrontOf(q)[k] = q[k]
  <2>1. \A k \in 1 .. Len(q) - 1 : q[k] \in S
    BY <1>1, ElementOfSeq
  <2> DEFINE n == Len(q) - 1
  <2>2. n \in Nat
    BY <1>1
  <2>3. /\ SubSeq(q, 1, n) \in Seq(S)
        /\ Len(SubSeq(q, 1, n)) = IF 1 <= n THEN n - 1 + 1 ELSE 0
        /\ \A k \in 1 .. n - 1 + 1 : SubSeq(q, 1, n)[k] = q[1 + k - 1]
    <3>1. n \in Int /\ 1 \in Int /\ \A k \in 1 .. n : q[k] \in S
      BY <2>1, <2>2
    <3> QED
      BY <3>1, SubSeqProperties
  <2> HIDE DEF n
  <2>4. Len(SubSeq(q, 1, n)) = n
    BY <2>2, <2>3
  <2>5. ASSUME NEW k \in 1 .. n PROVE SubSeq(q, 1, n)[k] = q[k]
    <3>1. k \in 1 .. n - 1 + 1 /\ 1 + k - 1 = k
      BY <2>2
    <3> QED
      BY <2>3, <3>1
  <2> QED
    BY <2>3, <2>4, <2>5 DEF FrontOf, n
<1>3. LastOf(q) \in S
  BY <1>1, ElementOfSeq DEF LastOf
<1>4. q = Append(FrontOf(q), LastOf(q))
  <2> DEFINE a == Append(FrontOf(q), LastOf(q))
  <2>1. /\ a \in Seq(S) /\ Len(a) = Len(q)
        /\ \A k \in 1 .. Len(q) : a[k] = IF k = Len(q) THEN LastOf(q) ELSE FrontOf(q)[k]
    BY <1>1, <1>2, <1>3, AppendProperties
  <2>2. \A k \in 1 .. Len(q) : a[k] = q[k]
    BY <1>1, <1>2, <2>1 DEF LastOf
  <2> QED
    BY <2>1, <2>2, SeqEqual
<1> QED
  BY <1>1, <1>2, <1>3, <1>4

LEMMA AppendFacts ==
    ASSUME NEW S, NEW q \in Seq(S), NEW x \in S
    PROVE  /\ Append(q, x) \in Seq(S)
           /\ Append(q, x) # <<>>
           /\ Len(Append(q, x)) = Len(q) + 1
           /\ \A k \in 1 .. Len(q) : Append(q, x)[k] = q[k]
           /\ Append(q, x)[Len(q) + 1] = x
           /\ FrontOf(Append(q, x)) = q
           /\ LastOf(Append(q, x)) = x
<1> DEFINE a == Append(q, x)
<1>1. /\ a \in Seq(S) /\ Len(a) = Len(q) + 1 /\ Len(q) \in Nat
      /\ \A k \in 1 .. Len(q) : a[k] = q[k]
      /\ a[Len(q) + 1] = x
  BY AppendProperties, LenProperties
<1>2. a # <<>>
  BY <1>1, EmptySeq
<1>3. FrontOf(a) = q
  <2>1. /\ FrontOf(a) \in Seq(S) /\ Len(FrontOf(a)) = Len(q)
        /\ \A k \in 1 .. Len(q) : FrontOf(a)[k] = q[k]
    <3> HIDE DEF a
    <3>1. /\ FrontOf(a) \in Seq(S) /\ Len(FrontOf(a)) = Len(a) - 1
          /\ \A k \in 1 .. Len(a) - 1 : FrontOf(a)[k] = a[k]
      BY <1>1, <1>2, FrontFacts
    <3> QED
      BY <1>1, <3>1
  <2> QED
    BY <2>1, SeqEqual
<1> QED
  BY <1>1, <1>2, <1>3 DEF LastOf

LEMMA TailFacts ==
    ASSUME NEW S, NEW q \in Seq(S), q # <<>>
    PROVE  /\ Tail(q) \in Seq(S)
           /\ Len(Tail(q)) = Len(q) - 1
           /\ \A k \in 1 .. Len(q) - 1 : Tail(q)[k] = q[k + 1]
BY HeadTailProperties

----------------------------------------------------------------------------
(* Types.                                                                    *)

\* There is a state to go back to for every saved list, and one for the handler
\* at work.
Counted == Len(before) = Len(saved) + (IF phase = "idle" THEN 0 ELSE 1)

LEMMA BeforeNotEmpty ==
    ASSUME LoopTypeOK, Counted, saved # <<>> \/ phase # "idle"
    PROVE  before # <<>>
<1>1. before \in Seq(State) /\ saved \in Seq(Seq(DeltaRecord))
  BY DEF LoopTypeOK
<1>2. Len(saved) \in Nat /\ (saved # <<>> => Len(saved) # 0)
  BY <1>1, EmptySeq, LenProperties
<1>3. Len(before) # 0
  BY <1>2 DEF Counted
<1> QED
  BY <1>1, <1>3, EmptySeq

LEMMA LoopInitType == LoopInit => LoopTypeOK
BY EmptyTableType DEF LoopInit, LoopTypeOK

LEMMA EntryType ==
    ASSUME LoopTypeOK, pos <= Len(entries)
    PROVE  entries[pos] \in PendingEntry
BY ElementOfSeq, LenProperties DEF LoopTypeOK

LEMMA WithDeltaType ==
    ASSUME LoopTypeOK, NEW e \in PendingEntry
    PROVE  WithDelta(e) \in Seq(DeltaRecord)
<1>1. e.stem \in Stem /\ e.subindex \in SubIndex
  BY DEF PendingEntry
<1>2. Shown[e.stem][e.subindex] \in Leaf
  BY <1>1, ShownType DEF State, Node
<1>3. [stem |-> e.stem, subindex |-> e.subindex,
       old |-> Shown[e.stem][e.subindex]] \in DeltaRecord
  BY <1>1, <1>2 DEF DeltaRecord
<1> QED
  BY <1>3, AppendProperties DEF WithDelta, LoopTypeOK

LEMMA LoopStepType ==
    ASSUME LoopTypeOK, Counted, [LoopNext]_loopVars
    PROVE  LoopTypeOK' /\ Counted'
<1> USE DEF LoopTypeOK
<1>1. ASSUME NEW es \in Seq(PendingEntry), BeginCommit(es)
      PROVE  LoopTypeOK' /\ Counted'
  <2>1. before' \in Seq(State) /\ Len(before') = Len(before) + 1
    BY <1>1, ShownType, AppendProperties DEF BeginCommit
  <2> QED
    BY <1>1, <2>1 DEF BeginCommit, Counted
<1>2. CASE CommitEntry
  <2>1. entries[pos] \in PendingEntry
    BY <1>2, EntryType DEF CommitEntry
  <2>2. /\ entries[pos].stem \in Stem /\ entries[pos].subindex \in SubIndex
        /\ entries[pos].value \in Leaf
    BY <2>1 DEF PendingEntry
  <2>3. overlay' \in Table
    BY <1>2, <2>2, SetValueShown DEF CommitEntry
  <2>4. deltas' \in Seq(DeltaRecord)
    BY <1>2, <2>1, WithDeltaType DEF CommitEntry
  <2> QED
    BY <1>2, <2>3, <2>4 DEF CommitEntry, Counted
<1>3. CASE EndCommit
  <2>1. saved' \in Seq(Seq(DeltaRecord)) /\ Len(saved') = Len(saved) + 1
    BY <1>3, AppendProperties DEF EndCommit
  <2> QED
    BY <1>3, <2>1, EmptySeq DEF EndCommit, Counted
<1>4. CASE Flush
  BY <1>4, OverlaidInTable, EmptyTableType DEF Flush, Counted
<1>5. CASE Forget
  <2>1. saved' \in Seq(Seq(DeltaRecord)) /\ Len(saved') = Len(saved) - 1
    BY <1>5, TailFacts DEF Forget
  <2>2. before' \in Seq(State) /\ Len(before') = Len(before) - 1
    BY <1>5, TailFacts, BeforeNotEmpty DEF Forget
  <2>3. Len(saved) \in Nat /\ Len(before) \in Nat
    BY LenProperties
  <2> QED
    BY <1>5, <2>1, <2>2, <2>3 DEF Forget, Counted
<1>6. CASE BeginRevert
  <2>1. /\ deltas' \in Seq(DeltaRecord) /\ saved' \in Seq(Seq(DeltaRecord))
        /\ Len(saved') = Len(saved) - 1
    BY <1>6, FrontFacts DEF BeginRevert
  <2>2. Len(saved) \in Nat
    BY LenProperties
  <2> QED
    BY <1>6, <2>1, <2>2 DEF BeginRevert, Counted
<1>7. CASE RevertDelta
  <2>1. LastOf(deltas) \in DeltaRecord /\ deltas' \in Seq(DeltaRecord)
    BY <1>7, FrontFacts DEF RevertDelta
  <2>2. overlay' \in Table
    BY <1>7, <2>1, SetValueShown DEF RevertDelta, DeltaRecord
  <2> QED
    BY <1>7, <2>1, <2>2 DEF RevertDelta, Counted
<1>8. CASE EndRevert
  <2>1. before' \in Seq(State) /\ Len(before') = Len(before) - 1
    BY <1>8, FrontFacts, BeforeNotEmpty DEF EndRevert
  <2>2. Len(saved) \in Nat
    BY LenProperties
  <2> QED
    BY <1>8, <2>1, <2>2 DEF EndRevert, Counted
<1>9. CASE UNCHANGED loopVars
  BY <1>9 DEF loopVars, Counted
<1> QED
  BY <1>1, <1>2, <1>3, <1>4, <1>5, <1>6, <1>7, <1>8, <1>9 DEF LoopNext, LoopStep

LEMMA LoopInitCounted == LoopInit => Counted
BY EmptySeq DEF LoopInit, Counted

\* Every variable keeps its type, whatever entries the blocks have.
THEOREM LoopTypeCorrect == LoopSpec => []LoopTypeOK
<1>1. LoopTypeOK /\ Counted /\ [LoopNext]_loopVars => LoopTypeOK' /\ Counted'
  BY LoopStepType
<1> QED
  BY LoopInitType, LoopInitCounted, <1>1, PTL DEF LoopSpec

----------------------------------------------------------------------------
(* The loop of commit.                                                       *)

\* What LastWriteWins says of all entries, of those written so far.
WrittenSoFar ==
    phase = "commit" =>
        /\ pos <= Len(entries) + 1
        /\ \A s \in Stem, i \in SubIndex :
            \/ \E k \in 1 .. pos - 1 :
                /\ IsFor(entries[k], s, i)
                /\ \A j \in k + 1 .. pos - 1 : ~IsFor(entries[j], s, i)
                /\ Shown[s][i] = entries[k].value
            \/ /\ \A k \in 1 .. pos - 1 : ~IsFor(entries[k], s, i)
               /\ Shown[s][i] = LastOf(before)[s][i]

LEMMA WrittenSoFarGives ==
    ASSUME LoopTypeOK, WrittenSoFar PROVE LastWriteWins
<1>1. SUFFICES ASSUME phase = "commit", pos > Len(entries)
               PROVE  pos - 1 = Len(entries)
  BY DEF WrittenSoFar, LastWriteWins
<1> QED
  BY <1>1, LenProperties DEF WrittenSoFar, LoopTypeOK

LEMMA WrittenSoFarStep ==
    ASSUME LoopTypeOK, WrittenSoFar, [LoopNext]_loopVars PROVE WrittenSoFar'
<1>1. ASSUME NEW es \in Seq(PendingEntry), BeginCommit(es) PROVE WrittenSoFar'
  <2>1. pos' = 1 /\ Len(entries') \in Nat
    BY <1>1, LenProperties DEF BeginCommit
  <2>2. Shown' = Shown /\ LastOf(before') = Shown
    BY <1>1, ShownType, AppendFacts DEF BeginCommit, LoopTypeOK, Shown
  <2> QED
    BY <2>1, <2>2 DEF WrittenSoFar
<1>2. CASE CommitEntry
  <2> DEFINE e == entries[pos]
  <2>1. e \in PendingEntry /\ pos \in Nat \ {0} /\ Len(entries) \in Nat
    BY <1>2, EntryType, LenProperties DEF CommitEntry, LoopTypeOK
  <2>2. \A t \in Stem, j \in SubIndex :
            Shown'[t][j] = IF t = e.stem /\ j = e.subindex THEN e.value ELSE Shown[t][j]
    BY <1>2, <2>1, SetValueShown DEF CommitEntry, PendingEntry
  <2>3. /\ pos' = pos + 1 /\ entries' = entries /\ before' = before
        /\ pos <= Len(entries) /\ phase = "commit" /\ phase' = "commit"
    BY <1>2 DEF CommitEntry
  <2>4. ASSUME NEW s \in Stem, NEW i \in SubIndex
        PROVE  \/ \E k \in 1 .. pos :
                   /\ IsFor(entries[k], s, i)
                   /\ \A j \in k + 1 .. pos : ~IsFor(entries[j], s, i)
                   /\ Shown'[s][i] = entries[k].value
               \/ /\ \A k \in 1 .. pos : ~IsFor(entries[k], s, i)
                  /\ Shown'[s][i] = LastOf(before)[s][i]
    <3>1. CASE IsFor(e, s, i)
      <4>1. Shown'[s][i] = e.value
        BY <3>1, <2>2 DEF IsFor
      <4>2. pos \in 1 .. pos /\ \A j \in pos + 1 .. pos : FALSE
        BY <2>1
      <4> QED
        BY <3>1, <4>1, <4>2
    <3>2. CASE ~IsFor(e, s, i)
      <4>1. Shown'[s][i] = Shown[s][i]
        BY <3>2, <2>2 DEF IsFor
      <4>2. CASE \E k \in 1 .. pos - 1 :
                    /\ IsFor(entries[k], s, i)
                    /\ \A j \in k + 1 .. pos - 1 : ~IsFor(entries[j], s, i)
                    /\ Shown[s][i] = entries[k].value
        <5>1. PICK k \in 1 .. pos - 1 :
                    /\ IsFor(entries[k], s, i)
                    /\ \A j \in k + 1 .. pos - 1 : ~IsFor(entries[j], s, i)
                    /\ Shown[s][i] = entries[k].value
          BY <4>2
        <5>2. k \in 1 .. pos /\ \A j \in k + 1 .. pos : j \in k + 1 .. pos - 1 \/ j = pos
          BY <2>1
        <5> QED
          BY <5>1, <5>2, <3>2, <4>1
      <4>3. CASE /\ \A k \in 1 .. pos - 1 : ~IsFor(entries[k], s, i)
                 /\ Shown[s][i] = LastOf(before)[s][i]
        <5>1. \A k \in 1 .. pos : k \in 1 .. pos - 1 \/ k = pos
          BY <2>1
        <5> QED
          BY <5>1, <4>3, <3>2, <4>1
      <4> QED
        BY <4>2, <4>3, <2>3 DEF WrittenSoFar
    <3> QED
      BY <3>1, <3>2
  <2>5. pos' - 1 = pos /\ pos' <= Len(entries') + 1
    BY <2>1, <2>3
  <2>6. LastOf(before') = LastOf(before)
    BY <2>3
  <2> QED
    BY <2>3, <2>4, <2>5, <2>6 DEF WrittenSoFar
<1>3. CASE \/ EndCommit \/ Flush \/ Forget
           \/ BeginRevert \/ RevertDelta \/ EndRevert
  <2>1. phase' # "commit"
    BY <1>3 DEF EndCommit, Flush, Forget, BeginRevert, RevertDelta, EndRevert
  <2> QED
    BY <2>1 DEF WrittenSoFar
<1>4. CASE UNCHANGED loopVars
  <2>1. Shown' = Shown /\ LastOf(before') = LastOf(before)
    BY <1>4 DEF loopVars, Shown, LastOf
  <2> QED
    BY <1>4, <2>1 DEF loopVars, WrittenSoFar
<1> QED
  BY <1>1, <1>2, <1>3, <1>4 DEF LoopNext, LoopStep

\* After the loop of commit each leaf has the value of the last entry for it,
\* for entries of any number and order and any split of the nodes over overlay
\* and MDBX.
THEOREM LastWriteWinsAlways == LoopSpec => []LastWriteWins
<1>1. LoopInit => WrittenSoFar
  BY DEF LoopInit, WrittenSoFar
<1>2. LoopTypeOK /\ WrittenSoFar /\ [LoopNext]_loopVars => WrittenSoFar'
  BY WrittenSoFarStep
<1>3. LoopTypeOK /\ WrittenSoFar => LastWriteWins
  BY WrittenSoFarGives
<1> QED
  BY LoopTypeCorrect, <1>1, <1>2, <1>3, PTL DEF LoopSpec

----------------------------------------------------------------------------
(* The loop of apply_deltas_reverse.                                         *)

\* From the state A the list ds leads back to B: what is left alone is as in B,
\* and of several deltas for a leaf the first, which is applied last, has the
\* value in B.
LeadsBackAt(ds, a, b, s, i) ==
    \/ (\A k \in 1 .. Len(ds) : ~IsFor(ds[k], s, i)) /\ a = b
    \/ \E k \in 1 .. Len(ds) :
        /\ IsFor(ds[k], s, i)
        /\ \A j \in 1 .. k - 1 : ~IsFor(ds[j], s, i)
        /\ ds[k].old = b
LeadsBack(ds, A, B) ==
    \A s \in Stem, i \in SubIndex : LeadsBackAt(ds, A[s][i], B[s][i], s, i)

LEMMA NothingToUndo ==
    ASSUME NEW A \in State, NEW B \in State, LeadsBack(<<>>, A, B) PROVE A = B
<1>1. \A k \in 1 .. Len(<<>>) : FALSE
  OBVIOUS
<1>2. \A s \in Stem, i \in SubIndex : A[s][i] = B[s][i]
  BY <1>1 DEF LeadsBack, LeadsBackAt
<1>3. \A s \in Stem : A[s] = B[s]
  BY <1>2 DEF State, Node
<1> QED
  BY <1>3 DEF State

LEMMA UndoNothing ==
    ASSUME NEW A PROVE LeadsBack(<<>>, A, A)
BY DEF LeadsBack, LeadsBackAt

\* A leaf is written, and its old value put at the end of the list.
LEMMA RecordLeadsBack ==
    ASSUME NEW ds \in Seq(DeltaRecord), NEW A, NEW C, NEW B, LeadsBack(ds, A, B),
           NEW r \in DeltaRecord, r.old = A[r.stem][r.subindex],
           \A s \in Stem, i \in SubIndex : ~IsFor(r, s, i) => C[s][i] = A[s][i]
    PROVE  LeadsBack(Append(ds, r), C, B)
<1> DEFINE new == Append(ds, r)
<1>1. /\ Len(ds) \in Nat /\ Len(new) = Len(ds) + 1 /\ new[Len(ds) + 1] = r
      /\ \A k \in 1 .. Len(ds) : new[k] = ds[k]
  BY AppendFacts, LenProperties
<1> HIDE DEF new
<1>2. SUFFICES ASSUME NEW s \in Stem, NEW i \in SubIndex
               PROVE  LeadsBackAt(new, C[s][i], B[s][i], s, i)
  BY DEF LeadsBack, new
<1>3. CASE \E k \in 1 .. Len(ds) :
             /\ IsFor(ds[k], s, i)
             /\ \A j \in 1 .. k - 1 : ~IsFor(ds[j], s, i)
             /\ ds[k].old = B[s][i]
  <2>1. PICK k \in 1 .. Len(ds) :
             /\ IsFor(ds[k], s, i)
             /\ \A j \in 1 .. k - 1 : ~IsFor(ds[j], s, i)
             /\ ds[k].old = B[s][i]
    BY <1>3
  <2>2. k \in 1 .. Len(new) /\ \A j \in 1 .. k - 1 : j \in 1 .. Len(ds)
    BY <1>1
  <2>3. /\ IsFor(new[k], s, i)
        /\ \A j \in 1 .. k - 1 : ~IsFor(new[j], s, i)
        /\ new[k].old = B[s][i]
    BY <1>1, <2>1, <2>2
  <2> QED
    BY <2>2, <2>3 DEF LeadsBackAt
<1>4. CASE (\A k \in 1 .. Len(ds) : ~IsFor(ds[k], s, i)) /\ A[s][i] = B[s][i]
  <2>1. CASE IsFor(r, s, i)
    <3>1. r.old = B[s][i]
      BY <1>4, <2>1 DEF IsFor
    <3>2. /\ Len(ds) + 1 \in 1 .. Len(new)
          /\ \A j \in 1 .. (Len(ds) + 1) - 1 : j \in 1 .. Len(ds)
      BY <1>1
    <3>3. /\ IsFor(new[Len(ds) + 1], s, i)
          /\ \A j \in 1 .. (Len(ds) + 1) - 1 : ~IsFor(new[j], s, i)
          /\ new[Len(ds) + 1].old = B[s][i]
      BY <1>1, <1>4, <2>1, <3>1, <3>2
    <3> QED
      BY <3>2, <3>3 DEF LeadsBackAt
  <2>2. CASE ~IsFor(r, s, i)
    <3>1. \A k \in 1 .. Len(new) : k \in 1 .. Len(ds) \/ k = Len(ds) + 1
      BY <1>1
    <3>2. \A k \in 1 .. Len(new) : ~IsFor(new[k], s, i)
      BY <1>1, <1>4, <2>2, <3>1
    <3>3. C[s][i] = B[s][i]
      BY <1>4, <2>2
    <3> QED
      BY <3>2, <3>3 DEF LeadsBackAt
  <2> QED
    BY <2>1, <2>2
<1> QED
  BY <1>3, <1>4 DEF LeadsBack, LeadsBackAt

\* The last delta of the list is applied and dropped.
LEMMA ApplyLeadsBack ==
    ASSUME NEW ds \in Seq(DeltaRecord), ds # <<>>, NEW A, NEW C, NEW B,
           LeadsBack(ds, A, B),
           \A s \in Stem, i \in SubIndex :
              C[s][i] = IF IsFor(LastOf(ds), s, i) THEN LastOf(ds).old ELSE A[s][i]
    PROVE  LeadsBack(FrontOf(ds), C, B)
<1> DEFINE front == FrontOf(ds)
<1>1. /\ Len(ds) \in Nat \ {0} /\ Len(front) = Len(ds) - 1
      /\ \A k \in 1 .. Len(ds) - 1 : front[k] = ds[k]
  BY FrontFacts
<1> HIDE DEF front
<1>2. SUFFICES ASSUME NEW s \in Stem, NEW i \in SubIndex
               PROVE  LeadsBackAt(front, C[s][i], B[s][i], s, i)
  BY DEF LeadsBack, front
<1>3. \A k \in 1 .. Len(front) : k \in 1 .. Len(ds) /\ front[k] = ds[k]
  BY <1>1
<1>4. CASE (\A k \in 1 .. Len(ds) : ~IsFor(ds[k], s, i)) /\ A[s][i] = B[s][i]
  <2>1. Len(ds) \in 1 .. Len(ds)
    BY <1>1
  <2>2. C[s][i] = B[s][i]
    BY <1>4, <2>1 DEF LastOf
  <2> QED
    BY <1>3, <1>4, <2>2 DEF LeadsBackAt
<1>5. CASE \E k \in 1 .. Len(ds) :
             /\ IsFor(ds[k], s, i)
             /\ \A j \in 1 .. k - 1 : ~IsFor(ds[j], s, i)
             /\ ds[k].old = B[s][i]
  <2>1. PICK k \in 1 .. Len(ds) :
             /\ IsFor(ds[k], s, i)
             /\ \A j \in 1 .. k - 1 : ~IsFor(ds[j], s, i)
             /\ ds[k].old = B[s][i]
    BY <1>5
  <2>2. CASE k = Len(ds)
    <3>1. C[s][i] = B[s][i]
      BY <2>1, <2>2 DEF LastOf
    <3>2. \A j \in 1 .. Len(front) : ~IsFor(front[j], s, i)
      BY <1>1, <2>1, <2>2
    <3> QED
      BY <3>1, <3>2 DEF LeadsBackAt
  <2>3. CASE k # Len(ds)
    <3>1. k \in 1 .. Len(front) /\ \A j \in 1 .. k - 1 : j \in 1 .. Len(front)
      BY <1>1, <2>3
    <3>2. /\ IsFor(front[k], s, i)
          /\ \A j \in 1 .. k - 1 : ~IsFor(front[j], s, i)
          /\ front[k].old = B[s][i]
      BY <1>3, <2>1, <3>1
    <3> QED
      BY <3>1, <3>2 DEF LeadsBackAt
  <2> QED
    BY <2>2, <2>3
<1> QED
  BY <1>4, <1>5 DEF LeadsBack, LeadsBackAt

----------------------------------------------------------------------------
(* Every saved list leads back over its block, and what is left of the list  *)
(* at work leads back to where the handler started or is to end.             *)

SavedLeadBack ==
    \A k \in 1 .. Len(saved) : LeadsBack(saved[k], After(k), before[k])
ListLeadsBack ==
    IF phase = "idle" THEN deltas = <<>> ELSE LeadsBack(deltas, Shown, LastOf(before))

LoopInv == LoopTypeOK /\ Counted /\ SavedLeadBack /\ ListLeadsBack

LEMMA LoopInvInit == LoopInit => LoopInv
<1> SUFFICES ASSUME LoopInit PROVE LoopInv
  OBVIOUS
<1>1. LoopTypeOK /\ Counted
  BY LoopInitType, LoopInitCounted
<1>2. saved = <<>> /\ Len(saved) = 0 /\ phase = "idle" /\ deltas = <<>>
  BY DEF LoopInit
<1> QED
  BY <1>1, <1>2 DEF LoopInv, SavedLeadBack, ListLeadsBack

\* When a revert is done, the tree is as it was before the block.
LEMMA RevertDone ==
    ASSUME LoopInv, EndRevert
    PROVE  Shown' = LastOf(before) /\ before # <<>> /\ LastOf(before) \in State
<1>1. /\ Shown' = Shown /\ deltas = <<>> /\ phase = "revert" /\ before # <<>>
  BY BeforeNotEmpty DEF LoopInv, EndRevert, Shown
<1>2. Shown \in State /\ LastOf(before) \in State
  BY <1>1, ShownType, FrontFacts DEF LoopInv, LoopTypeOK
<1> QED
  BY <1>1, <1>2, NothingToUndo DEF LoopInv, ListLeadsBack

\* Where a saved list comes from: it was there before the step, perhaps at another
\* place, with the same states around its block, or commit has just saved it.
LEMMA SavedComesFrom ==
    ASSUME LoopInv, [LoopNext]_loopVars, NEW k \in 1 .. Len(saved')
    PROVE  \/ \E m \in 1 .. Len(saved) :
                saved'[k] = saved[m] /\ before'[k] = before[m] /\ After(k)' = After(m)
           \/ /\ EndCommit
              /\ saved'[k] = deltas /\ before'[k] = LastOf(before) /\ After(k)' = Shown
<1>t. /\ LoopTypeOK /\ Counted /\ Shown \in State
      /\ before \in Seq(State) /\ Len(before) \in Nat
      /\ saved \in Seq(Seq(DeltaRecord)) /\ Len(saved) \in Nat
      /\ deltas \in Seq(DeltaRecord)
  BY ShownType, LenProperties DEF LoopInv, LoopTypeOK
<1>s. ASSUME saved' = saved, before' = before, phase # "idle" \/ Shown' = Shown
      PROVE  \E m \in 1 .. Len(saved) :
                saved'[k] = saved[m] /\ before'[k] = before[m] /\ After(k)' = After(m)
  <2>1. After(k)' = After(k)
    <3>1. CASE phase # "idle"
      <4>1. k < Len(before)
        BY <1>t, <1>s, <3>1 DEF Counted
      <4> QED
        BY <1>s, <4>1 DEF After
    <3>2. CASE Shown' = Shown
      BY <1>s, <3>2 DEF After
    <3> QED
      BY <1>s, <3>1, <3>2
  <2> QED
    BY <1>s, <2>1
<1>1. ASSUME NEW es \in Seq(PendingEntry), BeginCommit(es)
      PROVE  \E m \in 1 .. Len(saved) :
                saved'[k] = saved[m] /\ before'[k] = before[m] /\ After(k)' = After(m)
  <2>1. before' = Append(before, Shown) /\ phase = "idle" /\ saved' = saved
    BY <1>1 DEF BeginCommit
  <2>2. /\ Len(before') = Len(before) + 1 /\ before'[Len(before) + 1] = Shown
        /\ \A j \in 1 .. Len(before) : before'[j] = before[j]
    BY <1>t, <2>1, AppendFacts
  <2>3. Len(before) = Len(saved)
    BY <1>t, <2>1 DEF Counted
  <2>4. k \in 1 .. Len(saved) /\ After(k)' = before'[k + 1] /\ before'[k] = before[k]
    BY <1>t, <2>1, <2>2, <2>3 DEF After
  <2>5. before'[k + 1] = After(k)
    <3>1. CASE k < Len(before)
      <4>1. k + 1 \in 1 .. Len(before)
        BY <1>t, <2>4, <3>1
      <4> QED
        BY <2>2, <3>1, <4>1 DEF After
    <3>2. CASE k = Len(before)
      BY <2>2, <3>2, <1>t DEF After
    <3> QED
      BY <1>t, <2>3, <2>4, <3>1, <3>2
  <2> QED
    BY <2>1, <2>4, <2>5
<1>2. CASE CommitEntry
  BY <1>2, <1>s DEF CommitEntry
<1>3. CASE EndCommit
  <2>1. /\ Shown' = Shown /\ saved' = Append(saved, deltas) /\ before' = before
        /\ phase = "commit"
    BY <1>3 DEF EndCommit, Shown
  <2>2. /\ Len(saved') = Len(saved) + 1 /\ saved'[Len(saved) + 1] = deltas
        /\ \A j \in 1 .. Len(saved) : saved'[j] = saved[j]
    BY <1>t, <2>1, AppendFacts
  <2>3. Len(before) = Len(saved) + 1
    BY <1>t, <2>1 DEF Counted
  <2>4. After(k)' = After(k)
    BY <2>1 DEF After
  <2>5. CASE k = Len(saved) + 1
    <3>1. After(k) = Shown /\ LastOf(before) = before[k]
      BY <1>t, <2>3, <2>5 DEF After, LastOf
    <3> QED
      BY <1>3, <2>1, <2>2, <2>4, <2>5, <3>1
  <2>6. CASE k # Len(saved) + 1
    <3>1. k \in 1 .. Len(saved)
      BY <1>t, <2>2, <2>6
    <3> QED
      BY <2>1, <2>2, <2>4, <3>1
  <2> QED
    BY <2>5, <2>6
<1>4. CASE Flush
  <2>1. Shown' = Shown
    BY <1>4, <1>t, FlushShown
  <2> QED
    BY <1>4, <1>s, <2>1 DEF Flush
<1>5. CASE Forget
  <2>1. /\ Shown' = Shown /\ saved # <<>> /\ before # <<>> /\ phase = "idle"
        /\ saved' = Tail(saved) /\ before' = Tail(before)
    BY <1>5, <1>t, BeforeNotEmpty DEF Forget, Shown
  <2>2. /\ Len(saved') = Len(saved) - 1 /\ Len(before') = Len(before) - 1
        /\ \A j \in 1 .. Len(saved) - 1 : saved'[j] = saved[j + 1]
        /\ \A j \in 1 .. Len(before) - 1 : before'[j] = before[j + 1]
    BY <1>t, <2>1, TailFacts
  <2>3. Len(before) = Len(saved)
    BY <1>t, <2>1 DEF Counted
  <2>4. /\ k + 1 \in 1 .. Len(saved) /\ saved'[k] = saved[k + 1]
        /\ before'[k] = before[k + 1]
    BY <1>t, <2>2, <2>3
  <2>5. After(k)' = After(k + 1)
    <3>1. CASE k < Len(before')
      <4>1. k + 1 \in 1 .. Len(before) - 1 /\ k + 1 < Len(before)
        BY <1>t, <2>2, <2>3, <3>1
      <4> QED
        BY <2>2, <3>1, <4>1 DEF After
    <3>2. CASE ~(k < Len(before'))
      <4>1. ~(k + 1 < Len(before))
        BY <1>t, <2>2, <2>3, <3>2
      <4> QED
        BY <2>1, <3>2, <4>1 DEF After
    <3> QED
      BY <3>1, <3>2
  <2> QED
    BY <2>4, <2>5
<1>6. CASE BeginRevert
  <2>1. /\ Shown' = Shown /\ saved # <<>> /\ before' = before /\ saved' = FrontOf(saved)
    BY <1>6 DEF BeginRevert, Shown
  <2>2. /\ Len(saved') = Len(saved) - 1
        /\ \A j \in 1 .. Len(saved) - 1 : saved'[j] = saved[j]
    BY <1>t, <2>1, FrontFacts
  <2>3. k \in 1 .. Len(saved) /\ saved'[k] = saved[k] /\ After(k)' = After(k)
    BY <1>t, <2>1, <2>2 DEF After
  <2> QED
    BY <2>1, <2>3
<1>7. CASE RevertDelta
  BY <1>7, <1>s DEF RevertDelta
<1>8. CASE EndRevert
  <2>1. /\ saved' = saved /\ before' = FrontOf(before) /\ phase = "revert"
        /\ before # <<>> /\ Shown' = LastOf(before)
    BY <1>8, RevertDone DEF EndRevert
  <2>2. /\ Len(before') = Len(before) - 1
        /\ \A j \in 1 .. Len(before) - 1 : before'[j] = before[j]
    BY <1>t, <2>1, FrontFacts
  <2>3. Len(before) = Len(saved) + 1
    BY <1>t, <2>1 DEF Counted
  <2>4. /\ k \in 1 .. Len(saved) /\ k < Len(before) /\ before'[k] = before[k]
        /\ After(k) = before[k + 1]
    BY <1>t, <2>1, <2>2, <2>3 DEF After
  <2>5. After(k)' = before[k + 1]
    <3>1. CASE k < Len(before')
      <4>1. k + 1 \in 1 .. Len(before) - 1
        BY <1>t, <2>2, <2>4, <3>1
      <4> QED
        BY <2>2, <3>1, <4>1 DEF After
    <3>2. CASE ~(k < Len(before'))
      <4>1. k + 1 = Len(before)
        BY <1>t, <2>2, <2>3, <2>4, <3>2
      <4> QED
        BY <2>1, <3>2, <4>1 DEF After, LastOf
    <3> QED
      BY <3>1, <3>2
  <2> QED
    BY <2>1, <2>4, <2>5
<1>9. CASE UNCHANGED loopVars
  <2>1. Shown' = Shown
    BY <1>9 DEF loopVars, Shown
  <2> QED
    BY <1>9, <1>s, <2>1 DEF loopVars
<1> QED
  BY <1>1, <1>2, <1>3, <1>4, <1>5, <1>6, <1>7, <1>8, <1>9 DEF LoopNext, LoopStep

LEMMA LoopInvStep ==
    ASSUME LoopInv, [LoopNext]_loopVars PROVE LoopInv'
<1>0. LoopTypeOK' /\ Counted'
  BY LoopStepType DEF LoopInv
<1>t. /\ LoopTypeOK /\ Counted /\ Shown \in State
      /\ before \in Seq(State) /\ Len(before) \in Nat
      /\ saved \in Seq(Seq(DeltaRecord)) /\ Len(saved) \in Nat
      /\ deltas \in Seq(DeltaRecord)
  BY ShownType, LenProperties DEF LoopInv, LoopTypeOK
<1>s. SavedLeadBack'
  <2>1. ASSUME NEW k \in 1 .. Len(saved')
        PROVE  LeadsBack(saved'[k], After(k)', before'[k])
    <3>1. CASE \E m \in 1 .. Len(saved) :
                 saved'[k] = saved[m] /\ before'[k] = before[m] /\ After(k)' = After(m)
      BY <3>1 DEF LoopInv, SavedLeadBack
    <3>2. CASE /\ EndCommit
               /\ saved'[k] = deltas /\ before'[k] = LastOf(before) /\ After(k)' = Shown
      BY <3>2 DEF EndCommit, LoopInv, ListLeadsBack
    <3> QED
      BY <3>1, <3>2, SavedComesFrom
  <2> QED
    BY <2>1 DEF SavedLeadBack
<1> SUFFICES ListLeadsBack'
  BY <1>0, <1>s DEF LoopInv
<1>1. ASSUME NEW es \in Seq(PendingEntry), BeginCommit(es) PROVE ListLeadsBack'
  <2>1. /\ Shown' = Shown /\ before' = Append(before, Shown) /\ phase = "idle"
        /\ phase' = "commit" /\ deltas' = deltas
    BY <1>1 DEF BeginCommit, Shown
  <2>2. LastOf(before') = Shown /\ deltas = <<>>
    BY <1>t, <2>1, AppendFacts DEF LoopInv, ListLeadsBack
  <2> QED
    BY <2>1, <2>2, UndoNothing DEF ListLeadsBack
<1>2. CASE CommitEntry
  <2> DEFINE e == entries[pos]
             r == [stem |-> e.stem, subindex |-> e.subindex,
                   old |-> Shown[e.stem][e.subindex]]
  <2>1. /\ e \in PendingEntry /\ e.stem \in Stem /\ e.subindex \in SubIndex
        /\ e.value \in Leaf
    BY <1>2, <1>t, EntryType DEF CommitEntry, PendingEntry
  <2>2. \A t \in Stem, j \in SubIndex :
            Shown'[t][j] = IF t = e.stem /\ j = e.subindex THEN e.value ELSE Shown[t][j]
    BY <1>2, <1>t, <2>1, SetValueShown DEF CommitEntry
  <2>3. /\ phase = "commit" /\ phase' = "commit" /\ deltas' = WithDelta(e)
        /\ before' = before
    BY <1>2 DEF CommitEntry
  <2>4. r \in DeltaRecord
    <3>1. Shown[e.stem][e.subindex] \in Leaf
      BY <1>t, <2>1 DEF State, Node
    <3> QED
      BY <2>1, <3>1 DEF DeltaRecord
  <2>5. LeadsBack(deltas, Shown, LastOf(before))
    BY <2>3 DEF LoopInv, ListLeadsBack
  <2>6. LeadsBack(deltas', Shown', LastOf(before))
    <3>1. CASE Shown[e.stem][e.subindex] # e.value
      <4>1. deltas' = Append(deltas, r)
        BY <2>3, <3>1 DEF WithDelta
      <4>2. r.old = Shown[r.stem][r.subindex]
        OBVIOUS
      <4>3. \A s \in Stem, i \in SubIndex : ~IsFor(r, s, i) => Shown'[s][i] = Shown[s][i]
        BY <2>2 DEF IsFor
      <4> HIDE DEF r
      <4>4. LeadsBack(Append(deltas, r), Shown', LastOf(before))
        BY <1>t, <2>4, <2>5, <4>2, <4>3, RecordLeadsBack
      <4> QED
        BY <4>1, <4>4
    <3>2. CASE Shown[e.stem][e.subindex] = e.value
      <4>1. deltas' = deltas
        BY <2>3, <3>2 DEF WithDelta
      <4>2. \A s \in Stem, i \in SubIndex : Shown'[s][i] = Shown[s][i]
        BY <2>2, <3>2
      <4> QED
        BY <2>5, <4>1, <4>2 DEF LeadsBack
    <3> QED
      BY <3>1, <3>2
  <2>7. LastOf(before') = LastOf(before)
    BY <2>3
  <2> QED
    BY <2>3, <2>6, <2>7 DEF ListLeadsBack
<1>3. CASE EndCommit
  BY <1>3 DEF EndCommit, ListLeadsBack
<1>4. CASE Flush
  BY <1>4 DEF Flush, LoopInv, ListLeadsBack
<1>5. CASE Forget
  BY <1>5 DEF Forget, LoopInv, ListLeadsBack
<1>6. CASE BeginRevert
  <2>1. /\ Shown' = Shown /\ saved # <<>> /\ before' = before /\ phase = "idle"
        /\ deltas' = LastOf(saved) /\ phase' = "revert"
    BY <1>6 DEF BeginRevert, Shown
  <2>2. Len(saved) # 0 /\ Len(before) = Len(saved)
    BY <1>t, <2>1, FrontFacts DEF Counted
  <2>3. Len(saved) \in 1 .. Len(saved) /\ After(Len(saved)) = Shown
    BY <1>t, <2>2 DEF After
  <2>4. LeadsBack(saved[Len(saved)], Shown, before[Len(saved)])
    BY <2>3 DEF LoopInv, SavedLeadBack
  <2> QED
    BY <2>1, <2>2, <2>4 DEF ListLeadsBack, LastOf
<1>7. CASE RevertDelta
  <2> DEFINE r == LastOf(deltas)
  <2>1. /\ phase = "revert" /\ phase' = "revert" /\ deltas # <<>>
        /\ deltas' = FrontOf(deltas) /\ before' = before
    BY <1>7 DEF RevertDelta
  <2>2. r \in DeltaRecord /\ r.stem \in Stem /\ r.subindex \in SubIndex /\ r.old \in Leaf
    <3>1. r \in DeltaRecord
      BY <1>t, <2>1, FrontFacts
    <3> QED
      BY <3>1 DEF DeltaRecord
  <2>3. \A t \in Stem, j \in SubIndex :
            Shown'[t][j] = IF t = r.stem /\ j = r.subindex THEN r.old ELSE Shown[t][j]
    BY <1>7, <1>t, <2>2, SetValueShown DEF RevertDelta
  <2>4. \A t \in Stem, j \in SubIndex :
            Shown'[t][j] = IF IsFor(LastOf(deltas), t, j) THEN LastOf(deltas).old
                                                          ELSE Shown[t][j]
    BY <2>3 DEF IsFor
  <2>5. LeadsBack(deltas, Shown, LastOf(before))
    BY <2>1 DEF LoopInv, ListLeadsBack
  <2>6. LeadsBack(deltas', Shown', LastOf(before))
    BY <1>t, <2>1, <2>4, <2>5, ApplyLeadsBack
  <2>7. LastOf(before') = LastOf(before)
    BY <2>1
  <2> QED
    BY <2>1, <2>6, <2>7 DEF ListLeadsBack
<1>8. CASE EndRevert
  BY <1>8 DEF EndRevert, ListLeadsBack
<1>9. CASE UNCHANGED loopVars
  <2>1. Shown' = Shown /\ LastOf(before') = LastOf(before)
    BY <1>9 DEF loopVars, Shown, LastOf
  <2> QED
    BY <1>9, <2>1 DEF loopVars, LoopInv, ListLeadsBack
<1> QED
  BY <1>1, <1>2, <1>3, <1>4, <1>5, <1>6, <1>7, <1>8, <1>9 DEF LoopNext, LoopStep

----------------------------------------------------------------------------
(* The refinement.                                                           *)

AbsShown == IF phase = "idle" THEN Shown ELSE LastOf(before)
AbsPast  == IF phase = "idle" THEN before ELSE FrontOf(before)

LEMMA PromiseInit == LoopInit => Promise!Init
<1> SUFFICES ASSUME LoopInit PROVE AbsShown \in State /\ AbsPast = <<>>
  BY DEF Promise!Init, AbsShown, AbsPast
<1> QED
  BY LoopInitType, ShownType DEF LoopInit, AbsShown, AbsPast

LEMMA PromiseStep ==
    ASSUME LoopInv, LoopInv', [LoopNext]_loopVars
    PROVE  \/ AbsShown' \in State /\ AbsPast' = Append(AbsPast, AbsShown)
           \/ /\ AbsPast # <<>>
              /\ AbsShown' = LastOf(AbsPast) /\ AbsPast' = FrontOf(AbsPast)
           \/ AbsPast # <<>> /\ AbsPast' = Tail(AbsPast) /\ AbsShown' = AbsShown
           \/ AbsShown' = AbsShown /\ AbsPast' = AbsPast
<1>t. /\ LoopTypeOK /\ Counted /\ Shown \in State /\ Shown' \in State
      /\ before \in Seq(State) /\ saved \in Seq(Seq(DeltaRecord))
      /\ deltas \in Seq(DeltaRecord)
  <2>1. Shown' \in State
    BY OverlaidInTable, NodeOfType DEF LoopInv, LoopTypeOK, Shown, StateOf, State
  <2> QED
    BY <2>1, ShownType DEF LoopInv, LoopTypeOK
<1>1. ASSUME NEW es \in Seq(PendingEntry), BeginCommit(es)
      PROVE  AbsShown' = AbsShown /\ AbsPast' = AbsPast
  <2>1. before' = Append(before, Shown) /\ phase = "idle" /\ phase' = "commit"
    BY <1>1 DEF BeginCommit
  <2>2. LastOf(before') = Shown /\ FrontOf(before') = before
    BY <1>t, <2>1, AppendFacts
  <2> QED
    BY <2>1, <2>2 DEF AbsShown, AbsPast
<1>2. CASE CommitEntry \/ RevertDelta
  BY <1>2 DEF CommitEntry, RevertDelta, AbsShown, AbsPast, LastOf, FrontOf
<1>3. CASE EndCommit
  <2>1. before # <<>> /\ before' = before /\ phase = "commit" /\ phase' = "idle"
    BY <1>3, <1>t, BeforeNotEmpty DEF EndCommit
  <2>2. before = Append(FrontOf(before), LastOf(before))
    BY <1>t, <2>1, FrontFacts
  <2> QED
    BY <1>t, <2>1, <2>2 DEF AbsShown, AbsPast
<1>4. CASE Flush
  <2>1. Shown' = Shown
    BY <1>4, <1>t, FlushShown
  <2> QED
    BY <1>4, <2>1 DEF Flush, AbsShown, AbsPast
<1>5. CASE Forget
  <2>1. Shown' = Shown /\ before # <<>>
    BY <1>5, <1>t, BeforeNotEmpty DEF Forget, Shown
  <2> QED
    BY <1>5, <2>1 DEF Forget, AbsShown, AbsPast
<1>6. CASE BeginRevert
  <2>1. before # <<>> /\ before' = before /\ phase = "idle" /\ phase' = "revert"
    BY <1>6, <1>t, BeforeNotEmpty DEF BeginRevert
  <2> QED
    BY <2>1 DEF AbsShown, AbsPast, LastOf, FrontOf
<1>7. CASE EndRevert
  <2>1. /\ Shown' = LastOf(before) /\ before' = FrontOf(before)
        /\ phase = "revert" /\ phase' = "idle"
    BY <1>7, RevertDone DEF EndRevert
  <2> QED
    BY <2>1 DEF AbsShown, AbsPast
<1>8. CASE UNCHANGED loopVars
  BY <1>8 DEF loopVars, AbsShown, AbsPast, Shown, LastOf, FrontOf
<1> QED
  BY <1>1, <1>2, <1>3, <1>4, <1>5, <1>6, <1>7, <1>8 DEF LoopNext, LoopStep

\* The two loops implement the promise of RevertibleState: however often a leaf
\* is written in a block, whatever is flushed between and whichever lists are
\* pruned, reverting a block gives back the state before it, leaf for leaf.
THEOREM LoopsKeepPromise == LoopSpec => KeepsPromise
<1>1. LoopInv /\ [LoopNext]_loopVars => LoopInv'
  BY LoopInvStep
<1>2. LoopInv /\ LoopInv' /\ [LoopNext]_loopVars
        => [Promise!Next]_<<IF phase = "idle" THEN Shown ELSE LastOf(before),
                            IF phase = "idle" THEN before ELSE FrontOf(before)>>
  BY PromiseStep DEF Promise!Next, Promise!Apply, Promise!Undo, Promise!Forget,
                     AbsShown, AbsPast, LastOf, FrontOf
<1> QED
  BY LoopInvInit, PromiseInit, <1>1, <1>2, PTL DEF LoopSpec, KeepsPromise, Promise!Spec
=============================================================================
