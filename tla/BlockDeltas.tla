---------------------------- MODULE BlockDeltas ----------------------------
(***************************************************************************)
(* The undo record of a block as the code keeps it: a list of (stem,       *)
(* subindex, old value) that commit appends to while it writes the entries *)
(* of the block one by one, and that apply_deltas_reverse reads from its   *)
(* end.  A flush may move the nodes from the overlay to MDBX in between.   *)
(* The loops take lists in which a leaf comes more than once too;          *)
(* process_chain makes none of these.                                      *)
(*                                                                         *)
(* UbtExEx takes both loops as one step each (WriteThrough and Undo).      *)
(***************************************************************************)
EXTENDS TreeState, Integers, Sequences

VARIABLES
    mdbxStems,  \* table ubt_stems
    overlay,    \* dirty_stems
    entries,    \* the pending entries of the block being committed
    pos,        \* the entry that is written next
    deltas,     \* the list being built, or what is left of the list being applied
    saved,      \* the lists in ubt_block_deltas, lowest block first
    before,     \* history: the state before each block that can be reverted
    phase       \* what the handler is doing

loopVars == <<mdbxStems, overlay, entries, pos, deltas, saved, before, phase>>

PendingEntry == [stem : Stem, subindex : SubIndex, value : Leaf]
DeltaRecord == [stem : Stem, subindex : SubIndex, old : Leaf]

LastOf(q) == q[Len(q)]
FrontOf(q) == SubSeq(q, 1, Len(q) - 1)

LoopInit ==
    /\ mdbxStems = EmptyTable
    /\ overlay = EmptyTable
    /\ entries = <<>> /\ pos = 1
    /\ deltas = <<>>
    /\ saved = <<>>
    /\ before = <<>>
    /\ phase = "idle"

\* What get_stem shows of the tree.
Shown == StateOf(Overlaid(overlay, mdbxStems))

\* The stem is taken from MDBX, or new, unless the overlay has it; then one
\* leaf of it is set.
SetValueInBaseMutant(s, i, v) ==
    [overlay EXCEPT ![s] = [NodeOf(mdbxStems[s]) EXCEPT ![i] = v]]
SetValue(s, i, v) ==
    [overlay EXCEPT ![s] =
        [NodeOf(Overlaid(overlay, mdbxStems)[s]) EXCEPT ![i] = v]]

----------------------------------------------------------------------------
BeginCommit(es) ==
    /\ phase = "idle"
    /\ entries' = es /\ pos' = 1
    /\ before' = Append(before, Shown)
    /\ phase' = "commit"
    /\ UNCHANGED <<mdbxStems, overlay, deltas, saved>>

\* A delta for every write that changes its leaf.
RecordAlwaysMutant(e) ==
    Append(deltas, [stem |-> e.stem, subindex |-> e.subindex,
                    old |-> Shown[e.stem][e.subindex]])
RecordOverwritesMutant(e) ==
    IF Shown[e.stem][e.subindex] \notin {Zero, e.value}
    THEN Append(deltas, [stem |-> e.stem, subindex |-> e.subindex,
                         old |-> Shown[e.stem][e.subindex]])
    ELSE deltas
WithDelta(e) ==
    IF Shown[e.stem][e.subindex] # e.value
    THEN Append(deltas, [stem |-> e.stem, subindex |-> e.subindex,
                         old |-> Shown[e.stem][e.subindex]])
    ELSE deltas

CommitEntry ==
    /\ phase = "commit" /\ pos <= Len(entries)
    /\ overlay' = SetValue(entries[pos].stem, entries[pos].subindex, entries[pos].value)
    /\ deltas' = WithDelta(entries[pos])
    /\ pos' = pos + 1
    /\ UNCHANGED <<mdbxStems, entries, saved, before, phase>>

EndCommit ==
    /\ phase = "commit" /\ pos > Len(entries)
    /\ saved' = Append(saved, deltas)
    /\ deltas' = <<>>
    /\ entries' = <<>> /\ pos' = 1
    /\ phase' = "idle"
    /\ UNCHANGED <<mdbxStems, overlay, before>>

\* The dirty stems go to MDBX, between two blocks.
Flush ==
    /\ phase = "idle"
    /\ mdbxStems' = Overlaid(overlay, mdbxStems)
    /\ overlay' = EmptyTable
    /\ UNCHANGED <<entries, pos, deltas, saved, before, phase>>

\* The list of the lowest block is pruned.
Forget ==
    /\ phase = "idle" /\ saved # <<>>
    /\ saved' = Tail(saved)
    /\ before' = Tail(before)
    /\ UNCHANGED <<mdbxStems, overlay, entries, pos, deltas, phase>>

BeginRevert ==
    /\ phase = "idle" /\ saved # <<>>
    /\ deltas' = LastOf(saved)
    /\ saved' = FrontOf(saved)
    /\ phase' = "revert"
    /\ UNCHANGED <<mdbxStems, overlay, entries, pos, before>>

\* One turn of apply_deltas_reverse: the last delta of the list first.
RevertDelta ==
    /\ phase = "revert" /\ deltas # <<>>
    /\ overlay' = SetValue(LastOf(deltas).stem, LastOf(deltas).subindex,
                           LastOf(deltas).old)
    /\ deltas' = FrontOf(deltas)
    /\ UNCHANGED <<mdbxStems, entries, pos, saved, before, phase>>

EndRevert ==
    /\ phase = "revert" /\ deltas = <<>>
    /\ before' = FrontOf(before)
    /\ phase' = "idle"
    /\ UNCHANGED <<mdbxStems, overlay, entries, pos, deltas, saved>>

LoopStep ==
    \/ CommitEntry \/ EndCommit \/ Flush \/ Forget
    \/ BeginRevert \/ RevertDelta \/ EndRevert

LoopNext == LoopStep \/ \E es \in Seq(PendingEntry) : BeginCommit(es)

LoopSpec == LoopInit /\ [][LoopNext]_loopVars

----------------------------------------------------------------------------
(* Properties.                                                               *)

LoopTypeOK ==
    /\ mdbxStems \in Table /\ overlay \in Table
    /\ entries \in Seq(PendingEntry) /\ pos \in Nat \ {0}
    /\ deltas \in Seq(DeltaRecord)
    /\ saved \in Seq(Seq(DeltaRecord))
    /\ before \in Seq(State)
    /\ phase \in {"idle", "commit", "revert"}

IsFor(r, s, i) == r.stem = s /\ r.subindex = i

\* When the loop of commit is done, every leaf has the value of the last entry
\* for it, and a leaf without an entry has the value it had, whichever of the
\* two tables the nodes came from (ubt_exex.rs, commit).
LastWriteWins ==
    (phase = "commit" /\ pos > Len(entries)) =>
        \A s \in Stem, i \in SubIndex :
            \/ \E k \in 1 .. Len(entries) :
                /\ IsFor(entries[k], s, i)
                /\ \A j \in k + 1 .. Len(entries) : ~IsFor(entries[j], s, i)
                /\ Shown[s][i] = entries[k].value
            \/ /\ \A k \in 1 .. Len(entries) : ~IsFor(entries[k], s, i)
               /\ Shown[s][i] = LastOf(before)[s][i]

\* The list of a block is what UbtExEx takes it for: one delta per leaf that the
\* block changed, with the value before it.  (No block has two entries for a
\* leaf, since the bundle it comes from is a map.)
UndoPatch(ds) ==
    [s \in Stem |-> [i \in SubIndex |->
        LET here == {k \in 1 .. Len(ds) : IsFor(ds[k], s, i)}
        IN  IF here = {} THEN NoWrite
            ELSE ds[CHOOSE k \in here : \A j \in here : k <= j].old]]

After(k) == IF k < Len(before) THEN before[k + 1] ELSE Shown

SavedIsUndo ==
    phase = "idle" =>
        \A k \in 1 .. Len(saved) :
            UndoPatch(saved[k]) = Undo(before[k], After(k))

\* While a handler is at work, the tree is taken as it is when the handler is
\* done with an undo, and as it was when it began with a commit.
Promise == INSTANCE RevertibleState WITH
    shown <- IF phase = "idle" THEN Shown ELSE LastOf(before),
    past  <- IF phase = "idle" THEN before ELSE FrontOf(before)

\* The two loops, with flushes and prunes between them, keep what reverts
\* promise: a block is applied at once, and undone at once and exactly.
KeepsPromise == Promise!Spec
=============================================================================
