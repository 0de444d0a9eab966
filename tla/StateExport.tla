---------------------------- MODULE StateExport ----------------------------
(***************************************************************************)
(* The export calls of the RPC server: tasks of their own that read the    *)
(* stores while the ExEx goes on writing them.  Each read is a transaction *)
(* of its own, and no lock spans two of them, so every read is an action   *)
(* and the steps of the ExEx fall anywhere between.  One call at a time is *)
(* modelled: calls only read, and cannot disturb each other.               *)
(*                                                                         *)
(* The file a call writes is modelled as the leaves in it.                 *)
(***************************************************************************)
EXTENDS UbtExEx

CONSTANTS
    ContractStems,  \* the stems of the contract a caller asks for
    Kinds           \* the calls that a run makes

ASSUME ExportAssumption ==
    /\ ContractStems \subseteq Stem
    /\ Kinds \subseteq {"state", "contract", "delta", "mdbxState", "mdbxContract"}

VARIABLES
    call,       \* the call being answered
    at,         \* the read that comes next
    seen,       \* NOMT's head block, as ensure_nomt_synced found it
    head,       \* the head record that goes into the answer
    cursor,     \* the next block whose delta is read
    todo,       \* leaves to be looked up
    file,       \* leaves written
    calm        \* the ExEx has been idle since the call came in

reply == <<seen, head, cursor, todo, file>>
exportVars == <<call, at, reply, calm>>

\* export_full_state and export_contract (from NOMT), get_state_delta, and the two
\* exports from MDBX that the library offers.
Call == [kind : {"state", "contract", "delta", "mdbxState", "mdbxContract"},
         from : 0 .. MaxHeight, to : 0 .. MaxHeight]
Calls == {c \in Call : c.kind \in Kinds /\ (c.kind # "delta" => c.from = 0 /\ c.to = 0)}
NoCall == [kind |-> "state", from |-> 0, to |-> 0]

At == {"none", "nomtHead", "indexHead", "exportHead", "stems", "leaves",
       "mdbxHead", "mdbxStems", "deltas", "values", "noAddress", "answered"}

Wanted == IF call.kind \in {"contract", "mdbxContract"} THEN ContractStems ELSE Stem

Silent ==
    /\ call = NoCall /\ at = "none" /\ calm = FALSE
    /\ seen = 0 /\ head = NoHead /\ cursor = 0 /\ todo = {} /\ file = EmptyPatch

HangUp ==
    /\ call' = NoCall /\ at' = "none" /\ calm' = FALSE
    /\ seen' = 0 /\ head' = NoHead /\ cursor' = 0 /\ todo' = {} /\ file' = EmptyPatch

ExportInit == Init /\ Silent

----------------------------------------------------------------------------
Ask(c) ==
    /\ at = "none" /\ pc \notin Stopped
    /\ call' = c
    /\ at' = IF c.kind \in {"mdbxState", "mdbxContract"} THEN "mdbxHead" ELSE "nomtHead"
    /\ calm' = (pc = "idle")
    /\ UNCHANGED reply

\* ensure_nomt_synced: the two heads must have the same number.
ReadNomtHead ==
    /\ at = "nomtHead"
    /\ seen' = nomtHead
    /\ at' = "indexHead"
    /\ UNCHANGED <<call, head, cursor, todo, file, calm>>

UncheckedMutant == kiHead # NoHead
Synced == kiHead # NoHead /\ kiHead.block = seen

EnsureNomtSynced ==
    /\ at = "indexHead"
    /\ Synced
    /\ seen' = 0
    /\ at' = IF call.kind = "delta" THEN "mdbxHead" ELSE "exportHead"
    /\ UNCHANGED <<call, head, cursor, todo, file, calm>>

\* The exports from NOMT: the head of the key index, then its bitmaps, then
\* NOMT leaf by leaf.
ReadIndexHead ==
    /\ at = "exportHead"
    /\ kiHead # NoHead
    /\ head' = kiHead
    /\ at' = "stems"
    /\ UNCHANGED <<call, seen, cursor, todo, file, calm>>

ForEachStem ==
    /\ at = "stems"
    /\ todo' = {l \in Wanted \X SubIndex : l[2] \in kiBitmap[l[1]]}
    /\ at' = "leaves"
    /\ UNCHANGED <<call, seen, head, cursor, file, calm>>

\* Leaves are read in key order; any order stands for it.
ReadNomtValue ==
    /\ at = "leaves"
    /\ \E l \in todo :
        /\ todo' = todo \ {l}
        /\ file' = [file EXCEPT ![l[1]][l[2]] = nomtState[l[1]][l[2]]]
    /\ UNCHANGED <<call, at, seen, head, cursor, calm>>

\* "Key index empty while state head indicates non-zero stems"
Finish ==
    /\ at \in {"leaves", "values"} /\ todo = {}
    /\ ~(call.kind = "state" /\ file = EmptyPatch /\ head.stemCount > 0)
    /\ at' = "answered"
    /\ UNCHANGED <<call, reply, calm>>

\* get_state_delta: the range must lie in the retention window of MDBX's head.
RetentionStart(h) == IF h.block > DeltaRetention THEN h.block - DeltaRetention ELSE 0

InWindow(h) ==
    /\ call.from <= call.to
    /\ call.to <= h.block
    /\ call.from >= RetentionStart(h)

ReadMdbxHead ==
    /\ at = "mdbxHead"
    /\ mdbxHead # NoHead
    /\ call.kind = "delta" => InWindow(mdbxHead)
    /\ head' = mdbxHead
    /\ cursor' = call.from
    /\ at' = IF call.kind = "delta" THEN "deltas" ELSE "mdbxStems"
    /\ UNCHANGED <<call, seen, todo, file, calm>>

LoadBlockDeltas ==
    /\ at = "deltas"
    /\ todo' = IF cursor \in BlockNumber
               THEN todo \cup {l \in Stem \X SubIndex :
                                 mdbxDeltas[cursor][l[1]][l[2]] # NoWrite}
               ELSE todo
    /\ IF cursor < call.to THEN cursor' = cursor + 1 /\ UNCHANGED at
                           ELSE cursor' = 0 /\ at' = "values"
    /\ UNCHANGED <<call, seen, head, file, calm>>

\* The old value in the record is dropped: what is exported is MDBX's value now.
ReadDeltaLeaf ==
    /\ at = "values"
    /\ \E l \in todo :
        IF l[1] \in mdbxAddrs
        THEN /\ todo' = todo \ {l}
             /\ file' = [file EXCEPT ![l[1]][l[2]] = NodeOf(mdbxStems[l[1]])[l[2]]]
             /\ UNCHANGED at
        ELSE at' = "noAddress" /\ UNCHANGED <<todo, file>>
    /\ UNCHANGED <<call, seen, head, cursor, calm>>

\* The exports from MDBX: one transaction reads all stems.  An address is on
\* record for good, so looking them up at once asks no more than looking later.
IterStems ==
    /\ at = "mdbxStems"
    /\ IF \A s \in Stem : mdbxStems[s] # NoNode => s \in mdbxAddrs
       THEN /\ file' = [s \in Stem |-> [i \in SubIndex |->
                          IF s \in Wanted /\ NodeOf(mdbxStems[s])[i] # Zero
                          THEN NodeOf(mdbxStems[s])[i] ELSE NoWrite]]
            /\ at' = "answered"
       ELSE at' = "noAddress" /\ UNCHANGED file
    /\ UNCHANGED <<call, seen, head, cursor, todo, calm>>

\* A call may also end in an error at any read: what it asks for is not there,
\* or a store cannot be opened.
Refuse == at \notin {"none", "answered"} /\ HangUp
Deliver == at = "answered" /\ HangUp

ExportStep ==
    \/ \E c \in Calls : Ask(c)
    \/ ReadNomtHead \/ EnsureNomtSynced
    \/ ReadIndexHead \/ ForEachStem \/ ReadNomtValue
    \/ ReadMdbxHead \/ LoadBlockDeltas \/ ReadDeltaLeaf \/ IterStems
    \/ Finish \/ Refuse \/ Deliver

\* The ExEx goes on; the server ends with the process, a call with its answer.
ExExStep ==
    /\ Next
    /\ IF pc' \in Stopped \/ at = "answered" THEN HangUp
       ELSE calm' = FALSE /\ UNCHANGED <<call, at, reply>>

ExportNext == (ExportStep /\ UNCHANGED vars) \/ ExExStep

ExportSpec == ExportInit /\ [][ExportNext]_<<vars, exportVars>>

----------------------------------------------------------------------------
(* Properties.                                                               *)

Answered(kinds) == at = "answered" /\ call.kind \in kinds

\* The only type invariant: every variable of a call holds what it should.
ExportTypeOK ==
    /\ call \in Call
    /\ at \in At
    /\ seen \in Nat
    /\ head \in UbtHead \cup {NoHead}
    /\ cursor \in Nat
    /\ todo \in SUBSET (Stem \X SubIndex)
    /\ file \in Patch
    /\ calm \in BOOLEAN

\* What a file says of a stem: the leaves that are not in it are zero.
FileOf(s) == PatchNode(EmptyNode, file[s])

RangeBlocks == BlockNumber \cap (call.from .. call.to)
ChangedIn(b, s, i) ==
    StateAt(SubSeq(head.hash, 1, b))[s][i] # StateAt(SubSeq(head.hash, 1, b - 1))[s][i]

\* A state export that no notification overlaps holds exactly the state after
\* the block in its header.  Header, keys and values come from three places
\* (the head and the bitmaps of the key index, and NOMT), which the ExEx writes
\* at different times, reverts by different means, and does not all rewind.
CalmExportExact ==
    (Answered({"state", "contract"}) /\ calm) =>
        \A s \in Wanted : FileOf(s) = StateAt(head.hash)[s]

\* Whatever the ExEx writes meanwhile, no leaf of the block in the header is
\* missing from the file: the head is read before the bitmaps, and they grow.
ExportCoversHead ==
    Answered({"state", "contract"}) =>
        \A s \in Wanted, i \in SubIndex :
            StateAt(head.hash)[s][i] # Zero => file[s][i] # NoWrite

\* An export from MDBX that no notification overlaps holds the state after the
\* block in its header, whether or not blocks wait in the overlay.
MdbxExportExact ==
    (Answered({"mdbxState", "mdbxContract"}) /\ calm) =>
        \A s \in Wanted : FileOf(s) = StateAt(head.hash)[s]

\* A delta export that no notification overlaps has every leaf that a block of
\* its range changed, with the value as of the block in its header, and no wrong
\* value: re-used block numbers, prunes at the edge of the window, and records
\* that a revert keeps must not get in the way.  (For blocks within the
\* retention of the highest block ever seen: the others may be pruned.)
DeltaExact ==
    (Answered({"delta"}) /\ calm) =>
        \A s \in Stem, i \in SubIndex :
            /\ file[s][i] \in {NoWrite, StateAt(head.hash)[s][i]}
            /\ \A b \in RangeBlocks :
                (b + DeltaRetention >= peak /\ ChangedIn(b, s, i))
                    => file[s][i] # NoWrite

\* No call ever fails for a stem without an address ("PIR export requires a
\* fresh UBT build"), however its reads fall between the writes of the ExEx.
AddressAlwaysFound == at # "noAddress"
=============================================================================
