------------------------------- MODULE Stores -------------------------------
(***************************************************************************)
(* The three durable stores, each operation as the value it leaves behind. *)
(*                                                                         *)
(*   MDBX       tables ubt_stems, ubt_stem_addresses, ubt_block_deltas and *)
(*              the head record in ubt_meta (persistence.rs, mdbx.rs).     *)
(*              Every operation is one transaction, and commits at once.   *)
(*   NOMT       the second copy of the leaves, with its own head key and a *)
(*              bounded rollback log (an external crate).                  *)
(*   key index  stem -> bitmap of the subindices ever written, and a head  *)
(*              record (key_index.rs).  Also one transaction an operation. *)
(***************************************************************************)
EXTENDS TreeState, Integers, Sequences

CONSTANTS
    NoHead,         \* the store has no head record
    NomtHistory     \* commits that NOMT's rollback log keeps

ASSUME StoresAssumption == NomtHistory \in Nat

----------------------------------------------------------------------------
(* MDBX.  A block with no delta record has the EmptyPatch: load_block_deltas *)
(* returns the same empty vector for both.                                  *)

InsertOnlyStemsMutant(stems, dirty) == Overlaid(stems, dirty)
BatchUpdateStems(stems, dirty) == Overlaid(dirty, stems)

ComputeRoot(stems) == StateOf(stems)

BatchSaveStemAddresses(addrs, new) == addrs \cup new

InsertOnlyDeltasMutant(deltas, block, delta) ==
    IF deltas[block] # EmptyPatch THEN deltas
                                  ELSE [deltas EXCEPT ![block] = delta]
SaveBlockDeltas(deltas, block, delta) ==
    IF delta = EmptyPatch THEN deltas ELSE [deltas EXCEPT ![block] = delta]

DeleteBlockDeltas(deltas, block) == [deltas EXCEPT ![block] = EmptyPatch]

PruneAtOrBeforeMutant(deltas, block) ==
    [b \in DOMAIN deltas |-> IF b <= block THEN EmptyPatch ELSE deltas[b]]
PruneDeltasBefore(deltas, block) ==
    [b \in DOMAIN deltas |-> IF b < block THEN EmptyPatch ELSE deltas[b]]

----------------------------------------------------------------------------
(* The key index.  A record is created with at least one bit set, so a stem *)
(* without a record is a stem with an empty bitmap.                         *)

WrittenSubIndices(P, s) == {i \in SubIndex : P[s][i] # NoWrite}

ReplaceBitmapMutant(bitmap, P) ==
    [s \in Stem |-> IF s \in TouchedStems(P) THEN WrittenSubIndices(P, s)
                                             ELSE bitmap[s]]
ApplyUpdates(bitmap, P) ==
    [s \in Stem |-> bitmap[s] \cup WrittenSubIndices(P, s)]

IndexedStems(bitmap) == {s \in Stem : bitmap[s] # {}}

\* What apply_updates returns: how many records it created.
AllTouchedMutant(bitmap, P) == Cardinality(TouchedStems(P))
DifferenceMutant(bitmap, P) ==
    Cardinality(TouchedStems(P)) - Cardinality(IndexedStems(bitmap))
NewStems(bitmap, P) == Cardinality(TouchedStems(P) \ IndexedStems(bitmap))

----------------------------------------------------------------------------
(* NOMT.  A commit keeps what it replaced, for the last NomtHistory commits; *)
(* a rollback goes back a number of COMMITS, or fails and changes nothing.   *)

NomtRecord == [state : State, head : Nat]

KeepLast(log, n) ==
    IF Len(log) <= n THEN log ELSE SubSeq(log, Len(log) - n + 1, Len(log))

CommitLog(log, record) == KeepLast(Append(log, record), NomtHistory)

CanRollback(log, n) == 0 < n /\ n <= Len(log)

RollbackTarget(log, n) == log[Len(log) - n + 1]

RollbackLog(log, n) == SubSeq(log, 1, Len(log) - n)
=============================================================================
