----------------------------- MODULE MdbxCalls ------------------------------
(***************************************************************************)
(* The calls of UbtDatabase (persistence.rs): what each is asked, what it  *)
(* leaves in the tables and what it reads of them.                         *)
(***************************************************************************)
EXTENDS Stores

CONSTANTS
    Client,     \* threads that call: the ExEx, and tasks of the RPC server
    Block,      \* block numbers
    HeadRecord, \* head records
    Address,    \* addresses that a stem can be derived from
    NoAddress,  \* no address on record for the stem
    Asked       \* the calls that are made

AddressTable == [Stem -> Address \cup {NoAddress}]
KnownStems(A) == {s \in Stem : A[s] # NoAddress}

ReadOps == {"loadStems", "loadAddress", "loadHead", "loadDeltas"}
WriteOps == {"open", "updateStems", "saveAddress", "saveAddresses", "saveHead",
             "saveDeltas", "deleteDeltas", "pruneDeltas", "deleteAfter"}

\* A call with its arguments; a field that the call does not take is blank.
Request == [op : ReadOps \cup WriteOps, table : Table, addrs : AddressTable,
            stems : SUBSET Stem, head : HeadRecord \cup {NoHead}, block : Block, patch : Patch]

ASSUME MdbxAssumption ==
    /\ NoHead \notin HeadRecord
    /\ NoAddress \notin Address
    /\ Block \subseteq Nat /\ Block # {}
    /\ Asked \subseteq Request
    /\ \A r \in Asked : r.op = "saveDeltas" => r.patch # EmptyPatch \* as commit has it

Blank == [op |-> "open", table |-> EmptyTable, addrs |-> [s \in Stem |-> NoAddress],
          stems |-> {}, head |-> NoHead, block |-> CHOOSE b \in Block : TRUE,
          patch |-> EmptyPatch]

Open                 == Blank
UpdateStems(table)   == [Blank EXCEPT !.op = "updateStems", !.table = table]
SaveAddress(addrs)   == [Blank EXCEPT !.op = "saveAddress", !.addrs = addrs]
SaveAddresses(addrs) == [Blank EXCEPT !.op = "saveAddresses", !.addrs = addrs]
SaveHead(head)       == [Blank EXCEPT !.op = "saveHead", !.head = head]
SaveDeltas(block, patch) ==
    [Blank EXCEPT !.op = "saveDeltas", !.block = block, !.patch = patch]
DeleteDeltas(block)  == [Blank EXCEPT !.op = "deleteDeltas", !.block = block]
PruneDeltas(block)   == [Blank EXCEPT !.op = "pruneDeltas", !.block = block]
DeleteAfter(block)   == [Blank EXCEPT !.op = "deleteAfter", !.block = block]
LoadStem(stem)       == [Blank EXCEPT !.op = "loadStems", !.stems = {stem}]
IterStems            == [Blank EXCEPT !.op = "loadStems", !.stems = Stem]
LoadAddress(stem)    == [Blank EXCEPT !.op = "loadAddress", !.stems = {stem}]
LoadHead             == [Blank EXCEPT !.op = "loadHead"]
LoadDeltas(block)    == [Blank EXCEPT !.op = "loadDeltas", !.block = block]

----------------------------------------------------------------------------
Tables == [stems : Table, addrs : SUBSET Stem, head : HeadRecord \cup {NoHead},
           deltas : [Block -> Patch]]

NoTables == [stems |-> EmptyTable, addrs |-> {}, head |-> NoHead,
             deltas |-> [b \in Block |-> EmptyPatch]]

DeleteDeltasAfter(deltas, block) ==
    [b \in DOMAIN deltas |-> IF b > block THEN EmptyPatch ELSE deltas[b]]

\* The tables after a call, in the terms of Stores.
Written(db, r) ==
    CASE r.op = "updateStems" ->
            [db EXCEPT !.stems = BatchUpdateStems(db.stems, r.table)]
      [] r.op \in {"saveAddress", "saveAddresses"} ->
            [db EXCEPT !.addrs = BatchSaveStemAddresses(db.addrs, KnownStems(r.addrs))]
      [] r.op = "saveHead" ->
            [db EXCEPT !.head = r.head]
      [] r.op = "saveDeltas" ->
            [db EXCEPT !.deltas = SaveBlockDeltas(db.deltas, r.block, r.patch)]
      [] r.op = "deleteDeltas" ->
            [db EXCEPT !.deltas = DeleteBlockDeltas(db.deltas, r.block)]
      [] r.op = "pruneDeltas" ->
            [db EXCEPT !.deltas = PruneDeltasBefore(db.deltas, r.block)]
      [] r.op = "deleteAfter" ->
            [db EXCEPT !.deltas = DeleteDeltasAfter(db.deltas, r.block)]
      [] OTHER -> db

\* What a call reads of the tables.
Read(db, r) ==
    [stems  |-> [s \in Stem |-> IF r.op = "loadStems" /\ s \in r.stems
                                THEN db.stems[s] ELSE NoNode],
     addrs  |-> IF r.op = "loadAddress" THEN db.addrs \cap r.stems ELSE {},
     head   |-> IF r.op = "loadHead" THEN db.head ELSE NoHead,
     deltas |-> [b \in Block |-> IF r.op = "loadDeltas" /\ b = r.block
                                 THEN db.deltas[b] ELSE EmptyPatch]]
=============================================================================
