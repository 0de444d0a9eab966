-------------------------- MODULE StateExtraction --------------------------
(***************************************************************************)
(* From a block to the leaves of the tree: the node executes a block on    *)
(* its accounts and hands over a bundle of what changed, process_chain     *)
(* turns the bundle into entries, and commit writes them (BlockDeltas).    *)
(* Blocks are also unwound, accounts and tree together.                    *)
(*                                                                         *)
(* An account has a balance (which stands for the nonce too, copied the    *)
(* same way), a code and slots.                                            *)
(***************************************************************************)
EXTENDS BlockDeltas

CONSTANTS
    Account, Slot, SlotValue,
    Balance,        \* the balances that accounts may have
    MaxU128,        \* u128::MAX
    Code,           \* contract codes
    Designator,     \* the codes that only delegate to another account (EIP-7702)
    ChunkCount,     \* code -> number of its 31-byte chunks
    NoCode,         \* the empty code, whose hash is KECCAK_EMPTY
    NoInfo,         \* the info of a destroyed account
    MaxPast         \* blocks that may still be unwound

ASSUME ExtractionAssumption ==
    /\ Slot \subseteq Nat /\ IsFiniteSet(Slot) /\ SlotValue \subseteq Value
    /\ Balance \subseteq Nat /\ 0 \in Balance /\ MaxU128 \in Nat
    /\ Designator \subseteq Code /\ NoCode \notin Code
    /\ ChunkCount \in [Code -> Nat \ {0}]

VARIABLES
    world,      \* the accounts of the node
    worlds      \* the accounts before each block that can be unwound

pipelineVars == <<loopVars, world, worlds>>

----------------------------------------------------------------------------
(* The keys of the tree, from the ubt crate: a position, of the account or   *)
(* among its higher slots, is a leaf of the stem of its 256 positions.       *)
TreeKey(a, zone, position) == <<<<a, zone, position \div 256>>, position % 256>>

BasicDataKey(a) == TreeKey(a, "account", 0)
CodeHashKey(a) == TreeKey(a, "account", 1)
CodeChunkKey(a, n) == TreeKey(a, "account", 127 + n)
StorageSlotKey(a, slot) ==
    IF slot < 64 THEN TreeKey(a, "account", 64 + slot) ELSE TreeKey(a, "slots", slot)

\* The values of the leaves.  Basic data that is all zero is the zero leaf.
BasicData(balance, size) ==
    IF balance = 0 /\ size = 0 THEN Zero ELSE <<"basic", balance, size>>
CodeHash(c) == <<"hash", c>>
CodeChunk(c, n) == <<"chunk", c, n>>

UncappedMutant(b) == b
BalanceToU128(b) == IF b > MaxU128 THEN MaxU128 ELSE b

\* The size of a code, counted in chunks.
SizeOf(c) == IF c = NoCode THEN 0 ELSE ChunkCount[c]

----------------------------------------------------------------------------
(* The node.  Its bundle says of a changed account: the info after the       *)
(* block, or none if the account was destroyed; whether the code came with   *)
(* it, as it does when it ran or was set; and the slots that were written.   *)

AccountState == [alive : BOOLEAN, balance : Balance, code : Code \cup {NoCode},
                 slots : [Slot -> SlotValue \cup {Zero}],
                 destroyed : BOOLEAN]   \* ever, at this address

Nobody(destroyed) ==
    [alive |-> FALSE, balance |-> 0, code |-> NoCode,
     slots |-> [n \in Slot |-> Zero], destroyed |-> destroyed]

\* The keys that are used are leaves of the tree, and so are the values.
ASSUME LeavesAssumption ==
    /\ NoInfo \notin AccountState
    /\ \A a \in Account :
        /\ BasicDataKey(a) \in Stem \X SubIndex /\ CodeHashKey(a) \in Stem \X SubIndex
        /\ \A c \in Code : \A n \in 1 .. ChunkCount[c] :
            CodeChunkKey(a, n) \in Stem \X SubIndex
        /\ \A slot \in Slot : StorageSlotKey(a, slot) \in Stem \X SubIndex
    /\ \A b \in 0 .. MaxU128 : \A c \in Code \cup {NoCode} :
        BasicData(b, 0) \in Leaf /\ BasicData(b, SizeOf(c)) \in Leaf
    /\ \A c \in Code : CodeHash(c) \in Leaf
    /\ \A c \in Code : \A n \in 1 .. ChunkCount[c] : CodeChunk(c, n) \in Leaf

BundleAccount(info, loaded, written) ==
    [info |-> info, loaded |-> loaded, written |-> written]

\* Only the balance changes, by a withdrawal or a fee or between accounts without
\* code: no code is loaded, and none comes along.
Paid(x) ==
    {BundleAccount([x EXCEPT !.alive = TRUE, !.balance = b], FALSE, {}) :
        b \in Balance \ {x.balance}}

\* A contract may be created where there is neither code nor a slot; an account
\* without a contract may delegate, or end its delegation.
NextCodes(x) ==
    CASE x.code = NoCode       -> IF x.slots = Nobody(FALSE).slots THEN Code ELSE Designator
      [] x.code \in Designator -> Designator \cup {NoCode}
      [] OTHER                 -> {x.code}

\* Code is set, or runs, and writes slots.
RunTo(x, code, slots) ==
    BundleAccount([x EXCEPT !.alive = TRUE, !.code = code, !.slots = slots], TRUE,
                  {n \in Slot : slots[n] # x.slots[n]})

Ran(x) == {RunTo(x, c, w) : c \in NextCodes(x), w \in [Slot -> SlotValue \cup {Zero}]}

\* The bundle does not list the slots that a destroyed account had.
Destroyed(x) == IF x.alive THEN {BundleAccount(NoInfo, FALSE, {})} ELSE {}

Changes(x) == Paid(x) \cup Ran(x) \cup Destroyed(x)

AccountAfter(change) == IF change.info = NoInfo THEN Nobody(TRUE) ELSE change.info

----------------------------------------------------------------------------
(* process_chain                                                             *)

Entry(key, value) == [stem |-> key[1], subindex |-> key[2], value |-> value]

\* The size is that of the code that came along, and zero if none did.
BasicEntry(a, change) ==
    Entry(BasicDataKey(a),
          BasicData(BalanceToU128(change.info.balance),
                    IF change.loaded THEN SizeOf(change.info.code) ELSE 0))

OneChunkShortMutant(a, change) ==
    IF change.loaded
    THEN [n \in 1 .. SizeOf(change.info.code) - 1 |->
             Entry(CodeChunkKey(a, n), CodeChunk(change.info.code, n))]
    ELSE <<>>
ChunkEntries(a, change) ==
    IF change.loaded
    THEN [n \in 1 .. SizeOf(change.info.code) |->
             Entry(CodeChunkKey(a, n), CodeChunk(change.info.code, n))]
    ELSE <<>>

CodeEntries(a, change) ==
    IF change.info.code = NoCode THEN <<>>
    ELSE <<Entry(CodeHashKey(a), CodeHash(change.info.code))>> \o ChunkEntries(a, change)

InfoEntries(a, change) ==
    IF change.info = NoInfo THEN <<>>
    ELSE <<BasicEntry(a, change)>> \o CodeEntries(a, change)

\* The slots come in the order of a hash map; the other leaves do not depend on it.
SlotEntries(a, change, order) ==
    [n \in 1 .. Len(order) |->
        Entry(StorageSlotKey(a, order[n]), change.info.slots[order[n]])]

ExtractedEntries(a, change, order) ==
    InfoEntries(a, change) \o SlotEntries(a, change, order)

Orders(S) ==
    {q \in [1 .. Cardinality(S) -> S] :
        \A n \in S : \E k \in DOMAIN q : \A j \in DOMAIN q : q[j] = n <=> j = k}

----------------------------------------------------------------------------
PipelineInit ==
    /\ LoopInit
    /\ world = [a \in Account |-> Nobody(FALSE)]
    /\ worlds = <<>>

\* Blocks change one account: the entries of two accounts share no leaf.
ChainCommitted ==
    /\ Len(saved) < MaxPast
    /\ \E a \in Account : \E change \in Changes(world[a]) :
        \E order \in Orders(change.written) :
            /\ BeginCommit(ExtractedEntries(a, change, order))
            /\ world' = [world EXCEPT ![a] = AccountAfter(change)]
            /\ worlds' = Append(worlds, world)

ChainReverted ==
    /\ BeginRevert
    /\ world' = LastOf(worlds)
    /\ worlds' = FrontOf(worlds)

OldestForgotten == Forget /\ worlds' = Tail(worlds) /\ UNCHANGED world

PipelineNext ==
    \/ ChainCommitted \/ ChainReverted \/ OldestForgotten
    \/ (CommitEntry \/ EndCommit \/ Flush \/ RevertDelta \/ EndRevert)
        /\ UNCHANGED <<world, worlds>>

PipelineSpec == PipelineInit /\ [][PipelineNext]_pipelineVars

----------------------------------------------------------------------------
(* Properties.                                                               *)

Shows(key) == Shown[key[1]][key[2]]

\* Between two notifications the tree has, of every account that exists: its
\* balance, capped at 128 bits, with its code size or none; its code hash and
\* every chunk of its code, if it has one; and every slot, unless an account at
\* this address was ever destroyed.  It holds after any blocks and reverts.
LivingLeavesExact ==
    phase = "idle" =>
        \A a \in Account : world[a].alive =>
            /\ \E size \in {0, SizeOf(world[a].code)} :
                Shows(BasicDataKey(a)) = BasicData(BalanceToU128(world[a].balance), size)
            /\ world[a].code # NoCode =>
                /\ Shows(CodeHashKey(a)) = CodeHash(world[a].code)
                /\ \A n \in 1 .. ChunkCount[world[a].code] :
                    Shows(CodeChunkKey(a, n)) = CodeChunk(world[a].code, n)
            /\ ~world[a].destroyed =>
                \A n \in Slot : Shows(StorageSlotKey(a, n)) = world[a].slots[n]

\* "Account basic data (nonce, balance, code size)" (README.md): of every account
\* that exists, the tree has the balance and the size of its code.
BasicDataExact ==
    phase = "idle" =>
        \A a \in Account : world[a].alive =>
            Shows(BasicDataKey(a)) =
                BasicData(BalanceToU128(world[a].balance), SizeOf(world[a].code))
=============================================================================
