------------------------- MODULE MCStateExtraction -------------------------
(***************************************************************************)
(* Instances of StateExtraction for TLC: an account, a contract of two     *)
(* chunks and a designator of one, a slot beyond the header stem, and      *)
(* balances on both sides of the cap.                                      *)
(***************************************************************************)
EXTENDS StateExtraction

CONSTANTS a1, a2, v1, contract, delegate

MCAccount == {a1}
MCStem == MCAccount \X {"account", "slots"} \X {0}
MCSubIndex == {0, 1, 70, 128, 129}
MCSlot == {70}
MCSlotValue == {v1}
MCBalance == {0, 2}
MCCode == {contract, delegate}
MCDesignator == {delegate}
MCChunkCount == [c \in MCCode |-> IF c = contract THEN 2 ELSE 1]

MCValue ==
    MCSlotValue
    \cup {CodeHash(c) : c \in MCCode}
    \cup {CodeChunk(c, n) : c \in MCCode, n \in 1 .. 2}
    \cup ({BasicData(b, n) : b \in 0 .. 1, n \in 0 .. 2} \ {Zero})
=============================================================================
