-------------------------- MODULE RevertibleState --------------------------
(***************************************************************************)
(* What commits and reverts promise, without stores, nodes or lists: a     *)
(* state, and the states before the blocks that may still be reverted.     *)
(***************************************************************************)
EXTENDS Naturals, Sequences

CONSTANT State

VARIABLES
    shown,  \* the state
    past    \* the state before each of those blocks, lowest first

Init == shown \in State /\ past = <<>>

\* A block makes any state of the one there is.
Apply ==
    /\ shown' \in State
    /\ past' = Append(past, shown)

\* Reverting the highest block gives back the state before it.
Undo ==
    /\ past # <<>>
    /\ shown' = past[Len(past)]
    /\ past' = SubSeq(past, 1, Len(past) - 1)

\* The lowest block can no longer be reverted.
Forget ==
    /\ past # <<>>
    /\ past' = Tail(past)
    /\ UNCHANGED shown

Next == Apply \/ Undo \/ Forget

Spec == Init /\ [][Next]_<<shown, past>>
=============================================================================
