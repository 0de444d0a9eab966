---------------------------- MODULE ChainTracker ----------------------------
(***************************************************************************)
(* What an execution extension promises, without stores and handlers: a    *)
(* state that follows a chain and is never seen between two of its blocks, *)
(* and a checkpoint to which it falls back when the process stops.         *)
(***************************************************************************)
EXTENDS Naturals, Sequences

CONSTANT StateAt(_)     \* the state after a chain; the genesis state after <<>>

VARIABLES
    tip,        \* the chain that has been followed
    shown,      \* the state that is shown
    savedTip,   \* the chain as of the last checkpoint
    saved,      \* the state at the checkpoint
    running

Init ==
    /\ tip = <<>> /\ shown = StateAt(<<>>)
    /\ savedTip = tip /\ saved = shown
    /\ running = TRUE

Follow(c) == tip' = c /\ shown' = StateAt(c) /\ UNCHANGED <<savedTip, saved, running>>

\* A segment of new blocks is taken in at once.
Extend ==
    /\ running
    /\ Len(tip') > Len(tip) /\ SubSeq(tip', 1, Len(tip)) = tip
    /\ Follow(tip')

\* The highest block is taken back.
Unwind == running /\ tip # <<>> /\ Follow(SubSeq(tip, 1, Len(tip) - 1))

Save ==
    /\ running
    /\ savedTip' = tip /\ saved' = shown
    /\ UNCHANGED <<tip, shown, running>>

Stop ==
    /\ running /\ running' = FALSE
    /\ tip' = savedTip /\ shown' = saved
    /\ UNCHANGED <<savedTip, saved>>

Start == ~running /\ running' = TRUE /\ UNCHANGED <<tip, shown, savedTip, saved>>

Next == Extend \/ Unwind \/ Save \/ Stop \/ Start

Spec == Init /\ [][Next]_<<tip, shown, savedTip, saved, running>>
=============================================================================
