--------------------------- MODULE UbtRefinement ---------------------------
(***************************************************************************)
(* UbtExEx implements ChainTracker, as long as one notification brings one *)
(* new block and the process stops only where its stores fit together.     *)
(***************************************************************************)
EXTENDS UbtExEx

\* What the tree has followed so far: revert counts the old blocks down, and
\* commit takes the new ones in when it has written the overlay.
Followed ==
    CASE pc \in {"revertNomt", "revertBlock"} -> SubSeq(lastHash, 1, job.hi)
      [] pc \in {"commitIndex", "commitDeltas"} -> chain
      [] pc \in Stopped -> LoadedHead.hash
      [] OTHER -> lastHash

\* A checkpoint is made by the write of the stems; the head follows.
Checkpointed == IF pc \in TornSteps THEN lastHash ELSE LoadedHead.hash

Tracker == INSTANCE ChainTracker WITH
    tip <- Followed,
    shown <- View,
    savedTip <- Checkpointed,
    saved <- StateOf(mdbxStems),
    running <- pc \notin Stopped

\* Whatever step of whatever handler comes next, overlay and MDBX together show
\* the state after some whole chain: a commit becomes visible at once and in
\* full, a revert one block at a time, and a stop falls back to the checkpoint
\* and not to a mixture of it with later blocks (ubt_exex.rs, get_stem, commit,
\* revert and new).
FollowsTracker == Tracker!Spec
=============================================================================
