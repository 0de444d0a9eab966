----------------------------- MODULE DocClaims -----------------------------
(***************************************************************************)
(* What the documentation, the log lines and the tests of the repository   *)
(* say of the ExEx and the code does not keep.  Each is refuted by one run. *)
(***************************************************************************)
EXTENDS UbtExEx

\* "State deltas are stored per-block, allowing reverts to restore previous
\* values" (ubt_exex.rs, module doc): whatever segment is unwound, what the
\* ExEx then shows is the state after the block that is now the tip.
RevertsRestore == pc = "idle" => View = StateAt(chain)

\* "Get the last persisted head for ExEx resumption" (ubt_exex.rs, get_head): the
\* number and the hash that the node is asked to resume from name one block.
ResumeHeadIsABlock ==
    (pc \notin Stopped /\ lastPersistedBlock > 0)
        => lastPersistedBlock = Len(lastPersistedHash)
=============================================================================
