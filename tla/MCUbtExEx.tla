----------------------------- MODULE MCUbtExEx -----------------------------
(***************************************************************************)
(* Instances of UbtExEx for TLC: two stems of two leaves, and bodies that   *)
(* create a stem, overwrite and add leaves, clear a leaf, and leave the     *)
(* tree as it is when they come again.                                      *)
(***************************************************************************)
EXTENDS DocClaims, UbtRefinement, TLC

CONSTANTS s1, s2, v1, v2

MCStem == {s1, s2}
MCSubIndex == {0, 1}
MCValue == {v1, v2}
MCBody == {"create", "update", "clear"}
MCTwoBodies == {"update", "clear"}

Write(leaves) ==
    [s \in MCStem |-> [i \in MCSubIndex |->
        IF <<s, i>> \in DOMAIN leaves THEN leaves[<<s, i>>] ELSE NoWrite]]

MCWrites ==
    [b \in Body |->
        CASE b = "create" -> Write(<<s1, 0>> :> v1)
          [] b = "update" -> Write(<<s1, 0>> :> v2 @@ <<s1, 1>> :> v1)
          [] b = "clear"  -> Write(<<s1, 0>> :> Zero @@ <<s2, 0>> :> v1)]

\* Crashes after which the three stores still fit together: before and after
\* every write of a commit but the head of the flush, and before a revert.
SafeCrashPoint == {"idle", "revertNomt", "shutStems"} \cup (CommitSteps \ TornSteps)
AnyCrashPoint == PC \ Stopped
NoCrashPoint == {}
RevertCrashPoint == {"revertBlock"}
=============================================================================
