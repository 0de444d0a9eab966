---------------------------- MODULE MCExportFiles ---------------------------
(***************************************************************************)
(* An instance of ExportFiles for TLC: a file with an index and one        *)
(* without, and exports of two blocks, the second shorter than the first.  *)
(***************************************************************************)
EXTENDS ExportFiles

CONSTANTS s1, s2, c1, c2, full, delta

LeafAt(s, i) == [stem |-> s, subindex |-> i]

MCContent ==
    [p \in {full, delta} |-> [b \in 1 .. 2 |->
        CASE p = full /\ b = 1  -> <<LeafAt(s1, 0), LeafAt(s1, 1), LeafAt(s2, 0)>>
          [] p = full /\ b = 2  -> <<LeafAt(s1, 1), LeafAt(s2, 0)>>
          [] p = delta /\ b = 1 -> <<LeafAt(s1, 0)>>
          [] OTHER              -> <<>>]]
=============================================================================
