----------------------------- MODULE MCMdbxTxn ------------------------------
(***************************************************************************)
(* An instance of MdbxTxn for TLC: two clients, two stems of one leaf, two  *)
(* blocks.  Batches overlap, one clears what the other wrote, and a stem is *)
(* saved under two addresses.                                               *)
(***************************************************************************)
EXTENDS MdbxTxn, TLC

CONSTANTS s1, s2, v1, a1, a2, h1, c1, c2

MCStem == {s1, s2}
MCSubIndex == {0}
MCBlock == 1 .. 2

MCNode(v) == [i \in MCSubIndex |-> v]
MCPatch == [s \in MCStem |-> [i \in MCSubIndex |-> IF s = s1 THEN v1 ELSE NoWrite]]
Pairs(f) == f @@ [s \in MCStem |-> NoAddress]

MCAsked ==
    { Open,
      UpdateStems(s1 :> MCNode(v1) @@ s2 :> MCNode(v1)),
      UpdateStems(s1 :> MCNode(Zero) @@ s2 :> NoNode),
      UpdateStems(EmptyTable),
      SaveAddresses(s1 :> a1 @@ s2 :> a2),
      SaveAddresses(Pairs(s1 :> a2)),
      SaveAddress(Pairs(s2 :> a2)),
      SaveHead(h1),
      SaveDeltas(1, MCPatch), SaveDeltas(2, MCPatch),
      DeleteDeltas(1), PruneDeltas(2), DeleteAfter(1),
      IterStems, LoadStem(s1), LoadAddress(s1), LoadHead, LoadDeltas(1) }
=============================================================================
