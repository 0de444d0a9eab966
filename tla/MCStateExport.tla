--------------------------- MODULE MCStateExport ---------------------------
(***************************************************************************)
(* Instances of StateExport for TLC, with the stems and bodies of MCUbtExEx. *)
(***************************************************************************)
EXTENDS StateExport, MCUbtExEx

MCContract == {s1}

RpcKinds == {"state", "contract", "delta"}
CrashKinds == {"state", "mdbxState", "mdbxContract"}
StateKind == {"state"}
=============================================================================
