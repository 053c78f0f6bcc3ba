---------------------------- MODULE Workspace_MC ----------------------------
(* Two clients and two statements that share a transaction, one of them     *)
(* scanned.                                                                 *)
EXTENDS Workspace, TLC

CONSTANTS acme, birla, typed, sheet, scan, k1, k2

MCContents == sheet :> <<k1>> @@ scan :> <<k2, k1>>
MCSymmetry == Permutations(Clients)
=============================================================================
