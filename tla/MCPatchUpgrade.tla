---------------------------- MODULE MCPatchUpgrade ----------------------------
(* A small instance of PatchUpgrade for TLC. *)
EXTENDS PatchUpgrade, TLC

CONSTANTS f1

MCFilings == {f1}
=============================================================================
