-------------------------- MODULE MCSecondExecution --------------------------
(* Small instances of SecondExecution for TLC. *)
EXTENDS SecondExecution, TLC

CONSTANTS f1

MCFilings == {f1}
=============================================================================
