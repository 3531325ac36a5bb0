-------------------------- MODULE MCFilingWorkflow --------------------------
(* Small instances of FilingWorkflow for TLC. *)
EXTENDS FilingWorkflow, TLC

CONSTANTS f1

MCFilings == {f1}
=============================================================================
