-------------------------- MODULE MCReconciliation --------------------------
(* Small instances of Reconciliation for TLC. *)
EXTENDS Reconciliation, TLC

CONSTANTS f1

MCFilings == {f1}
ReconciliationDetails ==
  WorkflowDetails \cup {ReconcilerDetail(r) : r \in {"scheduled", "operator"}}
=============================================================================
