------------------------------- MODULE Domain -------------------------------
(***************************************************************************)
(* The vocabulary every component shares (internal/domain/types.go): one   *)
(* filing is one (filing_id, tax_year) pair, and its workflow, its         *)
(* provider operation and its command keys are all derived from that pair, *)
(* which is what makes redelivery and reconstruction converge.             *)
(***************************************************************************)
EXTENDS Naturals

CONSTANTS Filings,      \* the (filing_id, tax_year) pairs
          Scenarios,    \* the authority scenarios in use
          NoOperation   \* SQL NULL: no provider operation id

AllScenarios ==
  {"ok", "delayed", "reject", "rate_limit", "rate_limit_exhausted",
   "transient_5xx", "timeout_lost", "timeout_ambiguous", "dup_callback",
   "late_callback", "no_callback_done"}

(* fmt.Sprintf("filing-%s-y%d", ...) is injective: the year is what follows *)
(* the last "-y".  Both identities are the same string.                     *)
WorkflowID(f) == <<"filing", f>>
ProviderOperationID(f) == <<"filing", f>>
OperationIDs == {ProviderOperationID(f) : f \in Filings}

SubmittedCommandKey(w) == <<w, "submitted">>
OutcomeCommandKey(w) == <<w, "outcome">>
ReviewCommandKey(w) == <<w, "needs-review">>
SubmissionIntentCommandKey(o) == <<o, "submission-intent">>

CommandKeys ==
  OperationIDs \X {"submitted", "outcome", "needs-review", "submission-intent"}

FinalStates == {"accepted", "rejected"}
FilingStates ==
  {"ready", "submitting", "submitted", "needs_review"} \cup FinalStates

ASSUME DomainAssumption == /\ Scenarios \subseteq AllScenarios
                           /\ NoOperation \notin OperationIDs
=============================================================================
