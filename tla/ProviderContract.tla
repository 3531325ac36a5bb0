-------------------------- MODULE ProviderContract --------------------------
(***************************************************************************)
(* What the filing workflow may rely on from the authority                 *)
(* (internal/authority/server.go): a ledger with one entry per operation   *)
(* id, deduplicated submissions, and a status lookup.  Throttling counters *)
(* are abstracted: a scenario that can refuse refuses any number of times, *)
(* and the ledger being unavailable looks to a caller like a lost reply.   *)
(***************************************************************************)
EXTENDS Domain

VARIABLE ledger     \* operation id -> [status, scenario]

LedgerStatuses == {"not_found", "processing"} \cup FinalStates
NoEntry == [status |-> "not_found", scenario |-> "ok"]

ProviderInit == ledger = [o \in OperationIDs |-> NoEntry]

Known(o) == ledger[o].status # "not_found"

Record(o, s, status) ==
  ledger' = [ledger EXCEPT ![o] = [status |-> status, scenario |-> s]]

statusFromOutcome(o) ==
  IF ledger[o].status = "rejected" THEN "rejected" ELSE "accepted"

(* A known operation keeps its original result.  Asking for it with another *)
(* scenario is a 409 whose body is not JSON: "ambiguous" to Client.Submit.  *)
SubmitKnown(o, s, reply) ==
  /\ Known(o)
  /\ reply = IF ledger[o].scenario = s THEN statusFromOutcome(o) ELSE "ambiguous"
  /\ UNCHANGED ledger

(* 429, or a 503 declared to have had no effect: a RetryableError. *)
SubmitRefused(o, s, reply) ==
  /\ ~Known(o)
  /\ s \in {"rate_limit", "rate_limit_exhausted", "transient_5xx"}
  /\ reply = "retryable"
  /\ UNCHANGED ledger

(* The first attempt of timeout_lost (504), or saveOrFailLocked's 500. *)
SubmitLost(o, s, reply) ==
  /\ reply = "ambiguous"
  /\ UNCHANGED ledger

SubmitRejected(o, s, reply) ==
  /\ ~Known(o)
  /\ s = "reject"
  /\ reply = "rejected"
  /\ Record(o, s, "rejected")

SubmitRecorded(o, s, reply) ==
  /\ ~Known(o)
  /\ s \notin {"reject", "rate_limit_exhausted"}
  /\ reply = "accepted"
  /\ Record(o, s, "processing")

(* handleSubmit, with the reply as Client.Submit reports it. *)
Submit(o, s, reply) ==
  \/ SubmitKnown(o, s, reply)
  \/ SubmitRefused(o, s, reply)
  \/ SubmitLost(o, s, reply)
  \/ SubmitRejected(o, s, reply)
  \/ SubmitRecorded(o, s, reply)

(* The goroutine of scheduleCompletion, up to the callback. *)
Complete(o) ==
  /\ ledger[o].status = "processing"
  /\ ledger' = [ledger EXCEPT ![o].status = "accepted"]

ProviderNext ==
  \E o \in OperationIDs :
    \/ \E s \in Scenarios, reply \in {"accepted", "rejected", "ambiguous", "retryable"} :
         Submit(o, s, reply)
    \/ Complete(o)

ProviderSpec == ProviderInit /\ [][ProviderNext]_ledger

LedgerTypeOK ==
  ledger \in [OperationIDs -> [status : LedgerStatuses, scenario : Scenarios \cup {"ok"}]]
=============================================================================
