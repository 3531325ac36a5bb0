--------------------------- MODULE FilingWorkflow ---------------------------
(***************************************************************************)
(* The filing workflow (internal/workflow/filing.go, Filing) run by the    *)
(* DBOS runtime against Accountable and the authority.                     *)
(*                                                                         *)
(* A workflow is a sequence of steps.  A step sends one HTTP request,      *)
(* waits for the answer, and checkpoints it; the checkpoints decide where  *)
(* a recovered execution goes on, so wf[f] is durable, and running and     *)
(* call are what a crash of the worker loses.  A request whose caller      *)
(* crashed or timed out is not withdrawn: it stays in latePosts or         *)
(* lateCommands and may still be served at any later time.                 *)
(***************************************************************************)
EXTENDS Accountable, ProviderContract

CONSTANTS StepRetries,        \* dbos.WithStepMaxRetries, 5 in the code
          StatusPolls,        \* Config.StatusPolls, 3 by default
          MaxRecovery,        \* dbos.WithMaxRetries, 20 in cmd/worker
          MaxResumes,         \* bound: operator resumes of one workflow
          MaxLosses,          \* bound: losses of the whole DBOS database
          OperatorOutcomes,   \* what an operator may send for a workflow
          NoMessage

VARIABLES wf,             \* filing -> its row and checkpoints in the DBOS database
          mailbox,        \* filing -> the oldest message on CallbackTopic
          running,        \* filing -> a worker is executing the workflow
          call,           \* filing -> the HTTP call of the current step
          latePosts,      \* submissions whose caller no longer listens
          lateCommands,   \* commands whose caller no longer listens
          asserted,       \* history: filing -> outcomes an operator asserted
          resumes, losses \* counters for the bounds

runtimeVars == <<wf, mailbox, running, call>>
lateVars == <<latePosts, lateCommands>>
operatorVars == <<asserted, resumes, losses>>
vars == <<filings, commands, reseeded, ledger, wf, mailbox, running, call,
          latePosts, lateCommands, asserted, resumes, losses>>

-----------------------------------------------------------------------------
ReadSteps    == {"validate", "reconcileFinal"}
StatusSteps  == {"findExisting", "resolveAmbiguous", "pollStatus"}
PostSteps    == {"submit", "resubmit"}
CommandSteps == {"prepare", "markSubmitted", "record", "recordFinal"}
Steps == ReadSteps \cup StatusSteps \cup PostSteps \cup CommandSteps

(* The reply that records a rejection has this detail; a duplicate of the   *)
(* submission answers with none.                                            *)
RejectionDetails == {"", "permanent validation failure"}
WorkflowDetails ==
  RejectionDetails \cup
  {"adopted completed submission", "resolved after ambiguous submit",
   "submit retries exhausted", "submit refused by DBOS",
   "via callback", "via operator",
   "via status poll", "no callback and authority still processing"}

ASSUME WorkflowAssumption ==
  /\ WorkflowDetails \subseteq Details
  /\ StepRetries \in Nat /\ MaxRecovery \in Nat
  /\ StatusPolls \in Nat \ {0}
  /\ MaxResumes \in Nat /\ MaxLosses \in Nat

ASSUME MessageAssumption ==
  NoMessage \notin [outcome : OperatorOutcomes \cup {"accepted"},
                     detail : {"via callback", "via operator"}]

(* opsctl send -outcome accepted|rejected: already_final is a result that    *)
(* only the workflow itself has.                                            *)
ASSUME OperatorAssumption == "already_final" \notin OperatorOutcomes

Ended == {"SUCCESS", "ERROR", "CANCELLED", "MAX_RECOVERY_ATTEMPTS_EXCEEDED"}

NoRun == [status |-> "absent", pc |-> "validate", scenario |-> "ok",
          snap |-> "absent", outcome |-> "", detail |-> "", polls |-> 0,
          attempts |-> 0]
Idle == [phase |-> "idle", answer |-> "", tries |-> 0]

Init ==
  /\ AccountableInit
  /\ ProviderInit
  /\ wf = [f \in Filings |-> NoRun]
  /\ mailbox = [f \in Filings |-> NoMessage]
  /\ running = [f \in Filings |-> FALSE]
  /\ call = [f \in Filings |-> Idle]
  /\ latePosts = {} /\ lateCommands = {}
  /\ asserted = [f \in Filings |-> {}]
  /\ resumes = 0 /\ losses = 0

mapOutcome(outcome) ==
  IF outcome \in FinalStates THEN outcome ELSE "needs_review"

(* The request the current step sends.  A submission carries no step: the    *)
(* field is a history of where it was sent.                                 *)
Post(f) == [filing |-> f, scenario |-> wf[f].scenario, step |-> wf[f].pc]
Command(f) ==
  CASE wf[f].pc = "prepare"       -> PrepareRequest(f, ProviderOperationID(f))
    [] wf[f].pc = "markSubmitted" -> SubmittedRequest(f)
    [] OTHER -> OutcomeRequest(f, mapOutcome(wf[f].outcome), wf[f].detail)

InFlight(f) == running[f] /\ call[f].phase = "sent"

(* The requests in flight of the filings in F lose their caller. *)
Abandon(F) ==
  /\ latePosts' = latePosts \cup
       {Post(f) : f \in {g \in F : InFlight(g) /\ wf[g].pc \in PostSteps}}
  /\ lateCommands' = lateCommands \cup
       {Command(f) : f \in {g \in F : InFlight(g) /\ wf[g].pc \in CommandSteps}}

-----------------------------------------------------------------------------
(* Starts and the life of an execution (DBOS, as cmd/worker and cmd/opsctl  *)
(* configure and drive it).                                                 *)

(* A filing is entered once; resetting it is left to module Accountable. *)
SeedFiling(f, s) ==
  /\ filings[f].state = "absent"
  /\ PutFiling(f, s)
  /\ UNCHANGED <<ledger, runtimeVars, lateVars, operatorVars>>

(* RunWorkflow or Enqueue under the filing's workflow id: only the first    *)
(* one makes a row.                                                         *)
Enqueue(f, s) ==
  /\ wf[f].status = "absent"
  /\ wf' = [wf EXCEPT ![f] = [NoRun EXCEPT !.status = "ENQUEUED", !.scenario = s]]
  /\ UNCHANGED <<accountableVars, ledger, mailbox, running, call, lateVars, operatorVars>>

(* A worker dequeues the workflow, or recovers it after a crash. *)
Begin(f) ==
  /\ wf[f].status \in {"ENQUEUED", "PENDING"}
  /\ ~running[f]
  /\ IF wf[f].attempts <= MaxRecovery
       THEN /\ wf' = [wf EXCEPT ![f].status = "PENDING", ![f].attempts = @ + 1]
            /\ running' = [running EXCEPT ![f] = TRUE]
       ELSE /\ wf' = [wf EXCEPT ![f].status = "MAX_RECOVERY_ATTEMPTS_EXCEEDED"]
            /\ UNCHANGED running
  /\ UNCHANGED <<accountableVars, ledger, mailbox, call, lateVars, operatorVars>>

(* An execution that is not between steps of a cancelled workflow. *)
Active(f) == running[f] /\ wf[f].status # "CANCELLED"

(* DBOS refuses to start the next step of a cancelled workflow; what a step *)
(* already in flight does still takes effect and is checkpointed.  At       *)
(* submit and dbos.Recv the workflow swallows the refusal, and is refused   *)
(* at the step after that unless it has been resumed meanwhile: see         *)
(* SecondExecution.                                                         *)
StopCancelled(f) ==
  /\ running[f] /\ wf[f].status = "CANCELLED" /\ call[f].phase = "idle"
  /\ running' = [running EXCEPT ![f] = FALSE]
  /\ UNCHANGED <<accountableVars, ledger, wf, mailbox, call, lateVars, operatorVars>>

(* The worker process is killed: every execution and its calls are gone. *)
Crash ==
  /\ \E f \in Filings : running[f]
  /\ Abandon(Filings)
  /\ running' = [f \in Filings |-> FALSE]
  /\ call' = [f \in Filings |-> Idle]
  /\ UNCHANGED <<accountableVars, ledger, wf, mailbox, operatorVars>>

Cancel(f) ==
  /\ wf[f].status \in {"ENQUEUED", "PENDING"}
  /\ wf' = [wf EXCEPT ![f].status = "CANCELLED"]
  /\ UNCHANGED <<accountableVars, ledger, mailbox, running, call, lateVars, operatorVars>>

Resume(f) ==
  /\ resumes < MaxResumes
  /\ wf[f].status \in {"CANCELLED", "MAX_RECOVERY_ATTEMPTS_EXCEEDED"}
  /\ wf' = [wf EXCEPT ![f].status = "ENQUEUED", ![f].attempts = 0]
  /\ resumes' = resumes + 1
  /\ UNCHANGED <<accountableVars, ledger, mailbox, running, call, lateVars,
                 asserted, losses>>

(* The DBOS database is lost as a whole (scenarios/dbos-database-loss.sh). *)
LoseRuntime ==
  /\ losses < MaxLosses
  /\ \E f \in Filings : wf[f].status # "absent"
  /\ Abandon(Filings)
  /\ wf' = [f \in Filings |-> NoRun]
  /\ mailbox' = [f \in Filings |-> NoMessage]
  /\ running' = [f \in Filings |-> FALSE]
  /\ call' = [f \in Filings |-> Idle]
  /\ losses' = losses + 1
  /\ UNCHANGED <<accountableVars, ledger, asserted, resumes>>

-----------------------------------------------------------------------------
(* One step: send, serve, give up, retry or fail. *)

Send(f) ==
  /\ Active(f) /\ wf[f].pc \in Steps /\ call[f].phase = "idle"
  /\ call' = [call EXCEPT ![f].phase = "sent"]
  /\ UNCHANGED <<accountableVars, ledger, wf, mailbox, running, lateVars, operatorVars>>

Answer(f, a) ==
  /\ call' = [call EXCEPT ![f].phase = "answered", ![f].answer = a]
  /\ UNCHANGED <<wf, mailbox, running, lateVars, operatorVars>>

(* GET /filings/{id} *)
HandleGetFiling(f) ==
  /\ InFlight(f) /\ wf[f].pc \in ReadSteps
  /\ Answer(f, IF filings[f].state = "absent" THEN "error" ELSE filings[f].state)
  /\ UNCHANGED <<accountableVars, ledger>>

(* GET /submissions/{id}: a completed operation answers its outcome. *)
HandleStatus(f) ==
  /\ InFlight(f) /\ wf[f].pc \in StatusSteps
  /\ Answer(f, ledger[ProviderOperationID(f)].status)
  /\ UNCHANGED <<accountableVars, ledger>>

(* POST /submissions *)
HandleSubmit(f) ==
  /\ InFlight(f) /\ wf[f].pc \in PostSteps
  /\ \E reply \in {"accepted", "rejected", "ambiguous", "retryable"} :
       /\ Submit(ProviderOperationID(f), wf[f].scenario, reply)
       /\ Answer(f, reply)
  /\ UNCHANGED accountableVars

(* POST /commands *)
HandleCommand(f) ==
  /\ InFlight(f) /\ wf[f].pc \in CommandSteps
  /\ \/ ApplyCommand(Command(f)) /\ Answer(f, "ok")
     \/ Refused(Command(f)) /\ Answer(f, "error") /\ UNCHANGED accountableVars
  /\ UNCHANGED ledger

(* An abandoned request is served after all; nobody reads the reply. *)
HandleLatePost(p) ==
  /\ p \in latePosts
  /\ \E reply \in {"accepted", "rejected", "ambiguous", "retryable"} :
       Submit(ProviderOperationID(p.filing), p.scenario, reply)
  /\ UNCHANGED <<accountableVars, runtimeVars, lateVars, operatorVars>>

HandleLateCommand(req) ==
  /\ req \in lateCommands
  /\ ApplyCommand(req)
  /\ UNCHANGED <<ledger, runtimeVars, lateVars, operatorVars>>

(* The client times out or the connection breaks, before the request is     *)
(* served or after: Client.Submit calls it ambiguous, every other call      *)
(* fails.                                                                   *)
GiveUp(f) ==
  /\ running[f] /\ call[f].phase \in {"sent", "answered"}
  /\ Abandon({f})
  /\ call' = [call EXCEPT ![f].phase = "answered",
                          ![f].answer = IF wf[f].pc \in PostSteps
                                          THEN "ambiguous" ELSE "error"]
  /\ UNCHANGED <<accountableVars, ledger, wf, mailbox, running, operatorVars>>

(* Submissions retry only what is proven to have had no effect; every other *)
(* step with a retry budget retries any error.                              *)
Failed(f) == running[f] /\ call[f].phase = "answered"
               /\ call[f].answer \in {"error", "retryable"}

MayRetry(f) == wf[f].pc # "validate" /\ call[f].tries < StepRetries

RetryStep(f) ==
  /\ Failed(f) /\ MayRetry(f)
  /\ call' = [call EXCEPT ![f] = [phase |-> "sent", answer |-> "", tries |-> @.tries + 1]]
  /\ UNCHANGED <<accountableVars, ledger, wf, mailbox, running, lateVars, operatorVars>>

(* The result of the step is checkpointed together with where it leads. *)
Checkpoint(f, run) ==
  /\ wf' = [wf EXCEPT ![f] = run]
  /\ call' = [call EXCEPT ![f] = Idle]
  /\ UNCHANGED <<accountableVars, ledger, mailbox, running, lateVars, operatorVars>>

GoTo(f, pc) == [wf[f] EXCEPT !.pc = pc]
Outcome(f, pc, outcome, detail) ==
  [wf[f] EXCEPT !.pc = pc, !.outcome = outcome, !.detail = detail]

(* Seeded faults: the error of one step is ignored. *)
FailStepUnprepared(f) ==
  /\ Failed(f) /\ ~MayRetry(f)
  /\ Checkpoint(f, GoTo(f, IF wf[f].pc = "prepare" THEN "findExisting" ELSE "raise"))

FailStepUnrecorded(f) ==
  /\ Failed(f) /\ ~MayRetry(f)
  /\ Checkpoint(f, GoTo(f, IF wf[f].pc = "record" THEN "return" ELSE "raise"))

(* Exhausted submit retries are a review; every other failed step fails the *)
(* workflow.                                                                *)
FailStep(f) ==
  /\ Failed(f) /\ ~MayRetry(f)
  /\ Checkpoint(f, IF wf[f].pc = "submit"
                     THEN Outcome(f, "record", "needs_review", "submit retries exhausted")
                     ELSE GoTo(f, "raise"))

-----------------------------------------------------------------------------
(* What the workflow does with the answer of each step. *)

Succeeded(f, pc) ==
  /\ running[f] /\ wf[f].pc = pc
  /\ call[f].phase = "answered" /\ call[f].answer \notin {"error", "retryable"}

(* A final filing is not replayed.  (The mismatch error of filing.go:95     *)
(* needs an operation id other than the canonical one, which no client of   *)
(* Accountable writes.)  The v2 risk check has no effect and is left out.   *)
AfterValidate(f) ==
  LET state == call[f].answer IN
  /\ Succeeded(f, "validate")
  /\ Checkpoint(f,
       CASE state \in FinalStates -> Outcome(f, "return", "already_final", "")
         [] state = "ready"       -> [GoTo(f, "prepare") EXCEPT !.snap = state]
         [] OTHER                 -> [GoTo(f, "findExisting") EXCEPT !.snap = state])

AfterPrepare(f) ==
  /\ Succeeded(f, "prepare")
  /\ Checkpoint(f, [GoTo(f, "findExisting") EXCEPT !.snap = "submitting"])

(* The submission stands: mark it, unless validate already read submitted. *)
Accepted(f) == GoTo(f, IF wf[f].snap = "submitted" THEN "recv" ELSE "markSubmitted")

AfterFindExisting(f) ==
  LET status == call[f].answer IN
  /\ Succeeded(f, "findExisting")
  /\ Checkpoint(f,
       CASE status \in FinalStates ->
              Outcome(f, "record", status, "adopted completed submission")
         [] status = "processing" -> Accepted(f)
         [] OTHER                 -> GoTo(f, "submit"))

(* Seeded fault: a lost reply is taken for a rejection. *)
AfterSubmitGuessed(f) ==
  /\ Succeeded(f, "submit")
  /\ Checkpoint(f, IF call[f].answer = "accepted" THEN Accepted(f)
                   ELSE Outcome(f, "record", "rejected", "permanent validation failure"))

AfterSubmit(f) ==
  LET result == call[f].answer IN
  /\ Succeeded(f, "submit")
  /\ \E detail \in RejectionDetails :
       Checkpoint(f,
         CASE result = "ambiguous" -> GoTo(f, "resolveAmbiguous")
           [] result = "rejected"  -> Outcome(f, "record", "rejected", detail)
           [] OTHER                -> Accepted(f))

AfterResolveAmbiguous(f) ==
  LET status == call[f].answer IN
  /\ Succeeded(f, "resolveAmbiguous")
  /\ Checkpoint(f,
       CASE status = "not_found"   -> GoTo(f, "resubmit")
         [] status \in FinalStates ->
              Outcome(f, "record", status, "resolved after ambiguous submit")
         [] OTHER                  -> Accepted(f))

(* Seeded fault: an ambiguous resubmission is looked up again. *)
AfterResubmitAgain(f) ==
  /\ Succeeded(f, "resubmit")
  /\ Checkpoint(f, CASE call[f].answer = "ambiguous" -> GoTo(f, "resolveAmbiguous")
                     [] call[f].answer = "rejected"  -> Outcome(f, "record", "rejected", "")
                     [] OTHER -> Accepted(f))

(* An ambiguous resubmission goes on as if it had been accepted. *)
AfterResubmit(f) ==
  LET result == call[f].answer IN
  /\ Succeeded(f, "resubmit")
  /\ \E detail \in RejectionDetails :
       Checkpoint(f, IF result = "rejected"
                       THEN Outcome(f, "record", "rejected", detail)
                       ELSE Accepted(f))

AfterMarkSubmitted(f) ==
  /\ Succeeded(f, "markSubmitted")
  /\ Checkpoint(f, GoTo(f, "recv"))

(* dbos.Recv consumes and checkpoints a message in one transaction. *)
Recv(f) ==
  /\ Active(f) /\ wf[f].pc = "recv" /\ mailbox[f] # NoMessage
  /\ Checkpoint(f, Outcome(f, "recordFinal", mailbox[f].outcome, mailbox[f].detail))

RecvTimeout(f) ==
  /\ Active(f) /\ wf[f].pc = "recv" /\ mailbox[f] = NoMessage
  /\ Checkpoint(f, GoTo(f, "pollStatus"))

(* Seeded faults: what is still processing counts as accepted, or the polls *)
(* are not counted.                                                         *)
AfterPollStatusPresumed(f) ==
  /\ Succeeded(f, "pollStatus")
  /\ Checkpoint(f, Outcome(f, "recordFinal",
                           IF call[f].answer = "rejected" THEN "rejected" ELSE "accepted",
                           "via status poll"))

AfterPollStatusUncounted(f) ==
  /\ Succeeded(f, "pollStatus")
  /\ Checkpoint(f, IF call[f].answer \in FinalStates
                     THEN Outcome(f, "recordFinal", call[f].answer, "via status poll")
                     ELSE GoTo(f, "recv"))

AfterPollStatus(f) ==
  LET status == call[f].answer
      polled == [wf[f] EXCEPT !.polls = @ + 1, !.pc = "recv"] IN
  /\ Succeeded(f, "pollStatus")
  /\ Checkpoint(f,
       CASE status \in FinalStates ->
              Outcome(f, "recordFinal", status, "via status poll")
         [] status \notin FinalStates /\ polled.polls < StatusPolls -> polled
         [] OTHER -> Outcome(f, "recordFinal", "needs_review",
                             "no callback and authority still processing"))

AfterRecordOutcome(f) ==
  \/ Succeeded(f, "record") /\ Checkpoint(f, GoTo(f, "return"))
  \/ Succeeded(f, "recordFinal") /\ Checkpoint(f, GoTo(f, "reconcileFinal"))

AfterReconcileFinal(f) ==
  /\ Succeeded(f, "reconcileFinal")
  /\ Checkpoint(f, GoTo(f, IF call[f].answer = mapOutcome(wf[f].outcome)
                             THEN "return" ELSE "raise"))

(* The function returned: a cancelled workflow stays cancelled. *)
Return(f) ==
  /\ running[f] /\ wf[f].pc \in {"return", "raise"}
  /\ wf' = [wf EXCEPT ![f].status =
              IF @ = "CANCELLED" THEN @
              ELSE IF wf[f].pc = "return" THEN "SUCCESS" ELSE "ERROR"]
  /\ running' = [running EXCEPT ![f] = FALSE]
  /\ UNCHANGED <<accountableVars, ledger, mailbox, call, lateVars, operatorVars>>

-----------------------------------------------------------------------------
(* The rest of the world. *)

CompleteOperation(f) ==
  /\ Complete(ProviderOperationID(f))
  /\ UNCHANGED <<accountableVars, runtimeVars, lateVars, operatorVars>>

(* The mailbox keeps the oldest message, the only one a workflow consumes. *)
Deliver(f, outcome, detail) ==
  /\ wf[f].status # "absent"
  /\ mailbox' = [mailbox EXCEPT ![f] =
                   IF @ = NoMessage THEN [outcome |-> outcome, detail |-> detail] ELSE @]

(* The authority posts its callback to the worker until one is taken: a     *)
(* workflow that does not exist is a 503.  A permanent rejection has none.  *)
DeliverCallback(f) ==
  /\ ledger[ProviderOperationID(f)].status = "accepted"
  /\ ledger[ProviderOperationID(f)].scenario # "no_callback_done"
  /\ Deliver(f, "accepted", "via callback")
  /\ UNCHANGED <<accountableVars, ledger, wf, running, call, lateVars, operatorVars>>

(* opsctl send: the operator's word, which nothing checks. *)
OperatorSend(f, outcome) ==
  /\ outcome \in OperatorOutcomes
  /\ Deliver(f, outcome, "via operator")
  /\ asserted' = [asserted EXCEPT ![f] = @ \cup {outcome}]
  /\ UNCHANGED <<accountableVars, ledger, wf, running, call, lateVars, resumes, losses>>

-----------------------------------------------------------------------------
(* What a worker, or a server it waits for, does about one filing. *)
Progress(f) ==
  \/ Begin(f) \/ StopCancelled(f) \/ Send(f)
  \/ HandleGetFiling(f) \/ HandleStatus(f) \/ HandleSubmit(f) \/ HandleCommand(f)
  \/ GiveUp(f) \/ RetryStep(f) \/ FailStep(f)
  \/ AfterValidate(f) \/ AfterPrepare(f) \/ AfterFindExisting(f)
  \/ AfterSubmit(f) \/ AfterResolveAmbiguous(f) \/ AfterResubmit(f)
  \/ AfterMarkSubmitted(f) \/ Recv(f) \/ RecvTimeout(f) \/ AfterPollStatus(f)
  \/ AfterRecordOutcome(f) \/ AfterReconcileFinal(f) \/ Return(f)

Environment(f) ==
  \/ \E s \in Scenarios : SeedFiling(f, s) \/ Enqueue(f, s)
  \/ Cancel(f) \/ Resume(f)
  \/ CompleteOperation(f) \/ DeliverCallback(f)
  \/ \E outcome \in OperatorOutcomes : OperatorSend(f, outcome)

Next ==
  \/ \E f \in Filings : Progress(f) \/ Environment(f)
  \/ \E p \in latePosts : HandleLatePost(p)
  \/ \E req \in lateCommands : HandleLateCommand(req)
  \/ Crash
  \/ LoseRuntime

Spec == Init /\ [][Next]_vars

(* Goroutines are scheduled, servers answer or the HTTP timeout fires, and  *)
(* a dead worker is restarted: one filing's execution is never stalled for  *)
(* ever.  Nothing is assumed of operators, callbacks, completions, crashes  *)
(* or late requests.                                                        *)
Fairness == \A f \in Filings : WF_vars(Progress(f))

-----------------------------------------------------------------------------
(* Properties *)

Pcs == Steps \cup {"recv", "return", "raise"}
Outcomes == {"", "needs_review", "already_final"} \cup FinalStates \cup OperatorOutcomes

Runs == [status   : {"absent", "ENQUEUED", "PENDING"} \cup Ended,
         pc       : Pcs,
         scenario : Scenarios \cup {"ok"},
         snap     : FilingStates \cup {"absent"},
         outcome  : Outcomes,
         detail   : WorkflowDetails,
         polls    : 0..StatusPolls,
         attempts : 0..(MaxRecovery + 1)]

Messages == [outcome : OperatorOutcomes \cup {"accepted"},
             detail  : {"via callback", "via operator"}]

Answers == {"", "ok", "error", "retryable", "ambiguous"}
             \cup FilingStates \cup LedgerStatuses

Calls == [phase  : {"idle", "sent", "answered"},
          answer : Answers,
          tries  : 0..StepRetries]

Posts == [filing : Filings, scenario : Scenarios \cup {"ok"}, step : PostSteps]

(* Every variable has its type. *)
TypeOK ==
  /\ AccountableTypeOK
  /\ LedgerTypeOK
  /\ wf \in [Filings -> Runs]
  /\ mailbox \in [Filings -> Messages \cup {NoMessage}]
  /\ running \in [Filings -> BOOLEAN]
  /\ call \in [Filings -> Calls]
  /\ latePosts \subseteq Posts
  /\ lateCommands \subseteq Requests
  /\ asserted \in [Filings -> SUBSET OperatorOutcomes]
  /\ resumes \in 0..MaxResumes /\ losses \in 0..MaxLosses

(* "Intent is durable before the external effect" (filing.go:122): the      *)
(* authority never holds an operation whose id Accountable has not already  *)
(* booked on the filing, whatever crashes, retries and late requests did.   *)
IntentBeforeEffect ==
  \A f \in Filings :
    Known(ProviderOperationID(f)) => filings[f].op = ProviderOperationID(f)

Vouched(f, outcome) ==
  \/ ledger[ProviderOperationID(f)].status = outcome
  \/ outcome \in asserted[f]

(* A filing is accepted or rejected in the books only if the authority      *)
(* decided so or an operator said so: no timeout, stale answer, replayed or *)
(* late command ever invents an outcome.                                    *)
TruthfulOutcome ==
  \A f \in Filings :
    filings[f].state \in FinalStates => Vouched(f, filings[f].state)

(* A workflow that ended in SUCCESS tells what the books say: a final       *)
(* outcome is booked as such, and a review may since have been resolved but *)
(* is never still open work.                                                *)
SuccessMatchesBooks ==
  \A f \in Filings :
    wf[f].status = "SUCCESS" =>
      IF wf[f].outcome \in FinalStates
        THEN filings[f].state = wf[f].outcome
        ELSE filings[f].state \in FinalStates \cup
               (IF wf[f].outcome = "already_final" THEN {} ELSE {"needs_review"})

(* A run fails in its last steps (filing.go:302 and 314) only because the   *)
(* books are ahead of it: Accountable refuses its outcome only when they    *)
(* hold a final outcome or a review already, and the final reconciliation   *)
(* reads another state than the recorded one only when a review has become  *)
(* a final outcome.  So no filing is left in between by such an error.      *)
FailsOnlyWhenSettled ==
  \A f \in Filings :
    /\ (wf[f].pc \in {"record", "recordFinal"} /\ Refused(Command(f)))
         => filings[f].state \in FinalStates \cup {"needs_review"}
    /\ (/\ wf[f].pc = "reconcileFinal"
        /\ call[f].phase = "answered" /\ call[f].answer \in FilingStates
        /\ call[f].answer # mapOutcome(wf[f].outcome))
         => /\ mapOutcome(wf[f].outcome) = "needs_review"
            /\ filings[f].state \in FinalStates

(* The workflow with all its machinery implements the filing contract: each *)
(* step of the books and of the ledger is one the contract allows, in its   *)
(* order, and everything else is invisible to it.                           *)
Contract == INSTANCE FilingContract
  WITH Outcomes <- OperatorOutcomes,
       book     <- [f \in Filings |-> filings[f].state],
       effect   <- [f \in Filings |-> ledger[ProviderOperationID(f)].status]

ImplementsContract == Contract!ContractSpec

-----------------------------------------------------------------------------
(* The inductive invariant behind IntentBeforeEffect and TruthfulOutcome:   *)
(* where a fact read or written earlier is still carried, in a checkpoint,  *)
(* an answer, a mailbox or an abandoned request, it is still true.          *)

AnswersTo(pc) ==
  CASE pc \in ReadSteps    -> FilingStates \cup {"error"}
    [] pc \in StatusSteps  -> LedgerStatuses \cup {"error"}
    [] pc \in PostSteps    -> {"accepted", "rejected", "ambiguous", "retryable"}
    [] pc \in CommandSteps -> {"ok", "error"}

(* Only a started workflow runs, a call belongs to a running execution at a *)
(* step, and an answer is one that step can get.                            *)
CallsFit ==
  \A f \in Filings :
    /\ running[f] => wf[f].status # "absent"
    /\ call[f].phase # "idle" => running[f] /\ wf[f].pc \in Steps
    /\ call[f].phase = "answered" => call[f].answer \in AnswersTo(wf[f].pc)

Prepared(f) == filings[f].op = ProviderOperationID(f)
Answered(f, pcs, answers) ==
  call[f].phase = "answered" /\ wf[f].pc \in pcs /\ call[f].answer \in answers

(* Where the workflow relies on the intent being booked. *)
PreparedPcs == (Steps \cup {"recv"}) \ {"validate", "prepare"}

(* Somebody knows, or acts on the knowledge, that f has been prepared. *)
KnownPrepared(f) ==
  \/ filings[f].state \notin {"absent", "ready"}
  \/ Logged(f, SubmissionIntentCommandKey(WorkflowID(f)))
  \/ wf[f].pc \in PreparedPcs
  \/ Answered(f, {"validate"}, FilingStates \ {"ready"})
  \/ Answered(f, {"prepare"}, {"ok"})

IntentCarried ==
  /\ \A f \in Filings :
       /\ filings[f].state \in {"absent", "ready"} => filings[f].op = NoOperation
       /\ KnownPrepared(f) => Prepared(f)
  /\ \A p \in latePosts : Prepared(p.filing)
  /\ \A req \in lateCommands :
       req.type = "PrepareFilingSubmission" => req.op = ProviderOperationID(req.filing)

OutcomeCarried ==
  /\ \A f \in Filings :
       /\ wf[f].outcome \in FinalStates => Vouched(f, wf[f].outcome)
       /\ mailbox[f] # NoMessage /\ mailbox[f].outcome \in FinalStates
            => Vouched(f, mailbox[f].outcome)
       /\ Answered(f, StatusSteps, FinalStates)
            => ledger[ProviderOperationID(f)].status = call[f].answer
       /\ Answered(f, PostSteps, {"rejected"})
            => ledger[ProviderOperationID(f)].status = "rejected"
  /\ \A req \in lateCommands :
       commandTransitions[req.type] \in FinalStates
         => Vouched(req.filing, commandTransitions[req.type])

(* Everything the books, the checkpoints and the requests under way say     *)
(* about intents and outcomes is true: see the README for the argument.     *)
IInv == /\ TypeOK /\ CallsFit
        /\ IntentBeforeEffect /\ IntentCarried
        /\ TruthfulOutcome /\ OutcomeCarried

-----------------------------------------------------------------------------
(* How much is left to do, the weightiest part first: what operators and    *)
(* disasters may still undo, how far the row, the execution and the program *)
(* are from their ends, and what the step at hand may still try.            *)

RowRank(status) ==
  CASE status = "absent" -> 3 [] status = "ENQUEUED" -> 2 [] status = "PENDING" -> 1
    [] OTHER -> 0

StepRank(pc) ==
  CASE pc = "validate" -> 11 [] pc = "prepare" -> 10 [] pc = "findExisting" -> 9
    [] pc = "submit" -> 8 [] pc = "resolveAmbiguous" -> 7 [] pc = "resubmit" -> 6
    [] pc = "markSubmitted" -> 5 [] pc \in {"recv", "pollStatus"} -> 4
    [] pc \in {"record", "recordFinal"} -> 3 [] pc = "reconcileFinal" -> 2 [] OTHER -> 1

CallRank(c) ==
  CASE c.phase = "idle" -> 3 [] c.phase = "sent" -> 2
    [] OTHER -> IF c.answer \in {"error", "ambiguous"} THEN 0 ELSE 1

WorkLeft(f) ==
  <<MaxLosses - losses, MaxResumes - resumes,
    RowRank(wf[f].status), MaxRecovery + 1 - wf[f].attempts, IF running[f] THEN 1 ELSE 0,
    StepRank(wf[f].pc), StatusPolls - wf[f].polls, IF wf[f].pc = "recv" THEN 1 ELSE 0,
    StepRetries - call[f].tries, CallRank(call[f])>>

(* Lexicographically: well-founded, the tuples being of natural numbers.    *)
Less(s, t) ==
  \E i \in 1..10 : s[i] < t[i] /\ \A j \in 1..10 : j < i => s[j] = t[j]

RunsDown(f) ==
  \/ wf'[f] = wf[f] /\ running'[f] = running[f] /\ call'[f] = call[f]
  \/ Less(WorkLeft(f)', WorkLeft(f))

(* No work is ever repeated for nothing: whatever happens to the workflow   *)
(* of a filing, by retries, polls, resubmissions, crashes and recoveries,   *)
(* takes from what it has left to do, so that between two interventions of  *)
(* an operator or disasters only so much can happen to it.                  *)
WorkRunsDown == [][\A f \in Filings : RunsDown(f)]_vars

(* Every started workflow ends, or is lost with the DBOS database: no       *)
(* combination of lost replies, refusals, crashes and missing callbacks     *)
(* leaves it waiting for ever.                                              *)
Settles ==
  \A f \in Filings :
    wf[f].status = "ENQUEUED" ~> wf[f].status \in Ended \cup {"absent"}

(* Refuted, see the README.  filing.go:213: "A not-found result proves the  *)
(* first request had no external effect."  Once the workflow has concluded  *)
(* that from a lookup, the operation can only be created by a resubmission, *)
(* never by the first request.                                              *)
NotFoundProvesNoEffect ==
  [][\A f \in Filings :
       LET o == ProviderOperationID(f) IN
       (wf[f].pc = "resubmit" /\ ~Known(o) /\ Known(o)') =>
         \/ InFlight(f)
         \/ \E p \in latePosts : p.filing = f /\ p.step = "resubmit"
    ]_vars
=============================================================================
