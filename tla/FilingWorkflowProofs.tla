------------------------ MODULE FilingWorkflowProofs ------------------------
(***************************************************************************)
(* Proofs about FilingWorkflow, for every set of filings, scenarios and    *)
(* operator outcomes, every retry budget and every number of crashes,      *)
(* cancellations, resumes and losses of the DBOS database.                 *)
(***************************************************************************)
EXTENDS FilingWorkflow, AccountableProofs

-----------------------------------------------------------------------------
(* Groups of variables an action leaves alone. *)

UnchangedWorld == UNCHANGED <<accountableVars, ledger, asserted>>

LEMMA PrepareFields ==
  ASSUME NEW f, NEW o, NEW req, req = PrepareRequest(f, o)
  PROVE  req.filing = f /\ req.op = o /\ req.type = "PrepareFilingSubmission"
BY DEF PrepareRequest

LEMMA SubmittedFields ==
  ASSUME NEW f, NEW req, req = SubmittedRequest(f)
  PROVE  req.filing = f /\ req.type = "MarkFilingSubmitted"
BY DEF SubmittedRequest

(* The request of a step is one Accountable knows. *)
LEMMA CommandIsRequest ==
  ASSUME TypeOK, NEW f \in Filings, wf[f].pc \in CommandSteps,
         NEW req, req = Command(f)
  PROVE  /\ req \in Requests
         /\ req.filing = f
         /\ req.type = "PrepareFilingSubmission" <=> wf[f].pc = "prepare"
         /\ req.type = "PrepareFilingSubmission" => req.op = ProviderOperationID(f)
         /\ commandTransitions[req.type] \in FinalStates
              => commandTransitions[req.type] = wf[f].outcome
<1>1. CASE wf[f].pc = "prepare"
  <2>1. req = PrepareRequest(f, ProviderOperationID(f))
    BY <1>1 DEF Command
  <2>2. req \in Requests
    BY <2>1 DEF Requests, OperationIDs
  <2>3. /\ req.filing = f /\ req.op = ProviderOperationID(f)
        /\ req.type = "PrepareFilingSubmission"
    BY <2>1, PrepareFields
  <2>4. commandTransitions[req.type] \notin FinalStates
    BY <2>3 DEF commandTransitions, FinalStates
  <2>. QED BY <1>1, <2>2, <2>3, <2>4
<1>2. CASE wf[f].pc = "markSubmitted"
  <2>1. req = SubmittedRequest(f)
    BY <1>2 DEF Command
  <2>2. req \in Requests
    BY <2>1 DEF Requests
  <2>3. req.filing = f /\ req.type = "MarkFilingSubmitted"
    BY <2>1, SubmittedFields
  <2>4. commandTransitions[req.type] \notin FinalStates
    BY <2>3 DEF commandTransitions, FinalStates
  <2>. QED BY <1>2, <2>2, <2>3, <2>4
<1>3. CASE wf[f].pc \in {"record", "recordFinal"}
  <2> DEFINE state == mapOutcome(wf[f].outcome)
  <2>1. req = OutcomeRequest(f, state, wf[f].detail)
    BY <1>3 DEF Command
  <2>2. state \in {"accepted", "rejected", "needs_review"}
    BY DEF mapOutcome, FinalStates
  <2>3. wf[f].detail \in Details
    BY WorkflowAssumption DEF TypeOK, Runs
  <2>4. req \in Requests
    BY <2>1, <2>2, <2>3 DEF Requests, FinalStates
  <2>5. state \in FinalStates => state = wf[f].outcome
    BY DEF mapOutcome, FinalStates
  <2>. HIDE DEF state
  <2>6. /\ req.filing = f
        /\ req.type # "PrepareFilingSubmission"
        /\ commandTransitions[req.type] = state
    BY <2>1, <2>2 DEF OutcomeRequest, commandTransitions
  <2>. QED BY <1>3, <2>4, <2>5, <2>6
<1>. QED BY <1>1, <1>2, <1>3 DEF CommandSteps

(* The abandoned requests keep their types. *)
LEMMA AbandonType ==
  ASSUME TypeOK, NEW F \in SUBSET Filings, Abandon(F)
  PROVE  latePosts' \subseteq Posts /\ lateCommands' \subseteq Requests
<1>1. \A f \in F : wf[f].pc \in PostSteps => Post(f) \in Posts
  BY DEF TypeOK, Runs, Post, Posts
<1>2. \A f \in F : wf[f].pc \in CommandSteps => Command(f) \in Requests
  BY CommandIsRequest
<1>. QED BY <1>1, <1>2 DEF Abandon, TypeOK

LEMMA NoRunType == NoRun \in Runs
<1>1. 0 \in 0..StatusPolls /\ 0 \in 0..(MaxRecovery + 1)
  BY WorkflowAssumption
<1>. QED BY <1>1 DEF NoRun, Runs, Pcs, Outcomes, Steps, ReadSteps, WorkflowDetails,
     RejectionDetails

LEMMA IdleType == Idle \in Calls
<1>1. 0 \in 0..StepRetries
  BY WorkflowAssumption
<1>. QED BY <1>1 DEF Idle, Calls, Answers

-----------------------------------------------------------------------------
(* Type correctness, action by action.  Fit is the part of the invariant    *)
(* that types depend on.                                                    *)

Fit == TypeOK /\ CallsFit

(* A checkpoint of a well-typed run. *)
LEMMA CheckpointFit ==
  ASSUME Fit, NEW f \in Filings, NEW run \in Runs, Checkpoint(f, run),
         run.status = wf[f].status
  PROVE  Fit'
<1>1. wf' \in [Filings -> Runs] /\ call' \in [Filings -> Calls]
  BY IdleType DEF Fit, TypeOK, Checkpoint
<1>2. TypeOK'
  BY <1>1 DEF Fit, TypeOK, Checkpoint, accountableVars, lateVars, operatorVars,
     AccountableTypeOK, LedgerTypeOK
<1>3. /\ \A g \in Filings : g # f => wf'[g] = wf[g] /\ call'[g] = call[g]
      /\ wf'[f].status = wf[f].status /\ call'[f].phase = "idle"
      /\ running' = running
  BY DEF Fit, TypeOK, Checkpoint, Idle
<1>4. CallsFit'
  BY <1>3 DEF Fit, CallsFit
<1>. QED BY <1>2, <1>4 DEF Fit

LEMMA GoToType ==
  ASSUME TypeOK, NEW f \in Filings, NEW pc \in Pcs, NEW run, run = GoTo(f, pc)
  PROVE  /\ run \in Runs /\ run.status = wf[f].status
         /\ run.pc = pc /\ run.outcome = wf[f].outcome
<1>1. wf[f] \in Runs
  BY DEF TypeOK
<1>. QED BY <1>1 DEF Runs, GoTo

LEMMA OutcomeType ==
  ASSUME TypeOK, NEW f \in Filings, NEW pc \in Pcs, NEW o \in Outcomes,
         NEW d \in WorkflowDetails, NEW run, run = Outcome(f, pc, o, d)
  PROVE  /\ run \in Runs /\ run.status = wf[f].status
         /\ run.pc = pc /\ run.outcome = o
<1>1. wf[f] \in Runs
  BY DEF TypeOK
<1>. QED BY <1>1 DEF Runs, Outcome

-----------------------------------------------------------------------------
(* Checkpoints preserve the invariant: the books and the ledger do not      *)
(* move, and the workflow goes on with what its answer told it.             *)

IntentPart == IntentBeforeEffect /\ IntentCarried
OutcomePart == TruthfulOutcome /\ OutcomeCarried

LEMMA IInvParts == IInv <=> Fit /\ IntentPart /\ OutcomePart
BY DEF IInv, Fit, IntentPart, OutcomePart

LEMMA CheckpointStep ==
  ASSUME IInv, NEW f \in Filings, NEW run \in Runs, Checkpoint(f, run),
         run.status = wf[f].status,
         run.pc \in PreparedPcs => Prepared(f),
         run.outcome \in FinalStates => Vouched(f, run.outcome)
  PROVE  IInv'
<1>1. Fit'
  BY CheckpointFit, IInvParts
<1>2. /\ \A g \in Filings : g # f => wf'[g] = wf[g] /\ call'[g] = call[g]
      /\ wf'[f] = run /\ call'[f].phase = "idle"
  BY DEF IInv, TypeOK, Checkpoint, Idle
<1>3. UNCHANGED <<filings, commands, ledger, mailbox, latePosts, lateCommands, asserted>>
  BY DEF Checkpoint, accountableVars, lateVars, operatorVars
<1>4. \A g \in Filings : KnownPrepared(g)' => KnownPrepared(g) \/ (g = f /\ run.pc \in PreparedPcs)
  BY <1>2, <1>3 DEF KnownPrepared, Answered, Logged
<1>5. IntentPart'
  BY <1>3, <1>4 DEF IInv, IntentPart, IntentBeforeEffect, IntentCarried, Prepared, Known
<1>6. OutcomePart'
  <2>2. TruthfulOutcome'
    <3>1. \A g \in Filings : filings[g].state \in FinalStates => Vouched(g, filings[g].state)
      BY DEF IInv, TruthfulOutcome
    <3>. QED BY <1>3, <3>1 DEF TruthfulOutcome, Vouched
  <2>3. \A g \in Filings : wf'[g].outcome \in FinalStates => Vouched(g, wf[g].outcome)'
    BY <1>2, <1>3 DEF IInv, OutcomeCarried, Vouched
  <2>4. \A g \in Filings :
          /\ Answered(g, StatusSteps, FinalStates)' => Answered(g, StatusSteps, FinalStates)
          /\ Answered(g, PostSteps, {"rejected"})' => Answered(g, PostSteps, {"rejected"})
          /\ call'[g].phase = "answered" => call'[g] = call[g]
    BY <1>2 DEF Answered
  <2>5. \A g \in Filings :
          /\ mailbox'[g] # NoMessage /\ mailbox'[g].outcome \in FinalStates
               => Vouched(g, mailbox[g].outcome)'
          /\ Answered(g, StatusSteps, FinalStates)'
               => ledger'[ProviderOperationID(g)].status = call'[g].answer
          /\ Answered(g, PostSteps, {"rejected"})'
               => ledger'[ProviderOperationID(g)].status = "rejected"
    BY <1>3, <2>4 DEF IInv, OutcomeCarried, Answered, Vouched
  <2>6. \A req \in lateCommands' :
          commandTransitions[req.type] \in FinalStates
            => Vouched(req.filing, commandTransitions[req.type])'
    BY <1>3 DEF IInv, OutcomeCarried, Vouched
  <2>7. OutcomeCarried'
    BY <2>3, <2>5, <2>6 DEF OutcomeCarried
  <2>. QED BY <2>2, <2>7 DEF OutcomePart
<1>. QED BY <1>1, <1>5, <1>6, IInvParts DEF IInv, Fit, IntentPart, OutcomePart

LEMMA CheckpointGoTo ==
  ASSUME IInv, NEW f \in Filings, NEW pc \in Pcs, Checkpoint(f, GoTo(f, pc)),
         pc \in PreparedPcs => Prepared(f)
  PROVE  IInv'
<1> DEFINE run == GoTo(f, pc)
<1>1. /\ run \in Runs /\ run.status = wf[f].status
      /\ run.pc = pc /\ run.outcome = wf[f].outcome
  BY GoToType DEF IInv
<1>2. run.outcome \in FinalStates => Vouched(f, run.outcome)
  BY <1>1 DEF IInv, OutcomeCarried
<1>3. Checkpoint(f, run)
  OBVIOUS
<1>. HIDE DEF run
<1>. QED BY <1>1, <1>2, <1>3, CheckpointStep

LEMMA CheckpointSnap ==
  ASSUME IInv, NEW f \in Filings, NEW pc \in Pcs, NEW s \in FilingStates,
         Checkpoint(f, [GoTo(f, pc) EXCEPT !.snap = s]),
         pc \in PreparedPcs => Prepared(f)
  PROVE  IInv'
<1> DEFINE run == [GoTo(f, pc) EXCEPT !.snap = s]
<1>1. /\ run \in Runs /\ run.status = wf[f].status
      /\ run.pc = pc /\ run.outcome = wf[f].outcome
  <2>1. PICK there : there = GoTo(f, pc)
    OBVIOUS
  <2>2. /\ there \in Runs /\ there.status = wf[f].status
        /\ there.pc = pc /\ there.outcome = wf[f].outcome
    BY <2>1, GoToType DEF IInv
  <2>3. run = [there EXCEPT !.snap = s]
    BY <2>1
  <2>. QED BY <2>2, <2>3 DEF Runs
<1>2. run.outcome \in FinalStates => Vouched(f, run.outcome)
  BY <1>1 DEF IInv, OutcomeCarried
<1>3. Checkpoint(f, run)
  OBVIOUS
<1>. HIDE DEF run
<1>. QED BY <1>1, <1>2, <1>3, CheckpointStep

LEMMA CheckpointOutcome ==
  ASSUME IInv, NEW f \in Filings, NEW pc \in Pcs, NEW o \in Outcomes,
         NEW d \in WorkflowDetails, Checkpoint(f, Outcome(f, pc, o, d)),
         pc \in PreparedPcs => Prepared(f),
         o \in FinalStates => Vouched(f, o)
  PROVE  IInv'
<1> DEFINE run == Outcome(f, pc, o, d)
<1>1. /\ run \in Runs /\ run.status = wf[f].status
      /\ run.pc = pc /\ run.outcome = o
  BY OutcomeType DEF IInv
<1>2. Checkpoint(f, run)
  OBVIOUS
<1>. HIDE DEF run
<1>. QED BY <1>1, <1>2, CheckpointStep

-----------------------------------------------------------------------------
(* The checkpoint of each step. *)

(* What a successful answer tells, by the kind of its step. *)
LEMMA SucceededFacts ==
  ASSUME IInv, NEW f \in Filings, NEW pc, Succeeded(f, pc)
  PROVE  /\ wf[f].pc = pc
         /\ pc \in ReadSteps => call[f].answer \in FilingStates
         /\ pc = "validate" /\ call[f].answer # "ready" => Prepared(f)
         /\ pc = "prepare" => Prepared(f)
         /\ pc \in PreparedPcs => Prepared(f)
         /\ pc \in StatusSteps =>
              /\ call[f].answer \in LedgerStatuses
              /\ call[f].answer \in FinalStates => Vouched(f, call[f].answer)
         /\ (pc \in PostSteps /\ call[f].answer = "rejected")
              => Vouched(f, "rejected")
<1>1. /\ wf[f].pc = pc /\ call[f].phase = "answered"
      /\ call[f].answer \notin {"error", "retryable"}
  BY DEF Succeeded
<1>2. /\ pc \in ReadSteps => call[f].answer \in FilingStates
      /\ pc \in StatusSteps => call[f].answer \in LedgerStatuses
      /\ pc = "prepare" => call[f].answer = "ok"
  BY <1>1 DEF IInv, CallsFit, AnswersTo, ReadSteps, StatusSteps, PostSteps, CommandSteps
<1>3. pc = "validate" /\ call[f].answer # "ready" => Prepared(f)
  <2>1. pc = "validate" /\ call[f].answer # "ready"
          => Answered(f, {"validate"}, FilingStates \ {"ready"})
    BY <1>1, <1>2 DEF Answered, ReadSteps
  <2>. QED BY <2>1 DEF IInv, IntentCarried, KnownPrepared
<1>4. pc = "prepare" => Prepared(f)
  <2>1. pc = "prepare" => Answered(f, {"prepare"}, {"ok"})
    BY <1>1, <1>2 DEF Answered
  <2>. QED BY <2>1 DEF IInv, IntentCarried, KnownPrepared
<1>5. pc \in PreparedPcs => Prepared(f)
  BY <1>1 DEF IInv, IntentCarried, KnownPrepared
<1>6. pc \in StatusSteps /\ call[f].answer \in FinalStates => Vouched(f, call[f].answer)
  BY <1>1 DEF IInv, OutcomeCarried, Answered, Vouched
<1>7. pc \in PostSteps /\ call[f].answer = "rejected" => Vouched(f, "rejected")
  BY <1>1 DEF IInv, OutcomeCarried, Answered, Vouched
<1>. QED BY <1>1, <1>2, <1>3, <1>4, <1>5, <1>6, <1>7

LEMMA PcFacts ==
  /\ Steps \subseteq Pcs /\ {"recv", "return", "raise"} \subseteq Pcs
  /\ {"return", "raise", "prepare"} \subseteq Pcs \ PreparedPcs
  /\ {"findExisting", "submit", "resolveAmbiguous", "resubmit", "markSubmitted",
      "recv", "pollStatus", "record", "recordFinal", "reconcileFinal"}
       \subseteq PreparedPcs
  /\ PreparedPcs \subseteq Pcs
  /\ {"", "needs_review", "already_final", "accepted", "rejected"} \subseteq Outcomes
  /\ FinalStates \subseteq Outcomes
  /\ "needs_review" \notin FinalStates /\ "already_final" \notin FinalStates
BY DEF Pcs, Steps, ReadSteps, StatusSteps, PostSteps, CommandSteps, PreparedPcs,
   Outcomes, FinalStates

LEMMA CheckpointAccepted ==
  ASSUME IInv, NEW f \in Filings, Checkpoint(f, Accepted(f)), Prepared(f)
  PROVE  IInv'
<1> DEFINE pc == IF wf[f].snap = "submitted" THEN "recv" ELSE "markSubmitted"
<1>1. pc \in Pcs
  BY PcFacts
<1>2. Checkpoint(f, GoTo(f, pc))
  BY DEF Accepted
<1>. HIDE DEF pc
<1>. QED BY <1>1, <1>2, CheckpointGoTo

LEMMA AfterValidateStep ==
  ASSUME IInv, NEW f \in Filings, AfterValidate(f)
  PROVE  IInv'
<1> DEFINE state == call[f].answer
<1>1. state \in FilingStates /\ (state # "ready" => Prepared(f))
  BY SucceededFacts DEF AfterValidate, ReadSteps
<1>2. CASE state \in FinalStates
  <2>1. Checkpoint(f, Outcome(f, "return", "already_final", ""))
    BY <1>2 DEF AfterValidate, FinalStates
  <2>2. "" \in WorkflowDetails
    BY DEF WorkflowDetails, RejectionDetails
  <2>. QED BY <2>1, <2>2, PcFacts, CheckpointOutcome
<1>3. CASE state = "ready"
  <2>1. Checkpoint(f, [GoTo(f, "prepare") EXCEPT !.snap = state])
    BY <1>3 DEF AfterValidate, FinalStates
  <2>. QED BY <1>1, <2>1, PcFacts, CheckpointSnap
<1>4. CASE state \notin FinalStates \cup {"ready"}
  <2>1. Checkpoint(f, [GoTo(f, "findExisting") EXCEPT !.snap = state])
    BY <1>4 DEF AfterValidate, FinalStates
  <2>2. "findExisting" \in Pcs
    BY PcFacts
  <2>. QED BY <1>1, <1>4, <2>1, <2>2, CheckpointSnap
<1>. QED BY <1>2, <1>3, <1>4

LEMMA AfterPrepareStep ==
  ASSUME IInv, NEW f \in Filings, AfterPrepare(f)
  PROVE  IInv'
<1>1. Prepared(f)
  BY SucceededFacts DEF AfterPrepare
<1>2. "findExisting" \in Pcs /\ "submitting" \in FilingStates
  BY PcFacts DEF FilingStates
<1>. QED BY <1>1, <1>2, CheckpointSnap DEF AfterPrepare

LEMMA AfterFindExistingStep ==
  ASSUME IInv, NEW f \in Filings, AfterFindExisting(f)
  PROVE  IInv'
<1> DEFINE status == call[f].answer
<1>1. /\ status \in LedgerStatuses /\ Prepared(f)
      /\ status \in FinalStates => Vouched(f, status)
  BY SucceededFacts, PcFacts DEF AfterFindExisting, StatusSteps
<1>2. CASE status \in FinalStates
  <2>1. Checkpoint(f, Outcome(f, "record", status, "adopted completed submission"))
    BY <1>2 DEF AfterFindExisting, FinalStates
  <2>2. "adopted completed submission" \in WorkflowDetails
    BY DEF WorkflowDetails
  <2>. QED BY <1>1, <1>2, <2>1, <2>2, PcFacts, CheckpointOutcome
<1>3. CASE status = "processing"
  <2>1. Checkpoint(f, Accepted(f))
    BY <1>3 DEF AfterFindExisting, FinalStates
  <2>. QED BY <1>1, <2>1, CheckpointAccepted
<1>4. CASE status \notin FinalStates \cup {"processing"}
  <2>1. Checkpoint(f, GoTo(f, "submit"))
    BY <1>4 DEF AfterFindExisting, FinalStates
  <2>2. "submit" \in Pcs
    BY PcFacts
  <2>. QED BY <1>1, <2>1, <2>2, CheckpointGoTo
<1>. QED BY <1>2, <1>3, <1>4

LEMMA AfterSubmitStep ==
  ASSUME IInv, NEW f \in Filings, AfterSubmit(f)
  PROVE  IInv'
<1> DEFINE result == call[f].answer
<1>1. Prepared(f) /\ (result = "rejected" => Vouched(f, "rejected"))
  BY SucceededFacts, PcFacts DEF AfterSubmit, PostSteps
<1>2. CASE result = "ambiguous"
  <2>1. Checkpoint(f, GoTo(f, "resolveAmbiguous"))
    BY <1>2 DEF AfterSubmit
  <2>2. "resolveAmbiguous" \in Pcs
    BY PcFacts
  <2>. QED BY <1>1, <2>1, <2>2, CheckpointGoTo
<1>3. CASE result = "rejected"
  <2>1. PICK detail \in RejectionDetails :
          Checkpoint(f, Outcome(f, "record", "rejected", detail))
    BY <1>3 DEF AfterSubmit
  <2>2. detail \in WorkflowDetails
    BY DEF WorkflowDetails
  <2>. QED BY <1>1, <1>3, <2>1, <2>2, PcFacts, CheckpointOutcome
<1>4. CASE result \notin {"ambiguous", "rejected"}
  <2>1. Checkpoint(f, Accepted(f))
    BY <1>4 DEF AfterSubmit
  <2>. QED BY <1>1, <2>1, CheckpointAccepted
<1>. QED BY <1>2, <1>3, <1>4

LEMMA AfterResolveAmbiguousStep ==
  ASSUME IInv, NEW f \in Filings, AfterResolveAmbiguous(f)
  PROVE  IInv'
<1> DEFINE status == call[f].answer
<1>1. Prepared(f) /\ (status \in FinalStates => Vouched(f, status))
  BY SucceededFacts, PcFacts DEF AfterResolveAmbiguous, StatusSteps
<1>2. CASE status \in FinalStates
  <2>1. Checkpoint(f, Outcome(f, "record", status, "resolved after ambiguous submit"))
    BY <1>2 DEF AfterResolveAmbiguous, FinalStates
  <2>2. "resolved after ambiguous submit" \in WorkflowDetails
    BY DEF WorkflowDetails
  <2>. QED BY <1>1, <1>2, <2>1, <2>2, PcFacts, CheckpointOutcome
<1>3. CASE status = "not_found"
  <2>1. Checkpoint(f, GoTo(f, "resubmit"))
    BY <1>3 DEF AfterResolveAmbiguous, FinalStates
  <2>2. "resubmit" \in Pcs
    BY PcFacts
  <2>. QED BY <1>1, <2>1, <2>2, CheckpointGoTo
<1>4. CASE status \notin FinalStates \cup {"not_found"}
  <2>1. Checkpoint(f, Accepted(f))
    BY <1>4 DEF AfterResolveAmbiguous, FinalStates
  <2>. QED BY <1>1, <2>1, CheckpointAccepted
<1>. QED BY <1>2, <1>3, <1>4

LEMMA AfterResubmitStep ==
  ASSUME IInv, NEW f \in Filings, AfterResubmit(f)
  PROVE  IInv'
<1> DEFINE result == call[f].answer
<1>1. Prepared(f) /\ (result = "rejected" => Vouched(f, "rejected"))
  BY SucceededFacts, PcFacts DEF AfterResubmit, PostSteps
<1>2. CASE result = "rejected"
  <2>1. PICK detail \in RejectionDetails :
          Checkpoint(f, Outcome(f, "record", "rejected", detail))
    BY <1>2 DEF AfterResubmit
  <2>2. detail \in WorkflowDetails
    BY DEF WorkflowDetails
  <2>. QED BY <1>1, <1>2, <2>1, <2>2, PcFacts, CheckpointOutcome
<1>3. CASE result # "rejected"
  <2>1. Checkpoint(f, Accepted(f))
    BY <1>3 DEF AfterResubmit
  <2>. QED BY <1>1, <2>1, CheckpointAccepted
<1>. QED BY <1>2, <1>3

LEMMA HerePrepared ==
  ASSUME IInv, NEW f \in Filings, wf[f].pc \in PreparedPcs
  PROVE  Prepared(f)
BY DEF IInv, IntentCarried, KnownPrepared

(* A message is of the topic's type, and a final outcome in it is vouched   *)
(* for by the authority or by the operator who sent it.                     *)
LEMMA RecvStep ==
  ASSUME IInv, NEW f \in Filings, Recv(f)
  PROVE  IInv'
<1>1. mailbox[f] \in Messages
  BY DEF Recv, IInv, TypeOK
<1>2. mailbox[f].outcome \in Outcomes /\ mailbox[f].detail \in WorkflowDetails
  BY <1>1 DEF Messages, Outcomes, FinalStates, WorkflowDetails
<1>3. mailbox[f].outcome \in FinalStates => Vouched(f, mailbox[f].outcome)
  BY DEF Recv, IInv, OutcomeCarried
<1>4. Checkpoint(f, Outcome(f, "recordFinal", mailbox[f].outcome, mailbox[f].detail))
  BY DEF Recv
<1>5. Prepared(f)
  BY PcFacts, HerePrepared DEF Recv
<1>. QED BY <1>2, <1>3, <1>4, <1>5, PcFacts, CheckpointOutcome

LEMMA RecvTimeoutStep ==
  ASSUME IInv, NEW f \in Filings, RecvTimeout(f)
  PROVE  IInv'
<1>1. Prepared(f)
  BY PcFacts, HerePrepared DEF RecvTimeout
<1>. QED BY <1>1, PcFacts, CheckpointGoTo DEF RecvTimeout

LEMMA AfterPollStatusStep ==
  ASSUME IInv, NEW f \in Filings, AfterPollStatus(f)
  PROVE  IInv'
<1> DEFINE status == call[f].answer
           polled == [wf[f] EXCEPT !.polls = @ + 1, !.pc = "recv"]
<1>1. Prepared(f) /\ (status \in FinalStates => Vouched(f, status))
  BY SucceededFacts, PcFacts DEF AfterPollStatus, StatusSteps
<1>2. CASE status \in FinalStates
  <2>1. Checkpoint(f, Outcome(f, "recordFinal", status, "via status poll"))
    BY <1>2 DEF AfterPollStatus
  <2>2. "via status poll" \in WorkflowDetails
    BY DEF WorkflowDetails
  <2>. QED BY <1>1, <1>2, <2>1, <2>2, PcFacts, CheckpointOutcome
<1>3. CASE status \notin FinalStates /\ polled.polls < StatusPolls
  <2>1. Checkpoint(f, polled)
    BY <1>3 DEF AfterPollStatus
  <2>0. wf[f] \in Runs
    BY DEF IInv, TypeOK
  <2>2. polled.polls \in 0..StatusPolls
    BY <1>3, <2>0, WorkflowAssumption DEF Runs
  <2>3. /\ polled \in Runs /\ polled.status = wf[f].status
        /\ polled.pc = "recv" /\ polled.outcome = wf[f].outcome
    BY <2>0, <2>2, PcFacts DEF Runs
  <2>4. polled.outcome \in FinalStates => Vouched(f, polled.outcome)
    BY <2>3 DEF IInv, OutcomeCarried
  <2>. HIDE DEF polled
  <2>. QED BY <1>1, <2>1, <2>3, <2>4, CheckpointStep
<1>4. CASE status \notin FinalStates /\ ~(polled.polls < StatusPolls)
  <2>1. Checkpoint(f, Outcome(f, "recordFinal", "needs_review",
                              "no callback and authority still processing"))
    BY <1>4 DEF AfterPollStatus
  <2>2. "no callback and authority still processing" \in WorkflowDetails
    BY DEF WorkflowDetails
  <2>. QED BY <1>1, <2>1, <2>2, PcFacts, CheckpointOutcome
<1>. QED BY <1>2, <1>3, <1>4

(* The steps that always go on to one place. *)
LEMMA PlainSteps ==
  ASSUME IInv, NEW f \in Filings,
         AfterMarkSubmitted(f) \/ AfterRecordOutcome(f) \/ AfterReconcileFinal(f)
  PROVE  IInv'
<1>1. Prepared(f)
  BY PcFacts, HerePrepared
     DEF AfterMarkSubmitted, AfterRecordOutcome, AfterReconcileFinal, Succeeded
<1>2. CASE AfterMarkSubmitted(f)
  BY <1>1, <1>2, PcFacts, CheckpointGoTo DEF AfterMarkSubmitted
<1>3. CASE AfterRecordOutcome(f)
  BY <1>1, <1>3, PcFacts, CheckpointGoTo DEF AfterRecordOutcome
<1>4. CASE AfterReconcileFinal(f)
  <2> DEFINE pc == IF call[f].answer = mapOutcome(wf[f].outcome) THEN "return" ELSE "raise"
  <2>1. pc \in Pcs
    BY PcFacts
  <2>2. Checkpoint(f, GoTo(f, pc))
    BY <1>4 DEF AfterReconcileFinal
  <2>. HIDE DEF pc
  <2>. QED BY <1>1, <2>1, <2>2, CheckpointGoTo
<1>. QED BY <1>2, <1>3, <1>4

LEMMA FailStepStep ==
  ASSUME IInv, NEW f \in Filings, FailStep(f)
  PROVE  IInv'
<1>1. CASE wf[f].pc = "submit"
  <2>1. Checkpoint(f, Outcome(f, "record", "needs_review", "submit retries exhausted"))
    BY <1>1 DEF FailStep
  <2>2. "submit retries exhausted" \in WorkflowDetails
    BY DEF WorkflowDetails
  <2>3. Prepared(f)
    BY <1>1, PcFacts, HerePrepared
  <2>. QED BY <2>1, <2>2, <2>3, PcFacts, CheckpointOutcome
<1>2. CASE wf[f].pc # "submit"
  <2>1. Checkpoint(f, GoTo(f, "raise"))
    BY <1>2 DEF FailStep
  <2>. QED BY <2>1, PcFacts, CheckpointGoTo
<1>. QED BY <1>1, <1>2

-----------------------------------------------------------------------------
(* Every other action.  The world is the books, the ledger and the word of  *)
(* operators: facts about it, once true, stay true, and the invariant holds *)
(* of it.  The runtime keeps what it knew, or what it learns is true.       *)

IntentKey(f) == SubmissionIntentCommandKey(WorkflowID(f))

WorldTrue ==
  /\ IntentBeforeEffect /\ TruthfulOutcome
  /\ \A f \in Filings :
       /\ filings[f].state \in {"absent", "ready"} => filings[f].op = NoOperation
       /\ filings[f].state \notin {"absent", "ready"} => Prepared(f)
       /\ Logged(f, IntentKey(f)) => Prepared(f)

WorldMonotone ==
  \A f \in Filings :
    /\ Prepared(f) => Prepared(f)'
    /\ \A o \in FinalStates : Vouched(f, o) => Vouched(f, o)'
    /\ ledger[ProviderOperationID(f)].status \in FinalStates =>
         ledger'[ProviderOperationID(f)].status = ledger[ProviderOperationID(f)].status

AnswerTrue(f) ==
  /\ Answered(f, {"validate"}, FilingStates \ {"ready"}) => Prepared(f)
  /\ Answered(f, {"prepare"}, {"ok"}) => Prepared(f)
  /\ Answered(f, StatusSteps, FinalStates)
       => ledger[ProviderOperationID(f)].status = call[f].answer
  /\ Answered(f, PostSteps, {"rejected"})
       => ledger[ProviderOperationID(f)].status = "rejected"

MessageTrue(f) ==
  mailbox[f] # NoMessage /\ mailbox[f].outcome \in FinalStates
    => Vouched(f, mailbox[f].outcome)

CommandTrue(req) ==
  /\ req.type = "PrepareFilingSubmission" => req.op = ProviderOperationID(req.filing)
  /\ commandTransitions[req.type] \in FinalStates
       => Vouched(req.filing, commandTransitions[req.type])

RuntimeKept ==
  /\ \A f \in Filings :
       /\ wf'[f].pc \in PreparedPcs => wf[f].pc \in PreparedPcs \/ Prepared(f)
       /\ \/ wf'[f].outcome = wf[f].outcome
          \/ wf'[f].outcome \in FinalStates => Vouched(f, wf'[f].outcome)
       /\ mailbox'[f] = mailbox[f] \/ MessageTrue(f)'
       /\ \/ call'[f].phase # "answered"
          \/ call'[f] = call[f] /\ wf'[f].pc = wf[f].pc
          \/ AnswerTrue(f)'
  /\ \A p \in latePosts' : p \in latePosts \/ Prepared(p.filing)
  /\ \A req \in lateCommands' : req \in lateCommands \/ CommandTrue(req)

LEMMA IInvWorld ==
  ASSUME IInv
  PROVE  /\ WorldTrue
         /\ \A f \in Filings :
              /\ wf[f].pc \in PreparedPcs => Prepared(f)
              /\ wf[f].outcome \in FinalStates => Vouched(f, wf[f].outcome)
              /\ AnswerTrue(f) /\ MessageTrue(f)
         /\ \A p \in latePosts : p.filing \in Filings /\ Prepared(p.filing)
         /\ \A req \in lateCommands : req \in Requests /\ CommandTrue(req)
<1>1. WorldTrue
  BY DEF IInv, IntentCarried, KnownPrepared, WorldTrue, IntentKey
<1>2. \A f \in Filings : wf[f].pc \in PreparedPcs => Prepared(f)
  BY DEF IInv, IntentCarried, KnownPrepared
<1>3. \A f \in Filings : AnswerTrue(f)
  BY DEF IInv, IntentCarried, KnownPrepared, OutcomeCarried, AnswerTrue
<1>4. \A f \in Filings :
        /\ wf[f].outcome \in FinalStates => Vouched(f, wf[f].outcome)
        /\ MessageTrue(f)
  BY DEF IInv, OutcomeCarried, MessageTrue
<1>5. \A p \in latePosts : p.filing \in Filings /\ Prepared(p.filing)
  BY DEF IInv, TypeOK, Posts, IntentCarried
<1>6. \A req \in lateCommands : req \in Requests /\ CommandTrue(req)
  BY DEF IInv, TypeOK, IntentCarried, OutcomeCarried, CommandTrue
<1>. QED BY <1>1, <1>2, <1>3, <1>4, <1>5, <1>6

LEMMA Frame ==
  ASSUME IInv, Fit', WorldTrue', WorldMonotone, RuntimeKept
  PROVE  IInv'
<1>1. \A f \in Filings : AnswerTrue(f)'
  <2>1. SUFFICES ASSUME NEW f \in Filings,
                        call'[f] = call[f], wf'[f].pc = wf[f].pc
                 PROVE  AnswerTrue(f)'
    <3>1. \A f \in Filings : call'[f].phase # "answered" => AnswerTrue(f)'
      BY DEF AnswerTrue, Answered
    <3>. QED BY <3>1 DEF RuntimeKept
  <2>2. AnswerTrue(f)
    BY IInvWorld
  <2>3. Prepared(f) => Prepared(f)'
    BY DEF WorldMonotone
  <2>4. \A s \in FinalStates : ledger[ProviderOperationID(f)].status = s
                              => ledger'[ProviderOperationID(f)].status = s
    BY DEF WorldMonotone
  <2>5. "rejected" \in FinalStates
    BY DEF FinalStates
  <2>. QED BY <2>1, <2>2, <2>3, <2>4, <2>5 DEF AnswerTrue, Answered
<1>2. IntentPart'
  <2>1. \A f \in Filings : wf'[f].pc \in PreparedPcs => Prepared(f)'
    BY IInvWorld DEF RuntimeKept, WorldMonotone
  <2>2. \A f \in Filings : KnownPrepared(f)' => Prepared(f)'
    BY <1>1, <2>1 DEF KnownPrepared, WorldTrue, AnswerTrue, IntentKey
  <2>3. \A p \in latePosts' : Prepared(p.filing)'
    BY IInvWorld DEF RuntimeKept, WorldMonotone, Fit, TypeOK, Posts
  <2>4. \A req \in lateCommands' :
          req.type = "PrepareFilingSubmission" => req.op = ProviderOperationID(req.filing)
    BY IInvWorld DEF RuntimeKept, CommandTrue
  <2>. QED BY <2>2, <2>3, <2>4 DEF IntentPart, IntentCarried, WorldTrue
<1>3. OutcomePart'
  <2>1. \A f \in Filings : wf'[f].outcome \in FinalStates => Vouched(f, wf[f].outcome)'
    <3>1. \A f \in Filings : wf'[f].outcome \in FinalStates =>
            Vouched(f, wf'[f].outcome)
      BY IInvWorld DEF RuntimeKept
    <3>2. \A f \in Filings, o \in FinalStates : Vouched(f, o) => Vouched(f, o)'
      BY DEF WorldMonotone
    <3>. QED BY <3>1, <3>2 DEF Vouched
  <2>2. \A f \in Filings : MessageTrue(f)'
    <3>1. \A f \in Filings : mailbox'[f] = mailbox[f] => MessageTrue(f)'
      BY IInvWorld DEF WorldMonotone, MessageTrue, Vouched
    <3>. QED BY <3>1 DEF RuntimeKept
  <2>3. \A req \in lateCommands' :
          req.filing \in Filings /\ CommandTrue(req)
    <3>1. \A req \in Requests : req.filing \in Filings
      BY RequestShape
    <3>. QED BY <3>1, IInvWorld DEF RuntimeKept, Fit, TypeOK
  <2>4. \A req \in lateCommands' :
          commandTransitions[req.type] \in FinalStates
            => Vouched(req.filing, commandTransitions[req.type])'
    BY <2>3 DEF CommandTrue, WorldMonotone, Vouched
  <2>. QED BY <1>1, <2>1, <2>2, <2>4
           DEF OutcomePart, OutcomeCarried, WorldTrue, AnswerTrue, MessageTrue
<1>. QED BY <1>2, <1>3 DEF IInv, Fit, IntentPart, OutcomePart

(* The world does not move, or only an operator speaks. *)
LEMMA SameWorld ==
  ASSUME IInv, UNCHANGED <<filings, commands, ledger>>,
         \A f \in Filings : asserted[f] \subseteq asserted'[f]
  PROVE  WorldTrue' /\ WorldMonotone
<1>1. WorldTrue
  BY IInvWorld
<1>2. WorldMonotone
  BY DEF WorldMonotone, Prepared, Vouched
<1>3. TruthfulOutcome'
  BY <1>1 DEF WorldTrue, TruthfulOutcome, Vouched
<1>4. WorldTrue'
  BY <1>1, <1>3 DEF WorldTrue, IntentBeforeEffect, Known, Prepared, Logged
<1>. QED BY <1>2, <1>4

-----------------------------------------------------------------------------
(* Actions that leave the world alone. *)

(* What a caller leaves behind is as true as what it was acting on. *)
LEMMA AbandonTrue ==
  ASSUME IInv, NEW F \in SUBSET Filings, Abandon(F)
  PROVE  /\ \A p \in latePosts' : p \in latePosts \/ Prepared(p.filing)
         /\ \A req \in lateCommands' : req \in lateCommands \/ CommandTrue(req)
         /\ latePosts' \subseteq Posts /\ lateCommands' \subseteq Requests
<1>1. \A f \in F : wf[f].pc \in PostSteps => Prepared(Post(f).filing)
  BY IInvWorld, PcFacts DEF Post, PostSteps
<1>2. \A f \in F : wf[f].pc \in CommandSteps => CommandTrue(Command(f))
  <2>1. SUFFICES ASSUME NEW f \in F, wf[f].pc \in CommandSteps,
                        NEW req, req = Command(f)
                 PROVE  CommandTrue(req)
    OBVIOUS
  <2>2. /\ req.filing = f
        /\ req.type = "PrepareFilingSubmission" => req.op = ProviderOperationID(f)
        /\ commandTransitions[req.type] \in FinalStates
             => commandTransitions[req.type] = wf[f].outcome
    BY <2>1, CommandIsRequest DEF IInv
  <2>3. wf[f].outcome \in FinalStates => Vouched(f, wf[f].outcome)
    BY IInvWorld
  <2>. QED BY <2>2, <2>3 DEF CommandTrue
<1>3. latePosts' \subseteq Posts /\ lateCommands' \subseteq Requests
  BY AbandonType DEF IInv
<1>. QED BY <1>1, <1>2, <1>3 DEF Abandon

LEMMA SendStep ==
  ASSUME IInv, NEW f \in Filings, Send(f) \/ RetryStep(f)
  PROVE  IInv'
<1>1. /\ call' \in [Filings -> Calls] /\ call'[f].phase = "sent"
      /\ \A g \in Filings : g # f => call'[g] = call[g]
  <2>1. call[f] \in Calls /\ call[f].tries \in 0..StepRetries
    BY DEF IInv, TypeOK, Calls
  <2>2. CASE Send(f)
    BY <2>1, <2>2 DEF Send, Calls, IInv, TypeOK
  <2>3. CASE RetryStep(f)
    <3> DEFINE tries == call[f].tries + 1
    <3>1. call' = [call EXCEPT ![f] = [phase |-> "sent", answer |-> "", tries |-> tries]]
      BY <2>3 DEF RetryStep
    <3>2. call[f].tries < StepRetries /\ StepRetries \in Nat
      BY <2>3, WorkflowAssumption DEF RetryStep, MayRetry
    <3>3. tries \in 0..StepRetries
      BY <2>1, <3>2
    <3>. HIDE DEF tries
    <3>4. [phase |-> "sent", answer |-> "", tries |-> tries] \in Calls
      BY <3>3 DEF Calls, Answers
    <3>. QED BY <3>1, <3>4 DEF IInv, TypeOK
  <2>. QED BY <2>2, <2>3
<1>2. /\ UNCHANGED <<filings, commands, reseeded, ledger, wf, mailbox, running>>
      /\ UNCHANGED <<latePosts, lateCommands, asserted, resumes, losses>>
      /\ running[f] /\ wf[f].pc \in Steps
  BY DEF Send, RetryStep, Active, Failed, IInv, CallsFit, accountableVars,
     lateVars, operatorVars
<1>3. Fit'
  BY <1>1, <1>2 DEF IInv, Fit, TypeOK, CallsFit, AccountableTypeOK, LedgerTypeOK
<1>4. RuntimeKept
  BY <1>1, <1>2 DEF RuntimeKept
<1>. QED BY <1>2, <1>3, <1>4, SameWorld, Frame

(* The status of a workflow and its executions change, its place does not. *)
LEMMA LifeStep ==
  ASSUME IInv, NEW f \in Filings,
         NEW run \in Runs, wf' = [wf EXCEPT ![f] = run],
         run.pc = wf[f].pc, run.outcome = wf[f].outcome, run.status # "absent",
         running' \in [Filings -> BOOLEAN],
         \A g \in Filings : g # f => running'[g] = running[g],
         running'[f] \/ call[f].phase = "idle",
         resumes' \in 0..MaxResumes,
         UNCHANGED <<filings, commands, reseeded, ledger, mailbox, call>>,
         UNCHANGED <<latePosts, lateCommands, asserted, losses>>
  PROVE  IInv'
<1>1. \A g \in Filings : g # f => wf'[g] = wf[g]
  BY DEF IInv, TypeOK
<1>2. wf'[f] = run
  BY DEF IInv, TypeOK
<1>3. Fit'
  <2>1. TypeOK'
    BY DEF IInv, TypeOK, AccountableTypeOK, LedgerTypeOK
  <2>2. CallsFit'
    BY <1>1, <1>2 DEF IInv, CallsFit
  <2>. QED BY <2>1, <2>2 DEF Fit
<1>4. RuntimeKept
  BY <1>1, <1>2 DEF RuntimeKept
<1>. QED BY <1>3, <1>4, SameWorld, Frame

LEMMA ExecutionSteps ==
  ASSUME IInv, NEW f \in Filings,
         Begin(f) \/ StopCancelled(f) \/ Cancel(f) \/ Resume(f) \/ Return(f)
  PROVE  IInv'
<1>1. wf[f] \in Runs /\ running[f] \in BOOLEAN /\ resumes \in 0..MaxResumes
  BY DEF IInv, TypeOK
<1>2. wf[f].attempts \in 0..(MaxRecovery + 1) /\ MaxRecovery \in Nat /\ MaxResumes \in Nat
  BY <1>1, WorkflowAssumption DEF Runs
<1>3. ~running[f] => call[f].phase = "idle"
  BY DEF IInv, CallsFit, TypeOK, Calls
<1>4. PICK run \in Runs :
        /\ wf' = [wf EXCEPT ![f] = run]
        /\ run.pc = wf[f].pc /\ run.outcome = wf[f].outcome /\ run.status # "absent"
  <2>1. CASE Begin(f) /\ wf[f].attempts <= MaxRecovery
    <3> DEFINE n == wf[f].attempts + 1
               run == [wf[f] EXCEPT !.status = "PENDING", !.attempts = n]
    <3>a. n \in 0..(MaxRecovery + 1)
      BY <1>2, <2>1
    <3>1. run \in Runs /\ run.pc = wf[f].pc /\ run.outcome = wf[f].outcome
          /\ run.status # "absent"
      <4>. HIDE DEF n
      <4>. QED BY <1>1, <3>a DEF Runs
    <3>2. wf' = [wf EXCEPT ![f] = run]
      BY <2>1 DEF Begin
    <3>. QED BY <3>1, <3>2
  <2>2. CASE Begin(f) /\ ~(wf[f].attempts <= MaxRecovery)
    <3> DEFINE run == [wf[f] EXCEPT !.status = "MAX_RECOVERY_ATTEMPTS_EXCEEDED"]
    <3>1. run \in Runs /\ run.pc = wf[f].pc /\ run.outcome = wf[f].outcome
          /\ run.status # "absent"
      BY <1>1 DEF Runs, Ended
    <3>2. wf' = [wf EXCEPT ![f] = run]
      BY <2>2 DEF Begin
    <3>. QED BY <3>1, <3>2
  <2>3. CASE StopCancelled(f)
    <3>1. wf' = [wf EXCEPT ![f] = wf[f]]
      BY <2>3 DEF StopCancelled, IInv, TypeOK
    <3>2. wf[f].status # "absent"
      BY <2>3 DEF StopCancelled
    <3>. QED BY <1>1, <3>1, <3>2
  <2>4. CASE Cancel(f)
    <3> DEFINE run == [wf[f] EXCEPT !.status = "CANCELLED"]
    <3>1. run \in Runs /\ run.pc = wf[f].pc /\ run.outcome = wf[f].outcome
          /\ run.status # "absent"
      BY <1>1 DEF Runs, Ended
    <3>2. wf' = [wf EXCEPT ![f] = run]
      BY <2>4 DEF Cancel
    <3>. QED BY <3>1, <3>2
  <2>5. CASE Resume(f)
    <3> DEFINE run == [wf[f] EXCEPT !.status = "ENQUEUED", !.attempts = 0]
    <3>a. 0 \in 0..(MaxRecovery + 1)
      BY <1>2
    <3>1. run \in Runs /\ run.pc = wf[f].pc /\ run.outcome = wf[f].outcome
          /\ run.status # "absent"
      BY <1>1, <3>a DEF Runs
    <3>2. wf' = [wf EXCEPT ![f] = run]
      BY <2>5 DEF Resume
    <3>. QED BY <3>1, <3>2
  <2>6. CASE Return(f)
    <3> DEFINE status == IF wf[f].status = "CANCELLED" THEN wf[f].status
                         ELSE IF wf[f].pc = "return" THEN "SUCCESS" ELSE "ERROR"
               run == [wf[f] EXCEPT !.status = status]
    <3>1. status \in Ended
      BY DEF Ended
    <3>2. run \in Runs /\ run.pc = wf[f].pc /\ run.outcome = wf[f].outcome
          /\ run.status # "absent"
      BY <1>1, <3>1 DEF Runs, Ended
    <3>3. wf' = [wf EXCEPT ![f] = run]
      BY <2>6 DEF Return
    <3>. HIDE DEF run
    <3>. QED BY <3>2, <3>3
  <2>. QED BY <2>1, <2>2, <2>3, <2>4, <2>5, <2>6
<1>5. /\ running' \in [Filings -> BOOLEAN]
      /\ \A g \in Filings : g # f => running'[g] = running[g]
      /\ running'[f] = running[f] \/ running'[f] \/ call[f].phase = "idle"
  <2>1. Return(f) => call[f].phase = "idle"
    BY DEF Return, IInv, CallsFit, TypeOK, Calls, Steps, ReadSteps, StatusSteps,
       PostSteps, CommandSteps
  <2>. QED BY <2>1 DEF Begin, StopCancelled, Cancel, Resume, Return, IInv, TypeOK
<1>6. resumes' \in 0..MaxResumes
  BY <1>1, <1>2 DEF Begin, StopCancelled, Cancel, Resume, Return, operatorVars
<1>7. /\ UNCHANGED <<filings, commands, reseeded, ledger, mailbox, call>>
      /\ UNCHANGED <<latePosts, lateCommands, asserted, losses>>
  BY DEF Begin, StopCancelled, Cancel, Resume, Return, accountableVars, lateVars,
     operatorVars
<1>. QED BY <1>3, <1>4, <1>5, <1>6, <1>7, LifeStep

(* Crash and LoseRuntime abandon every call at once. *)
LEMMA CrashStep ==
  ASSUME IInv, Crash \/ LoseRuntime
  PROVE  IInv'
<1>1. /\ Abandon(Filings) /\ UNCHANGED <<filings, commands, reseeded, ledger, asserted>>
      /\ running' = [f \in Filings |-> FALSE] /\ call' = [f \in Filings |-> Idle]
      /\ UNCHANGED resumes /\ losses' \in 0..MaxLosses
  <2>1. losses \in 0..MaxLosses /\ MaxLosses \in Nat
    BY WorkflowAssumption DEF IInv, TypeOK
  <2>. QED BY <2>1 DEF Crash, LoseRuntime, accountableVars, operatorVars
<1>2. /\ wf' = wf \/ wf' = [f \in Filings |-> NoRun]
      /\ mailbox' = mailbox \/ mailbox' = [f \in Filings |-> NoMessage]
  BY DEF Crash, LoseRuntime
<1>3. wf' \in [Filings -> Runs] /\ mailbox' \in [Filings -> Messages \cup {NoMessage}]
  BY <1>2, NoRunType DEF IInv, TypeOK
<1>4. Fit'
  <2>1. call' \in [Filings -> Calls] /\ running' \in [Filings -> BOOLEAN]
    BY <1>1, IdleType
  <2>2. \A f \in Filings : ~running'[f] /\ call'[f].phase = "idle"
    BY <1>1 DEF Idle
  <2>3. TypeOK'
    BY <1>1, <1>3, <2>1, AbandonTrue DEF IInv, TypeOK, AccountableTypeOK, LedgerTypeOK
  <2>. QED BY <2>2, <2>3 DEF Fit, CallsFit
<1>5. RuntimeKept
  <2>1. \A f \in Filings :
          /\ wf'[f].pc = wf[f].pc \/ wf'[f].pc \notin PreparedPcs
          /\ wf'[f].outcome = wf[f].outcome \/ wf'[f].outcome \notin FinalStates
    <3>1. CASE wf' = wf
      BY <3>1
    <3>2. CASE wf' = [f \in Filings |-> NoRun]
      <4>1. \A f \in Filings : wf'[f].pc = "validate" /\ wf'[f].outcome = ""
        BY <3>2 DEF NoRun
      <4>. QED BY <4>1 DEF PreparedPcs, FinalStates
    <3>. QED BY <1>2, <3>1, <3>2
  <2>2. \A f \in Filings : mailbox'[f] = mailbox[f] \/ MessageTrue(f)'
    BY <1>2 DEF MessageTrue
  <2>3. \A f \in Filings : call'[f].phase # "answered"
    BY <1>1 DEF Idle
  <2>. QED BY <1>1, <2>1, <2>2, <2>3, AbandonTrue DEF RuntimeKept
<1>. QED BY <1>1, <1>4, <1>5, SameWorld, Frame

(* An answer, true or without content, reaches the step of f. *)
LEMMA AnswerFit ==
  ASSUME Fit, NEW f \in Filings, NEW a \in Answers,
         call' = [call EXCEPT ![f].phase = "answered", ![f].answer = a],
         UNCHANGED <<wf, running>>, running[f], wf[f].pc \in Steps,
         a \in AnswersTo(wf[f].pc)
  PROVE  /\ CallsFit' /\ call' \in [Filings -> Calls]
         /\ \A g \in Filings : g # f => call'[g] = call[g]
         /\ call'[f].phase = "answered" /\ call'[f].answer = a
<1>1. call \in [Filings -> Calls] /\ call[f] \in Calls
  BY DEF Fit, TypeOK
<1>2. /\ \A g \in Filings : g # f => call'[g] = call[g]
      /\ call'[f].phase = "answered" /\ call'[f].answer = a
      /\ call' \in [Filings -> Calls]
  BY <1>1 DEF Calls
<1>3. CallsFit'
  BY <1>2 DEF Fit, CallsFit
<1>. QED BY <1>2, <1>3

LEMMA GiveUpStep ==
  ASSUME IInv, NEW f \in Filings, GiveUp(f)
  PROVE  IInv'
<1> DEFINE a == IF wf[f].pc \in PostSteps THEN "ambiguous" ELSE "error"
<1>1. /\ running[f] /\ wf[f].pc \in Steps /\ Abandon({f})
      /\ call' = [call EXCEPT ![f].phase = "answered", ![f].answer = a]
      /\ UNCHANGED <<filings, commands, reseeded, ledger, wf, mailbox, running,
                     asserted, resumes, losses>>
  BY DEF GiveUp, IInv, CallsFit, accountableVars, operatorVars
<1>2. a \in Answers
  BY DEF Answers
<1>3. a \in AnswersTo(wf[f].pc)
  BY <1>1 DEF AnswersTo, Steps, ReadSteps, StatusSteps, PostSteps, CommandSteps
<1>4. a \in {"ambiguous", "error"}
  OBVIOUS
<1>. HIDE DEF a
<1>5. /\ CallsFit' /\ call' \in [Filings -> Calls]
      /\ \A g \in Filings : g # f => call'[g] = call[g]
      /\ call'[f].answer = a
  BY <1>1, <1>2, <1>3, AnswerFit DEF Fit, IInv
<1>6. Fit'
  BY <1>1, <1>5, AbandonTrue DEF IInv, Fit, TypeOK, AccountableTypeOK, LedgerTypeOK
<1>7. AnswerTrue(f)'
  BY <1>4, <1>5 DEF AnswerTrue, Answered, FilingStates, FinalStates
<1>8. RuntimeKept
  BY <1>1, <1>5, <1>7, AbandonTrue DEF RuntimeKept
<1>. QED BY <1>1, <1>6, <1>8, SameWorld, Frame

LEMMA ReadStep ==
  ASSUME IInv, NEW f \in Filings, HandleGetFiling(f)
  PROVE  IInv'
<1> DEFINE a == IF filings[f].state = "absent" THEN "error" ELSE filings[f].state
<1>1. /\ running[f] /\ wf[f].pc \in ReadSteps
      /\ call' = [call EXCEPT ![f].phase = "answered", ![f].answer = a]
      /\ UNCHANGED <<filings, commands, reseeded, ledger, wf, mailbox, running,
                     latePosts, lateCommands, asserted, resumes, losses>>
  BY DEF HandleGetFiling, InFlight, Answer, accountableVars, lateVars, operatorVars
<1>2. a \in FilingStates \cup {"error"}
  BY DEF IInv, TypeOK, AccountableTypeOK, Rows
<1>3. a \in FilingStates \ {"ready"} => Prepared(f)
  <2>1. a \in FilingStates \ {"ready"} => filings[f].state \notin {"absent", "ready"}
    BY DEF FilingStates, FinalStates
  <2>. QED BY <2>1, IInvWorld DEF WorldTrue
<1>. HIDE DEF a
<1>4. /\ CallsFit' /\ call' \in [Filings -> Calls]
      /\ \A g \in Filings : g # f => call'[g] = call[g]
      /\ call'[f].answer = a
  <2>1. a \in Answers /\ wf[f].pc \in Steps
    BY <1>1, <1>2 DEF Answers, Steps
  <2>2. a \in AnswersTo(wf[f].pc)
    BY <1>1, <1>2 DEF AnswersTo, ReadSteps, StatusSteps, PostSteps, CommandSteps
  <2>. QED BY <1>1, <2>1, <2>2, AnswerFit DEF Fit, IInv
<1>5. Fit'
  BY <1>1, <1>4 DEF IInv, Fit, TypeOK, AccountableTypeOK, LedgerTypeOK
<1>6. AnswerTrue(f)'
  BY <1>1, <1>3, <1>4 DEF AnswerTrue, Answered, Prepared, ReadSteps, StatusSteps, PostSteps
<1>7. RuntimeKept
  BY <1>1, <1>4, <1>6 DEF RuntimeKept
<1>. QED BY <1>1, <1>5, <1>7, SameWorld, Frame

LEMMA StatusStep ==
  ASSUME IInv, NEW f \in Filings, HandleStatus(f)
  PROVE  IInv'
<1> DEFINE a == ledger[ProviderOperationID(f)].status
<1>1. /\ running[f] /\ wf[f].pc \in StatusSteps
      /\ call' = [call EXCEPT ![f].phase = "answered", ![f].answer = a]
      /\ UNCHANGED <<filings, commands, reseeded, ledger, wf, mailbox, running,
                     latePosts, lateCommands, asserted, resumes, losses>>
  BY DEF HandleStatus, InFlight, Answer, accountableVars, lateVars, operatorVars
<1>2. a \in LedgerStatuses
  BY DEF IInv, TypeOK, LedgerTypeOK, OperationIDs
<1>3. a' = a
  BY <1>1
<1>. HIDE DEF a
<1>4. /\ CallsFit' /\ call' \in [Filings -> Calls]
      /\ \A g \in Filings : g # f => call'[g] = call[g]
      /\ call'[f].answer = a
  <2>1. a \in Answers /\ wf[f].pc \in Steps
    BY <1>1, <1>2 DEF Answers, Steps
  <2>2. a \in AnswersTo(wf[f].pc)
    BY <1>1, <1>2 DEF AnswersTo, ReadSteps, StatusSteps, PostSteps, CommandSteps
  <2>. QED BY <1>1, <2>1, <2>2, AnswerFit DEF Fit, IInv
<1>5. Fit'
  BY <1>1, <1>4 DEF IInv, Fit, TypeOK, AccountableTypeOK, LedgerTypeOK
<1>6. AnswerTrue(f)'
  BY <1>1, <1>3, <1>4 DEF a, AnswerTrue, Answered, ReadSteps, StatusSteps, PostSteps
<1>7. RuntimeKept
  BY <1>1, <1>4, <1>6 DEF RuntimeKept
<1>. QED BY <1>1, <1>5, <1>7, SameWorld, Frame

LEMMA EnqueueStep ==
  ASSUME IInv, NEW f \in Filings, NEW s \in Scenarios \cup {"ok"}, Enqueue(f, s)
  PROVE  IInv'
<1> DEFINE run == [NoRun EXCEPT !.status = "ENQUEUED", !.scenario = s]
<1>1. run \in Runs /\ run.status = "ENQUEUED" /\ run.pc = "validate" /\ run.outcome = ""
  BY NoRunType DEF Runs, NoRun
<1>2. /\ wf' = [wf EXCEPT ![f] = run] /\ wf[f].status = "absent"
      /\ UNCHANGED <<filings, commands, reseeded, ledger, mailbox, running, call>>
      /\ UNCHANGED <<latePosts, lateCommands, asserted, resumes, losses>>
  BY DEF Enqueue, accountableVars, lateVars, operatorVars
<1>. HIDE DEF run
<1>3. /\ wf' \in [Filings -> Runs] /\ wf'[f] = run
      /\ \A g \in Filings : g # f => wf'[g] = wf[g]
  BY <1>1, <1>2 DEF IInv, TypeOK
<1>4. ~running[f] /\ call[f].phase = "idle"
  BY <1>2 DEF IInv, CallsFit, TypeOK, Calls
<1>5. Fit'
  BY <1>2, <1>3, <1>4 DEF IInv, Fit, TypeOK, CallsFit, AccountableTypeOK, LedgerTypeOK
<1>6. run.pc \notin PreparedPcs /\ run.outcome \notin FinalStates
  BY <1>1 DEF PreparedPcs, FinalStates
<1>7. RuntimeKept
  BY <1>2, <1>3, <1>4, <1>6 DEF RuntimeKept
<1>. QED BY <1>2, <1>5, <1>7, SameWorld, Frame

(* What is delivered is the authority's own outcome or an operator's. *)
LEMMA DeliveryStep ==
  ASSUME IInv, NEW f \in Filings, NEW outcome \in OperatorOutcomes \cup {"accepted"},
         NEW detail \in {"via callback", "via operator"}, Deliver(f, outcome, detail),
         asserted' \in [Filings -> SUBSET OperatorOutcomes],
         \A g \in Filings : asserted[g] \subseteq asserted'[g],
         outcome \in FinalStates => Vouched(f, outcome)',
         UNCHANGED <<filings, commands, reseeded, ledger, wf, running, call>>,
         UNCHANGED <<latePosts, lateCommands, resumes, losses>>
  PROVE  IInv'
<1> DEFINE msg == [outcome |-> outcome, detail |-> detail]
<1>1. msg \in Messages /\ msg.outcome = outcome
  BY DEF Messages
<1>2. mailbox' = mailbox \/ mailbox' = [mailbox EXCEPT ![f] = msg]
  BY DEF Deliver, IInv, TypeOK
<1>. HIDE DEF msg
<1>3. /\ mailbox' \in [Filings -> Messages \cup {NoMessage}]
      /\ \A g \in Filings : g # f => mailbox'[g] = mailbox[g]
      /\ mailbox'[f] = mailbox[f] \/ mailbox'[f] = msg
  BY <1>1, <1>2 DEF IInv, TypeOK
<1>4. Fit'
  BY <1>3 DEF IInv, Fit, TypeOK, CallsFit, AccountableTypeOK, LedgerTypeOK
<1>5. mailbox'[f] = msg => MessageTrue(f)'
  BY <1>1 DEF MessageTrue, Vouched
<1>6. RuntimeKept
  BY <1>3, <1>5 DEF RuntimeKept
<1>. QED BY <1>4, <1>6, SameWorld, Frame

LEMMA DeliverySteps ==
  ASSUME IInv, NEW f \in Filings,
         \/ DeliverCallback(f)
         \/ \E outcome \in OperatorOutcomes : OperatorSend(f, outcome)
  PROVE  IInv'
<1>1. CASE DeliverCallback(f)
  <2>1. /\ Deliver(f, "accepted", "via callback")
        /\ ledger[ProviderOperationID(f)].status = "accepted"
        /\ UNCHANGED <<filings, commands, reseeded, ledger, wf, running, call,
                       latePosts, lateCommands, asserted, resumes, losses>>
    BY <1>1 DEF DeliverCallback, accountableVars, lateVars, operatorVars
  <2>2. Vouched(f, "accepted")' /\ asserted' \in [Filings -> SUBSET OperatorOutcomes]
    BY <2>1 DEF Vouched, IInv, TypeOK
  <2>. QED BY <2>1, <2>2, DeliveryStep
<1>2. CASE \E outcome \in OperatorOutcomes : OperatorSend(f, outcome)
  <2>1. PICK outcome \in OperatorOutcomes : OperatorSend(f, outcome)
    BY <1>2
  <2>2. /\ Deliver(f, outcome, "via operator")
        /\ asserted' = [asserted EXCEPT ![f] = @ \cup {outcome}]
        /\ UNCHANGED <<filings, commands, reseeded, ledger, wf, running, call,
                       latePosts, lateCommands, resumes, losses>>
    BY <2>1 DEF OperatorSend, accountableVars, lateVars
  <2>3. /\ asserted' \in [Filings -> SUBSET OperatorOutcomes]
        /\ \A g \in Filings : asserted[g] \subseteq asserted'[g]
        /\ outcome \in asserted'[f]
    BY <2>2 DEF IInv, TypeOK
  <2>4. Vouched(f, outcome)'
    BY <2>3 DEF Vouched
  <2>. QED BY <2>2, <2>3, <2>4, DeliveryStep
<1>. QED BY <1>1, <1>2

-----------------------------------------------------------------------------
(* Actions that move the ledger. *)

LEMMA OperationInjective ==
  ASSUME NEW f, NEW g, ProviderOperationID(f) = ProviderOperationID(g)
  PROVE  f = g
BY DEF ProviderOperationID

(* The ledger may learn of a prepared filing's operation, or complete it. *)
LEMMA LedgerWorld ==
  ASSUME IInv, NEW f \in Filings, Prepared(f), NEW entry,
         ledger' = [ledger EXCEPT ![ProviderOperationID(f)] = entry],
         ledger[ProviderOperationID(f)].status \in FinalStates
           => entry.status = ledger[ProviderOperationID(f)].status,
         UNCHANGED <<filings, commands, asserted>>
  PROVE  WorldTrue' /\ WorldMonotone
<1>1. /\ \A g \in Filings : g # f =>
           ledger'[ProviderOperationID(g)] = ledger[ProviderOperationID(g)]
      /\ ledger'[ProviderOperationID(f)] = entry
  BY OperationInjective DEF IInv, TypeOK, LedgerTypeOK, OperationIDs
<1>2. WorldMonotone
  BY <1>1 DEF WorldMonotone, Prepared, Vouched
<1>3. WorldTrue
  BY IInvWorld
<1>4. IntentBeforeEffect'
  BY <1>1, <1>3 DEF WorldTrue, IntentBeforeEffect, Known, Prepared
<1>5. TruthfulOutcome'
  <2>1. \A g \in Filings : filings[g].state \in FinalStates => Vouched(g, filings[g].state)
    BY <1>3 DEF WorldTrue, TruthfulOutcome
  <2>. QED BY <1>2, <2>1 DEF TruthfulOutcome, WorldMonotone, Vouched
<1>6. WorldTrue'
  BY <1>3, <1>4, <1>5 DEF WorldTrue, Prepared, Logged
<1>. QED BY <1>2, <1>6

LEMMA SubmitEffect ==
  ASSUME LedgerTypeOK, NEW o \in OperationIDs, NEW s \in Scenarios \cup {"ok"}, NEW reply,
         Submit(o, s, reply)
  PROVE  /\ LedgerTypeOK'
         /\ \/ ledger' = ledger
            \/ /\ ~Known(o)
               /\ \E status \in {"processing", "rejected"} :
                    ledger' = [ledger EXCEPT ![o] = [status |-> status, scenario |-> s]]
         /\ reply = "rejected" => ledger'[o].status = "rejected"
<1>1. CASE SubmitKnown(o, s, reply)
  BY <1>1 DEF SubmitKnown, statusFromOutcome, LedgerTypeOK
<1>2. CASE SubmitRefused(o, s, reply)
  BY <1>2 DEF SubmitRefused, LedgerTypeOK
<1>3. CASE SubmitLost(o, s, reply)
  BY <1>3 DEF SubmitLost, LedgerTypeOK
<1>4. CASE SubmitRejected(o, s, reply)
  <2>1. ledger' = [ledger EXCEPT ![o] = [status |-> "rejected", scenario |-> s]]
    BY <1>4 DEF SubmitRejected, Record
  <2>. QED BY <1>4, <2>1 DEF SubmitRejected, LedgerTypeOK, LedgerStatuses, FinalStates
<1>5. CASE SubmitRecorded(o, s, reply)
  <2>1. ledger' = [ledger EXCEPT ![o] = [status |-> "processing", scenario |-> s]]
    BY <1>5 DEF SubmitRecorded, Record
  <2>. QED BY <1>5, <2>1 DEF SubmitRecorded, LedgerTypeOK, LedgerStatuses, FinalStates
<1>. QED BY <1>1, <1>2, <1>3, <1>4, <1>5 DEF Submit

(* A submission is only ever served for a prepared filing. *)
LEMMA SubmitWorld ==
  ASSUME IInv, NEW f \in Filings, Prepared(f), NEW s \in Scenarios \cup {"ok"}, NEW reply,
         Submit(ProviderOperationID(f), s, reply),
         UNCHANGED <<filings, commands, asserted>>
  PROVE  WorldTrue' /\ WorldMonotone
<1> DEFINE o == ProviderOperationID(f)
<1>1. o \in OperationIDs
  BY DEF OperationIDs
<1>2. CASE ledger' = ledger
  BY <1>2, SameWorld
<1>3. CASE /\ ~Known(o)
           /\ \E status \in {"processing", "rejected"} :
                ledger' = [ledger EXCEPT ![o] = [status |-> status, scenario |-> s]]
  <2>1. PICK entry : ledger' = [ledger EXCEPT ![o] = entry]
    BY <1>3
  <2>2. ledger[o].status \notin FinalStates
    BY <1>3 DEF Known, FinalStates
  <2>. QED BY <2>1, <2>2, LedgerWorld
<1>. QED BY <1>1, <1>2, <1>3, SubmitEffect DEF IInv, TypeOK

LEMMA SubmitStep ==
  ASSUME IInv, NEW f \in Filings, HandleSubmit(f)
  PROVE  IInv'
<1>1. PICK reply \in {"accepted", "rejected", "ambiguous", "retryable"} :
        /\ Submit(ProviderOperationID(f), wf[f].scenario, reply)
        /\ call' = [call EXCEPT ![f].phase = "answered", ![f].answer = reply]
  BY DEF HandleSubmit, Answer
<1>2. /\ running[f] /\ wf[f].pc \in PostSteps
      /\ UNCHANGED <<filings, commands, reseeded, wf, mailbox, running,
                     latePosts, lateCommands, asserted, resumes, losses>>
  BY DEF HandleSubmit, InFlight, Answer, accountableVars, lateVars, operatorVars
<1>3. Prepared(f)
  BY <1>2, IInvWorld, PcFacts DEF PostSteps
<1>4. wf[f].scenario \in Scenarios \cup {"ok"} /\ ProviderOperationID(f) \in OperationIDs
  BY DEF IInv, TypeOK, Runs, OperationIDs
<1>5. LedgerTypeOK' /\ (reply = "rejected"
                           => ledger'[ProviderOperationID(f)].status = "rejected")
  BY <1>1, <1>4, SubmitEffect DEF IInv, TypeOK
<1>6. /\ CallsFit' /\ call' \in [Filings -> Calls]
      /\ \A g \in Filings : g # f => call'[g] = call[g]
      /\ call'[f].answer = reply
  <2>1. reply \in Answers /\ wf[f].pc \in Steps
    BY <1>2 DEF Answers, LedgerStatuses, FinalStates, Steps
  <2>2. reply \in AnswersTo(wf[f].pc)
    BY <1>2 DEF AnswersTo, ReadSteps, StatusSteps, PostSteps, CommandSteps
  <2>. QED BY <1>1, <1>2, <2>1, <2>2, AnswerFit DEF Fit, IInv
<1>7. Fit'
  BY <1>2, <1>5, <1>6 DEF IInv, Fit, TypeOK, AccountableTypeOK
<1>8. AnswerTrue(f)'
  BY <1>2, <1>5, <1>6 DEF AnswerTrue, Answered, StatusSteps, PostSteps
<1>9. RuntimeKept
  BY <1>2, <1>6, <1>8 DEF RuntimeKept
<1>. QED BY <1>1, <1>2, <1>3, <1>4, <1>7, <1>9, SubmitWorld, Frame

LEMMA LatePostStep ==
  ASSUME IInv, NEW p \in latePosts, HandleLatePost(p)
  PROVE  IInv'
<1>1. PICK reply : Submit(ProviderOperationID(p.filing), p.scenario, reply)
  BY DEF HandleLatePost
<1>2. UNCHANGED <<filings, commands, reseeded, wf, mailbox, running, call,
                  latePosts, lateCommands, asserted, resumes, losses>>
  BY DEF HandleLatePost, accountableVars, runtimeVars, lateVars, operatorVars
<1>3. /\ p.filing \in Filings /\ p.scenario \in Scenarios \cup {"ok"} /\ Prepared(p.filing)
      /\ ProviderOperationID(p.filing) \in OperationIDs
  BY IInvWorld DEF IInv, TypeOK, Posts, OperationIDs
<1>4. LedgerTypeOK'
  BY <1>1, <1>3, SubmitEffect DEF IInv, TypeOK
<1>5. Fit'
  BY <1>2, <1>4 DEF IInv, Fit, TypeOK, CallsFit, AccountableTypeOK
<1>6. RuntimeKept
  BY <1>2 DEF RuntimeKept
<1>. QED BY <1>1, <1>2, <1>3, <1>5, <1>6, SubmitWorld, Frame

LEMMA CompleteStep ==
  ASSUME IInv, NEW f \in Filings, CompleteOperation(f)
  PROVE  IInv'
<1> DEFINE o == ProviderOperationID(f)
           entry == [ledger[o] EXCEPT !.status = "accepted"]
<1>1. /\ ledger[o].status = "processing" /\ ledger' = [ledger EXCEPT ![o] = entry]
      /\ UNCHANGED <<filings, commands, reseeded, wf, mailbox, running, call,
                     latePosts, lateCommands, asserted, resumes, losses>>
  BY DEF CompleteOperation, Complete, accountableVars, runtimeVars, lateVars, operatorVars
<1>2. Prepared(f)
  BY <1>1, IInvWorld DEF WorldTrue, IntentBeforeEffect, Known, Prepared
<1>3. LedgerTypeOK'
  <2>1. PICK e : e = [ledger[o] EXCEPT !.status = "accepted"]
    OBVIOUS
  <2>2. LedgerTypeOK /\ o \in OperationIDs
    BY DEF IInv, TypeOK, OperationIDs
  <2>3. ledger[o] \in [status : LedgerStatuses, scenario : Scenarios \cup {"ok"}]
    BY <2>2 DEF LedgerTypeOK
  <2>4. e \in [status : LedgerStatuses, scenario : Scenarios \cup {"ok"}]
    BY <2>1, <2>3 DEF LedgerStatuses, FinalStates
  <2>5. ledger' = [ledger EXCEPT ![o] = e]
    BY <1>1, <2>1
  <2>. HIDE DEF o
  <2>. QED BY <2>2, <2>4, <2>5 DEF LedgerTypeOK
<1>4. Fit'
  <2>1. TypeOK /\ CallsFit
    BY DEF IInv
  <2>2. TypeOK'
    BY <1>1, <1>3, <2>1 DEF TypeOK, AccountableTypeOK
  <2>3. CallsFit'
    BY <1>1, <2>1 DEF CallsFit
  <2>. QED BY <2>2, <2>3 DEF Fit
<1>5. RuntimeKept
  BY <1>1 DEF RuntimeKept
<1>6. ledger[o].status \notin FinalStates
  BY <1>1 DEF FinalStates
<1>. QED BY <1>1, <1>2, <1>4, <1>5, <1>6, LedgerWorld, Frame

-----------------------------------------------------------------------------
(* Actions that move the books. *)

LEMMA BooksWorld ==
  ASSUME IInv, NEW req \in Requests, CommandTrue(req), TakeEffect(req),
         UNCHANGED <<ledger, asserted>>
  PROVE  WorldTrue' /\ WorldMonotone
<1> DEFINE h == req.filing
           row == BookedRow(req)
<1>1. h \in Filings /\ req.key \in CommandKeys /\ req # NoCommand
  BY RequestShape
<1>2. /\ row.state = commandTransitions[req.type]
      /\ req.type = "PrepareFilingSubmission" => row.op = ProviderOperationID(h)
      /\ req.type # "PrepareFilingSubmission" => row.op = filings[h].op
  BY DEF BookedRow, CommandTrue
<1>3. /\ filings' = [filings EXCEPT ![h] = row]
      /\ commands' = [commands EXCEPT ![req.key] = req]
  BY DEF TakeEffect
<1>. HIDE DEF row
<1>4. /\ filings'[h] = row
      /\ \A g \in Filings : g # h => filings'[g] = filings[g]
      /\ \A k \in CommandKeys : k # req.key => commands'[k] = commands[k]
  BY <1>1, <1>3 DEF IInv, TypeOK, AccountableTypeOK
<1>5. WorldTrue
  BY IInvWorld
<1>6. row.state \notin {"absent", "ready"}
  BY <1>2, RequestShape DEF commandTransitions
<1>7. Prepared(h)'
  <2>1. CASE req.type = "PrepareFilingSubmission"
    BY <1>2, <1>4, <2>1 DEF Prepared
  <2>2. CASE req.type # "PrepareFilingSubmission"
    <3>1. filings[h].state \notin {"absent", "ready"}
      <4>1. CommandAllowsState(req.type, filings[h].state)
        BY DEF TakeEffect, Applies
      <4>. QED BY <4>1, <2>2 DEF CommandAllowsState
    <3>2. Prepared(h)
      BY <1>1, <1>5, <3>1 DEF WorldTrue
    <3>. QED BY <1>2, <1>4, <2>2, <3>2 DEF Prepared
  <2>. QED BY <2>1, <2>2
<1>8. WorldMonotone
  BY <1>4, <1>7 DEF WorldMonotone, Prepared, Vouched
<1>9. IntentBeforeEffect'
  BY <1>5, <1>8 DEF WorldTrue, WorldMonotone, IntentBeforeEffect, Known, Prepared
<1>10. TruthfulOutcome'
  <2>1. row.state \in FinalStates => Vouched(h, row.state)
    BY <1>2 DEF CommandTrue
  <2>2. \A g \in Filings : filings[g].state \in FinalStates => Vouched(g, filings[g].state)
    BY <1>5 DEF WorldTrue, TruthfulOutcome
  <2>. QED BY <1>4, <2>1, <2>2 DEF TruthfulOutcome, Vouched
<1>11. \A g \in Filings : Logged(g, IntentKey(g))' => Prepared(g)'
  <2>1. SUFFICES ASSUME NEW g \in Filings, g # h, Logged(g, IntentKey(g))'
                 PROVE  Prepared(g)'
    BY <1>7
  <2>2. IntentKey(g) \in CommandKeys /\ IntentKey(g) # req.key
    <3>1. IntentKey(g) # IntentKey(h)
      BY <2>1 DEF IntentKey, SubmissionIntentCommandKey, WorkflowID
    <3>. QED BY <1>1, <2>1, <3>1, KeysTyped, KeysDistinct, RequestShape DEF IntentKey
  <2>3. Logged(g, IntentKey(g))
    BY <1>4, <2>1, <2>2 DEF Logged
  <2>4. Prepared(g)
    BY <1>5, <2>3 DEF WorldTrue
  <2>. QED BY <1>8, <2>4 DEF WorldMonotone
<1>12. \A g \in Filings :
         /\ filings'[g].state \in {"absent", "ready"} => filings'[g].op = NoOperation
         /\ filings'[g].state \notin {"absent", "ready"} => Prepared(g)'
  BY <1>4, <1>5, <1>6, <1>7, <1>8 DEF WorldTrue, WorldMonotone
<1>13. WorldTrue'
  BY <1>9, <1>10, <1>11, <1>12 DEF WorldTrue, IntentKey, WorkflowID, SubmissionIntentCommandKey
<1>. QED BY <1>8, <1>13

LEMMA ApplyWorld ==
  ASSUME IInv, NEW req \in Requests, CommandTrue(req), ApplyCommand(req),
         UNCHANGED <<ledger, asserted>>
  PROVE  WorldTrue' /\ WorldMonotone
<1>1. CASE TakeEffect(req)
  BY <1>1, BooksWorld
<1>2. CASE UNCHANGED accountableVars
  BY <1>2, SameWorld DEF accountableVars
<1>. QED BY <1>1, <1>2 DEF ApplyCommand

(* The answer "ok" to an intent means that the intent is booked. *)
LEMMA IntentAnswered ==
  ASSUME IInv, NEW f \in Filings, NEW req \in Requests, ApplyCommand(req),
         CommandTrue(req), req.filing = f, req.type = "PrepareFilingSubmission"
  PROVE  Prepared(f)'
<1>1. CASE TakeEffect(req)
  <2>1. filings'[f] = BookedRow(req)
    BY <1>1 DEF TakeEffect, IInv, TypeOK, AccountableTypeOK
  <2>. QED BY <2>1 DEF Prepared, BookedRow, CommandTrue
<1>2. CASE Replays(req) /\ UNCHANGED accountableVars
  <2>1. req # NoCommand /\ req.key = IntentKey(f)
    BY RequestShape DEF IntentKey
  <2>2. Logged(f, IntentKey(f))
    BY <1>2, <2>1 DEF Replays, Logged
  <2>3. Prepared(f)
    BY <2>2, IInvWorld DEF WorldTrue
  <2>. QED BY <1>2, <2>3 DEF Prepared, accountableVars
<1>. QED BY <1>1, <1>2 DEF ApplyCommand

LEMMA CommandStep ==
  ASSUME IInv, NEW f \in Filings, HandleCommand(f)
  PROVE  IInv'
<1>1. PICK a \in {"ok", "error"} :
        /\ a = "ok" => ApplyCommand(Command(f))
        /\ a = "error" => UNCHANGED accountableVars
        /\ call' = [call EXCEPT ![f].phase = "answered", ![f].answer = a]
  BY DEF HandleCommand, Answer
<1>2. /\ running[f] /\ wf[f].pc \in CommandSteps
      /\ UNCHANGED <<ledger, wf, mailbox, running, latePosts, lateCommands,
                     asserted, resumes, losses>>
  BY DEF HandleCommand, InFlight, Answer, lateVars, operatorVars
<1>3. PICK req : req = Command(f)
  OBVIOUS
<1>4. /\ req \in Requests /\ req.filing = f
      /\ req.type = "PrepareFilingSubmission" <=> wf[f].pc = "prepare"
      /\ req.type = "PrepareFilingSubmission" => req.op = ProviderOperationID(f)
      /\ commandTransitions[req.type] \in FinalStates
           => commandTransitions[req.type] = wf[f].outcome
  BY <1>2, <1>3, CommandIsRequest DEF IInv
<1>5. CommandTrue(req)
  BY <1>4, IInvWorld DEF CommandTrue
<1>6. a = "ok" => ApplyCommand(req)
  BY <1>1, <1>3
<1>7. WorldTrue' /\ WorldMonotone /\ AccountableTypeOK'
  <2>1. CASE a = "ok"
    BY <1>2, <1>4, <1>5, <1>6, <2>1, ApplyWorld, ApplyCommandType DEF IInv, TypeOK
  <2>2. CASE a = "error"
    BY <1>1, <1>2, <2>2, SameWorld DEF accountableVars, IInv, TypeOK, AccountableTypeOK
  <2>. QED BY <2>1, <2>2
<1>8. /\ CallsFit' /\ call' \in [Filings -> Calls]
      /\ \A g \in Filings : g # f => call'[g] = call[g]
      /\ call'[f].answer = a
  <2>1. a \in Answers /\ wf[f].pc \in Steps
    BY <1>2 DEF Answers, Steps
  <2>2. a \in AnswersTo(wf[f].pc)
    BY <1>2 DEF AnswersTo, ReadSteps, StatusSteps, PostSteps, CommandSteps
  <2>. QED BY <1>1, <1>2, <2>1, <2>2, AnswerFit DEF Fit, IInv
<1>9. Fit'
  BY <1>2, <1>7, <1>8 DEF IInv, Fit, TypeOK, LedgerTypeOK
<1>10. AnswerTrue(f)'
  <2>1. wf[f].pc = "prepare" /\ a = "ok" => Prepared(f)'
    BY <1>4, <1>5, <1>6, IntentAnswered
  <2>. QED BY <1>2, <1>8, <2>1
           DEF AnswerTrue, Answered, CommandSteps, StatusSteps, PostSteps
<1>11. RuntimeKept
  BY <1>2, <1>8, <1>10 DEF RuntimeKept
<1>. QED BY <1>7, <1>9, <1>11, Frame

(* A true command is served, and nobody waits for the reply. *)
LEMMA UnheardCommandStep ==
  ASSUME IInv, NEW req \in Requests, CommandTrue(req), ApplyCommand(req),
         UNCHANGED <<ledger, wf, mailbox, running, call, latePosts, lateCommands,
                     asserted, resumes, losses>>
  PROVE  IInv'
<1>1. Fit'
  BY ApplyCommandType DEF IInv, Fit, TypeOK, CallsFit, LedgerTypeOK
<1>2. RuntimeKept
  BY DEF RuntimeKept
<1>. QED BY <1>1, <1>2, ApplyWorld, Frame

LEMMA LateCommandStep ==
  ASSUME IInv, NEW req \in lateCommands, HandleLateCommand(req)
  PROVE  IInv'
<1>1. req \in Requests /\ CommandTrue(req)
  BY IInvWorld
<1>2. /\ ApplyCommand(req)
      /\ UNCHANGED <<ledger, wf, mailbox, running, call, latePosts, lateCommands,
                     asserted, resumes, losses>>
  BY DEF HandleLateCommand, runtimeVars, lateVars, operatorVars
<1>. QED BY <1>1, <1>2, UnheardCommandStep

(* A filing that is entered has no operation, so nobody relies on one. *)
LEMMA SeedStep ==
  ASSUME IInv, NEW f \in Filings, NEW s \in Scenarios, SeedFiling(f, s)
  PROVE  IInv'
<1>1. /\ filings[f].state = "absent" /\ PutFiling(f, s)
      /\ UNCHANGED <<commands, ledger, wf, mailbox, running, call, latePosts, lateCommands,
                     asserted, resumes, losses>>
  BY DEF SeedFiling, PutFiling, runtimeVars, lateVars, operatorVars
<1>2. ~Prepared(f)
  BY <1>1, IInvWorld, DomainAssumption DEF WorldTrue, Prepared, OperationIDs
<1>3. /\ filings'[f].state = "ready" /\ filings'[f].op = NoOperation
      /\ \A g \in Filings : g # f => filings'[g] = filings[g]
  BY <1>1 DEF PutFiling, IInv, TypeOK, AccountableTypeOK
<1>4. WorldTrue
  BY IInvWorld
<1>5. WorldMonotone
  BY <1>1, <1>2, <1>3 DEF WorldMonotone, Prepared, Vouched
<1>6. IntentBeforeEffect'
  BY <1>1, <1>2, <1>3, <1>4 DEF WorldTrue, IntentBeforeEffect, Known, Prepared
<1>7. TruthfulOutcome'
  BY <1>1, <1>3, <1>4 DEF WorldTrue, TruthfulOutcome, Vouched, FinalStates
<1>8. WorldTrue'
  BY <1>1, <1>2, <1>3, <1>4, <1>6, <1>7
     DEF WorldTrue, Prepared, Logged, IntentKey, WorkflowID, SubmissionIntentCommandKey
<1>9. Fit'
  BY <1>1, PutFilingType DEF IInv, Fit, TypeOK, CallsFit, LedgerTypeOK
<1>10. RuntimeKept
  BY <1>1 DEF RuntimeKept
<1>. QED BY <1>5, <1>8, <1>9, <1>10, Frame

-----------------------------------------------------------------------------
(* The invariant, and the properties it implies. *)

LEMMA InitIInv == Init => IInv
<1>. SUFFICES ASSUME Init
              PROVE  IInv
  OBVIOUS
<1>1. TypeOK
  <2>1. AccountableTypeOK
    BY InitType DEF Init
  <2>2. LedgerTypeOK
    BY DEF Init, ProviderInit, LedgerTypeOK, NoEntry, LedgerStatuses
  <2>3. 0 \in 0..MaxResumes /\ 0 \in 0..MaxLosses
    BY WorkflowAssumption
  <2>. QED BY <2>1, <2>2, <2>3, NoRunType, IdleType DEF Init, TypeOK
<1>2. \A f \in Filings :
        /\ wf[f].pc = "validate" /\ wf[f].outcome = "" /\ wf[f].status = "absent"
        /\ ~running[f] /\ call[f].phase = "idle" /\ mailbox[f] = NoMessage
        /\ filings[f].state = "absent" /\ filings[f].op = NoOperation
        /\ ~Known(ProviderOperationID(f))
  BY DEF Init, NoRun, Idle, AccountableInit, AbsentRow, ProviderInit, NoEntry, Known,
     OperationIDs
<1>3. \A f \in Filings : ~Logged(f, SubmissionIntentCommandKey(WorkflowID(f)))
  BY KeysTyped DEF Init, AccountableInit, Logged
<1>4. CallsFit /\ IntentBeforeEffect /\ TruthfulOutcome
  BY <1>2 DEF CallsFit, IntentBeforeEffect, TruthfulOutcome, FinalStates
<1>5. IntentCarried
  BY <1>2, <1>3 DEF Init, IntentCarried, KnownPrepared, PreparedPcs, Answered
<1>6. OutcomeCarried
  BY <1>2 DEF Init, OutcomeCarried, Answered, FinalStates
<1>. QED BY <1>1, <1>4, <1>5, <1>6 DEF IInv

LEMMA ProgressStep ==
  ASSUME IInv, NEW f \in Filings, Progress(f)
  PROVE  IInv'
<1>1. CASE Begin(f) \/ StopCancelled(f) \/ Return(f)
  BY <1>1, ExecutionSteps
<1>2. CASE Send(f) \/ RetryStep(f)
  BY <1>2, SendStep
<1>3. CASE HandleGetFiling(f) \/ HandleStatus(f) \/ HandleSubmit(f) \/ HandleCommand(f)
  BY <1>3, ReadStep, StatusStep, SubmitStep, CommandStep
<1>4. CASE GiveUp(f) \/ FailStep(f)
  BY <1>4, GiveUpStep, FailStepStep
<1>5. CASE AfterValidate(f) \/ AfterPrepare(f) \/ AfterFindExisting(f)
  BY <1>5, AfterValidateStep, AfterPrepareStep, AfterFindExistingStep
<1>6. CASE AfterSubmit(f) \/ AfterResolveAmbiguous(f) \/ AfterResubmit(f)
  BY <1>6, AfterSubmitStep, AfterResolveAmbiguousStep, AfterResubmitStep
<1>7. CASE Recv(f) \/ RecvTimeout(f) \/ AfterPollStatus(f)
  BY <1>7, RecvStep, RecvTimeoutStep, AfterPollStatusStep
<1>8. CASE AfterMarkSubmitted(f) \/ AfterRecordOutcome(f) \/ AfterReconcileFinal(f)
  BY <1>8, PlainSteps
<1>. QED BY <1>1, <1>2, <1>3, <1>4, <1>5, <1>6, <1>7, <1>8 DEF Progress

LEMMA EnvironmentStep ==
  ASSUME IInv, NEW f \in Filings, Environment(f)
  PROVE  IInv'
<1>1. CASE \E s \in Scenarios : SeedFiling(f, s) \/ Enqueue(f, s)
  BY <1>1, SeedStep, EnqueueStep
<1>2. CASE Cancel(f) \/ Resume(f)
  BY <1>2, ExecutionSteps
<1>3. CASE CompleteOperation(f)
  BY <1>3, CompleteStep
<1>4. CASE DeliverCallback(f) \/ \E outcome \in OperatorOutcomes : OperatorSend(f, outcome)
  BY <1>4, DeliverySteps
<1>. QED BY <1>1, <1>2, <1>3, <1>4 DEF Environment

(* Nothing changes: every part of the invariant is about these variables. *)
LEMMA StutterStep ==
  ASSUME IInv, UNCHANGED vars
  PROVE  IInv'
<1>1. UNCHANGED <<filings, commands, reseeded, ledger, wf, mailbox, running, call,
                  latePosts, lateCommands, asserted, resumes, losses>>
  BY DEF vars
<1>2. Fit'
  BY <1>1 DEF IInv, Fit, TypeOK, CallsFit, AccountableTypeOK, LedgerTypeOK
<1>3. RuntimeKept
  BY <1>1 DEF RuntimeKept
<1>. QED BY <1>1, <1>2, <1>3, SameWorld, Frame

LEMMA NextStep ==
  ASSUME IInv, [Next]_vars
  PROVE  IInv'
<1>1. CASE \E f \in Filings : Progress(f) \/ Environment(f)
  BY <1>1, ProgressStep, EnvironmentStep
<1>2. CASE \E p \in latePosts : HandleLatePost(p)
  BY <1>2, LatePostStep
<1>3. CASE \E req \in lateCommands : HandleLateCommand(req)
  BY <1>3, LateCommandStep
<1>4. CASE Crash \/ LoseRuntime
  BY <1>4, CrashStep
<1>5. CASE UNCHANGED vars
  BY <1>5, StutterStep
<1>. QED BY <1>1, <1>2, <1>3, <1>4, <1>5 DEF Next

(* IInv is an inductive invariant of the workflow with its surroundings. *)
THEOREM Invariance == Spec => []IInv
<1>1. IInv /\ [Next]_vars => IInv'
  BY NextStep
<1>. QED BY InitIInv, <1>1, PTL DEF Spec

(* Every variable of the workflow and its surroundings keeps its type       *)
(* (workflow/filing.go, Filing, and what it talks to).                      *)
THEOREM TypeCorrect == Spec => []TypeOK
<1>1. IInv => TypeOK
  BY DEF IInv
<1>. QED BY <1>1, Invariance, PTL

(* The intent is durable before the external effect (filing.go:122): the    *)
(* authority knows no operation that Accountable has not booked.            *)
THEOREM IntentIsDurableFirst == Spec => []IntentBeforeEffect
<1>1. IInv => IntentBeforeEffect
  BY DEF IInv
<1>. QED BY <1>1, Invariance, PTL

(* No outcome is ever invented: what Accountable books as final, the        *)
(* authority decided or an operator asserted (filing.go:300, recordOutcome).*)
THEOREM OutcomesAreTruthful == Spec => []TruthfulOutcome
<1>1. IInv => TruthfulOutcome
  BY DEF IInv
<1>. QED BY <1>1, Invariance, PTL

-----------------------------------------------------------------------------
(* Work runs down: one lemma per part of WorkLeft. *)

LEMMA SameWork ==
  ASSUME NEW f, wf'[f] = wf[f], running'[f] = running[f], call'[f] = call[f]
  PROVE  RunsDown(f)
BY DEF RunsDown

LEMMA Shrinks ==
  ASSUME NEW m \in Nat, NEW a \in Nat, NEW b \in Nat, b > a
  PROVE  m - b < m - a
OBVIOUS

LEMMA DownAt ==
  ASSUME NEW f, NEW k \in 1..10, WorkLeft(f)'[k] < WorkLeft(f)[k],
         \A j \in 1..10 : j < k => WorkLeft(f)'[j] = WorkLeft(f)[j]
  PROVE  RunsDown(f)
<1>1. Less(WorkLeft(f)', WorkLeft(f))
  BY DEF Less
<1>. QED BY <1>1 DEF RunsDown

LEMMA LossDown ==
  ASSUME IInv, IInv', NEW f \in Filings, losses' > losses
  PROVE  RunsDown(f)
<1>1. WorkLeft(f)'[1] < WorkLeft(f)[1]
  <2>1. losses \in Nat /\ losses' \in Nat /\ MaxLosses \in Nat
    BY WorkflowAssumption DEF IInv, TypeOK
  <2>2. WorkLeft(f)'[1] = MaxLosses - losses' /\ WorkLeft(f)[1] = MaxLosses - losses
    BY DEF WorkLeft
  <2>3. MaxLosses - losses' < MaxLosses - losses
    BY <2>1, Shrinks
  <2>. QED BY <2>2, <2>3
<1>2. \A j \in 1..10 : j < 1 => WorkLeft(f)'[j] = WorkLeft(f)[j]
  OBVIOUS
<1>. QED BY <1>1, <1>2, DownAt

LEMMA ResumeDown ==
  ASSUME IInv, IInv', NEW f \in Filings, losses' = losses, resumes' > resumes
  PROVE  RunsDown(f)
<1>1. WorkLeft(f)'[2] < WorkLeft(f)[2]
  <2>1. resumes \in Nat /\ resumes' \in Nat /\ MaxResumes \in Nat
    BY WorkflowAssumption DEF IInv, TypeOK
  <2>2. WorkLeft(f)'[2] = MaxResumes - resumes' /\ WorkLeft(f)[2] = MaxResumes - resumes
    BY DEF WorkLeft
  <2>3. MaxResumes - resumes' < MaxResumes - resumes
    BY <2>1, Shrinks
  <2>. QED BY <2>2, <2>3
<1>2. \A j \in 1..10 : j < 2 => WorkLeft(f)'[j] = WorkLeft(f)[j]
  BY DEF WorkLeft
<1>. QED BY <1>1, <1>2, DownAt

LEMMA RowDown ==
  ASSUME NEW f \in Filings, UNCHANGED <<losses, resumes>>,
         RowRank(wf'[f].status) < RowRank(wf[f].status)
  PROVE  RunsDown(f)
<1>1. WorkLeft(f)'[3] < WorkLeft(f)[3]
  BY DEF WorkLeft
<1>2. \A j \in 1..10 : j < 3 => WorkLeft(f)'[j] = WorkLeft(f)[j]
  BY DEF WorkLeft
<1>. QED BY <1>1, <1>2, DownAt

LEMMA AttemptDown ==
  ASSUME IInv, IInv', NEW f \in Filings, UNCHANGED <<losses, resumes>>,
         wf'[f].status = wf[f].status, wf'[f].attempts > wf[f].attempts
  PROVE  RunsDown(f)
<1>1. WorkLeft(f)'[4] < WorkLeft(f)[4]
  <2>1. wf[f] \in Runs /\ wf'[f] \in Runs /\ MaxRecovery \in Nat
    BY WorkflowAssumption DEF IInv, TypeOK
  <2>2. wf[f].attempts \in Nat /\ wf'[f].attempts \in Nat
    BY <2>1 DEF Runs
  <2>3. /\ WorkLeft(f)'[4] = MaxRecovery + 1 - wf'[f].attempts
        /\ WorkLeft(f)[4] = MaxRecovery + 1 - wf[f].attempts
    BY DEF WorkLeft
  <2>. QED BY <2>1, <2>2, <2>3
<1>2. \A j \in 1..10 : j < 4 => WorkLeft(f)'[j] = WorkLeft(f)[j]
  BY DEF WorkLeft
<1>. QED BY <1>1, <1>2, DownAt

SameAttempt(f) ==
  /\ UNCHANGED <<losses, resumes>>
  /\ RowRank(wf'[f].status) = RowRank(wf[f].status)
  /\ wf'[f].attempts = wf[f].attempts

LEMMA ExecutionDown ==
  ASSUME NEW f \in Filings, SameAttempt(f), running[f], ~running'[f]
  PROVE  RunsDown(f)
<1>1. WorkLeft(f)'[5] < WorkLeft(f)[5]
  BY DEF WorkLeft
<1>2. \A j \in 1..10 : j < 5 => WorkLeft(f)'[j] = WorkLeft(f)[j]
  BY DEF WorkLeft, SameAttempt
<1>. QED BY <1>1, <1>2, DownAt

LEMMA StepDown ==
  ASSUME NEW f \in Filings, SameAttempt(f), running' = running,
         StepRank(wf'[f].pc) < StepRank(wf[f].pc)
  PROVE  RunsDown(f)
<1>1. WorkLeft(f)'[6] < WorkLeft(f)[6]
  BY DEF WorkLeft
<1>2. \A j \in 1..10 : j < 6 => WorkLeft(f)'[j] = WorkLeft(f)[j]
  BY DEF WorkLeft, SameAttempt
<1>. QED BY <1>1, <1>2, DownAt

LEMMA PollDown ==
  ASSUME IInv, IInv', NEW f \in Filings, SameAttempt(f), running' = running,
         StepRank(wf'[f].pc) = StepRank(wf[f].pc), wf'[f].polls > wf[f].polls
  PROVE  RunsDown(f)
<1>1. WorkLeft(f)'[7] < WorkLeft(f)[7]
  <2>1. wf[f] \in Runs /\ wf'[f] \in Runs /\ StatusPolls \in Nat
    BY WorkflowAssumption DEF IInv, TypeOK
  <2>2. wf[f].polls \in Nat /\ wf'[f].polls \in Nat
    BY <2>1 DEF Runs
  <2>3. /\ WorkLeft(f)'[7] = StatusPolls - wf'[f].polls
        /\ WorkLeft(f)[7] = StatusPolls - wf[f].polls
    BY DEF WorkLeft
  <2>. QED BY <2>1, <2>2, <2>3
<1>2. \A j \in 1..10 : j < 7 => WorkLeft(f)'[j] = WorkLeft(f)[j]
  BY DEF WorkLeft, SameAttempt
<1>. QED BY <1>1, <1>2, DownAt

LEMMA WaitDown ==
  ASSUME NEW f \in Filings, SameAttempt(f), running' = running,
         StepRank(wf'[f].pc) = StepRank(wf[f].pc), wf'[f].polls = wf[f].polls,
         wf[f].pc = "recv", wf'[f].pc # "recv"
  PROVE  RunsDown(f)
<1>1. WorkLeft(f)'[8] < WorkLeft(f)[8]
  BY DEF WorkLeft
<1>2. \A j \in 1..10 : j < 8 => WorkLeft(f)'[j] = WorkLeft(f)[j]
  BY DEF WorkLeft, SameAttempt
<1>. QED BY <1>1, <1>2, DownAt

LEMMA RetryDown ==
  ASSUME IInv, IInv', NEW f \in Filings, UNCHANGED <<losses, resumes, running, wf>>,
         call'[f].tries > call[f].tries
  PROVE  RunsDown(f)
<1>1. WorkLeft(f)'[9] < WorkLeft(f)[9]
  <2>1. call[f] \in Calls /\ call'[f] \in Calls /\ StepRetries \in Nat
    BY WorkflowAssumption DEF IInv, TypeOK
  <2>2. call[f].tries \in Nat /\ call'[f].tries \in Nat
    BY <2>1 DEF Calls
  <2>3. /\ WorkLeft(f)'[9] = StepRetries - call'[f].tries
        /\ WorkLeft(f)[9] = StepRetries - call[f].tries
    BY DEF WorkLeft
  <2>. QED BY <2>1, <2>2, <2>3
<1>2. \A j \in 1..10 : j < 9 => WorkLeft(f)'[j] = WorkLeft(f)[j]
  BY DEF WorkLeft
<1>. QED BY <1>1, <1>2, DownAt

LEMMA CallDown ==
  ASSUME NEW f \in Filings, UNCHANGED <<losses, resumes, running, wf>>,
         call'[f].tries = call[f].tries, CallRank(call'[f]) < CallRank(call[f])
  PROVE  RunsDown(f)
<1>1. WorkLeft(f)'[10] < WorkLeft(f)[10]
  BY DEF WorkLeft
<1>2. \A j \in 1..10 : j < 10 => WorkLeft(f)'[j] = WorkLeft(f)[j]
  BY DEF WorkLeft
<1>. QED BY <1>1, <1>2, DownAt

-----------------------------------------------------------------------------
(* A checkpoint moves the program on, or is a poll that counts. *)

OnePlace(f, run) ==
  run.status = wf[f].status /\ run.attempts = wf[f].attempts /\ run.polls = wf[f].polls

LEMMA CheckpointedRun ==
  ASSUME IInv, NEW f \in Filings, NEW run, Checkpoint(f, run)
  PROVE  wf'[f] = run /\ running' = running /\ UNCHANGED <<losses, resumes>>
BY DEF IInv, TypeOK, Checkpoint, operatorVars

LEMMA CheckpointDown ==
  ASSUME IInv, NEW f \in Filings, NEW run, Checkpoint(f, run), OnePlace(f, run),
         StepRank(run.pc) < StepRank(wf[f].pc)
  PROVE  RunsDown(f)
<1>1. wf'[f] = run /\ running' = running /\ UNCHANGED <<losses, resumes>>
  BY CheckpointedRun
<1>2. SameAttempt(f)
  BY <1>1 DEF SameAttempt, OnePlace
<1>. QED BY <1>1, <1>2, StepDown

LEMMA GoToDown ==
  ASSUME IInv, NEW f \in Filings, NEW pc, Checkpoint(f, GoTo(f, pc)),
         StepRank(pc) < StepRank(wf[f].pc)
  PROVE  RunsDown(f)
<1>1. PICK run : run = GoTo(f, pc)
  OBVIOUS
<1>2. wf[f] \in Runs
  BY DEF IInv, TypeOK
<1>3. run.pc = pc /\ OnePlace(f, run)
  BY <1>1, <1>2 DEF GoTo, Runs, OnePlace
<1>. QED BY <1>1, <1>3, CheckpointDown

LEMMA SnapDown ==
  ASSUME IInv, NEW f \in Filings, NEW pc, NEW snap,
         Checkpoint(f, [GoTo(f, pc) EXCEPT !.snap = snap]),
         StepRank(pc) < StepRank(wf[f].pc)
  PROVE  RunsDown(f)
<1>1. PICK run : run = [GoTo(f, pc) EXCEPT !.snap = snap]
  OBVIOUS
<1>2. wf[f] \in Runs
  BY DEF IInv, TypeOK
<1>3. run.pc = pc /\ OnePlace(f, run)
  BY <1>1, <1>2 DEF GoTo, Runs, OnePlace
<1>. QED BY <1>1, <1>3, CheckpointDown

LEMMA OutcomeDown ==
  ASSUME IInv, NEW f \in Filings, NEW pc, NEW outcome, NEW detail,
         Checkpoint(f, Outcome(f, pc, outcome, detail)),
         StepRank(pc) < StepRank(wf[f].pc)
  PROVE  RunsDown(f)
<1>1. PICK run : run = Outcome(f, pc, outcome, detail)
  OBVIOUS
<1>2. wf[f] \in Runs
  BY DEF IInv, TypeOK
<1>3. run.pc = pc /\ OnePlace(f, run)
  BY <1>1, <1>2 DEF Outcome, Runs, OnePlace
<1>. QED BY <1>1, <1>3, CheckpointDown

LEMMA AcceptedDown ==
  ASSUME IInv, NEW f \in Filings, Checkpoint(f, Accepted(f)), StepRank(wf[f].pc) > 5
  PROVE  RunsDown(f)
<1>1. PICK pc \in {"recv", "markSubmitted"} : Accepted(f) = GoTo(f, pc)
  BY DEF Accepted
<1>2. StepRank(pc) < StepRank(wf[f].pc)
  <2>1. StepRank("recv") = 4 /\ StepRank("markSubmitted") = 5
    BY DEF StepRank
  <2>2. StepRank(wf[f].pc) \in Nat
    BY DEF StepRank
  <2>. QED BY <2>1, <2>2
<1>. QED BY <1>1, <1>2, GoToDown

(* The ranks of the places a step can go on from and lead to. *)
LEMMA Ranks ==
  /\ StepRank("validate") = 11 /\ StepRank("prepare") = 10
  /\ StepRank("findExisting") = 9 /\ StepRank("submit") = 8
  /\ StepRank("resolveAmbiguous") = 7 /\ StepRank("resubmit") = 6
  /\ StepRank("markSubmitted") = 5 /\ StepRank("recv") = 4 /\ StepRank("pollStatus") = 4
  /\ StepRank("record") = 3 /\ StepRank("recordFinal") = 3
  /\ StepRank("reconcileFinal") = 2 /\ StepRank("return") = 1 /\ StepRank("raise") = 1
BY DEF StepRank

LEMMA EarlySteps ==
  ASSUME IInv, NEW f \in Filings,
         AfterValidate(f) \/ AfterPrepare(f) \/ AfterFindExisting(f)
  PROVE  RunsDown(f)
<1>1. CASE AfterValidate(f)
  <2>1. wf[f].pc = "validate"
    BY <1>1 DEF AfterValidate, Succeeded
  <2> DEFINE state == call[f].answer
  <2>2. /\ StepRank("return") < StepRank(wf[f].pc) /\ StepRank("prepare") < StepRank(wf[f].pc)
        /\ StepRank("findExisting") < StepRank(wf[f].pc)
    BY <2>1, Ranks
  <2>3. CASE state \in FinalStates
    <3>1. Checkpoint(f, Outcome(f, "return", "already_final", ""))
      BY <1>1, <2>3 DEF AfterValidate, FinalStates
    <3>. QED BY <2>2, <3>1, OutcomeDown
  <2>4. CASE state = "ready"
    <3>1. Checkpoint(f, [GoTo(f, "prepare") EXCEPT !.snap = state])
      BY <1>1, <2>4 DEF AfterValidate, FinalStates
    <3>. QED BY <2>2, <3>1, SnapDown
  <2>5. CASE state \notin FinalStates \cup {"ready"}
    <3>1. Checkpoint(f, [GoTo(f, "findExisting") EXCEPT !.snap = state])
      BY <1>1, <2>5 DEF AfterValidate, FinalStates
    <3>. QED BY <2>2, <3>1, SnapDown
  <2>. QED BY <2>3, <2>4, <2>5
<1>2. CASE AfterPrepare(f)
  <2>1. /\ wf[f].pc = "prepare"
        /\ Checkpoint(f, [GoTo(f, "findExisting") EXCEPT !.snap = "submitting"])
    BY <1>2 DEF AfterPrepare, Succeeded
  <2>2. StepRank("findExisting") < StepRank(wf[f].pc)
    BY <2>1, Ranks
  <2>. QED BY <2>1, <2>2, SnapDown
<1>3. CASE AfterFindExisting(f)
  <2>1. wf[f].pc = "findExisting"
    BY <1>3 DEF AfterFindExisting, Succeeded
  <2>2. \/ Checkpoint(f, Outcome(f, "record", call[f].answer, "adopted completed submission"))
        \/ Checkpoint(f, Accepted(f))
        \/ Checkpoint(f, GoTo(f, "submit"))
    BY <1>3 DEF AfterFindExisting
  <2>3. StepRank("record") < StepRank(wf[f].pc) /\ StepRank("submit") < StepRank(wf[f].pc)
        /\ StepRank(wf[f].pc) > 5
    BY <2>1, Ranks
  <2>. QED BY <2>2, <2>3, OutcomeDown, AcceptedDown, GoToDown
<1>. QED BY <1>1, <1>2, <1>3

LEMMA SubmissionSteps ==
  ASSUME IInv, NEW f \in Filings,
         AfterSubmit(f) \/ AfterResolveAmbiguous(f) \/ AfterResubmit(f)
  PROVE  RunsDown(f)
<1>1. CASE AfterSubmit(f)
  <2>1. wf[f].pc = "submit"
    BY <1>1 DEF AfterSubmit, Succeeded
  <2>2. \/ Checkpoint(f, GoTo(f, "resolveAmbiguous"))
        \/ \E detail : Checkpoint(f, Outcome(f, "record", "rejected", detail))
        \/ Checkpoint(f, Accepted(f))
    BY <1>1 DEF AfterSubmit
  <2>3. /\ StepRank("record") < StepRank(wf[f].pc) /\ StepRank(wf[f].pc) > 5
        /\ StepRank("resolveAmbiguous") < StepRank(wf[f].pc)
    BY <2>1, Ranks
  <2>. QED BY <2>2, <2>3, OutcomeDown, AcceptedDown, GoToDown
<1>2. CASE AfterResolveAmbiguous(f)
  <2>1. wf[f].pc = "resolveAmbiguous"
    BY <1>2 DEF AfterResolveAmbiguous, Succeeded
  <2>2. \/ Checkpoint(f, GoTo(f, "resubmit"))
        \/ Checkpoint(f, Outcome(f, "record", call[f].answer,
                                 "resolved after ambiguous submit"))
        \/ Checkpoint(f, Accepted(f))
    BY <1>2 DEF AfterResolveAmbiguous
  <2>3. /\ StepRank("record") < StepRank(wf[f].pc) /\ StepRank(wf[f].pc) > 5
        /\ StepRank("resubmit") < StepRank(wf[f].pc)
    BY <2>1, Ranks
  <2>. QED BY <2>2, <2>3, OutcomeDown, AcceptedDown, GoToDown
<1>3. CASE AfterResubmit(f)
  <2>1. wf[f].pc = "resubmit"
    BY <1>3 DEF AfterResubmit, Succeeded
  <2>2. \/ \E detail : Checkpoint(f, Outcome(f, "record", "rejected", detail))
        \/ Checkpoint(f, Accepted(f))
    BY <1>3 DEF AfterResubmit
  <2>3. StepRank("record") < StepRank(wf[f].pc) /\ StepRank(wf[f].pc) > 5
    BY <2>1, Ranks
  <2>. QED BY <2>2, <2>3, OutcomeDown, AcceptedDown
<1>. QED BY <1>1, <1>2, <1>3

LEMMA WaitingSteps ==
  ASSUME IInv, IInv', NEW f \in Filings, Recv(f) \/ RecvTimeout(f) \/ AfterPollStatus(f)
  PROVE  RunsDown(f)
<1>1. CASE Recv(f)
  <2>1. /\ wf[f].pc = "recv"
        /\ Checkpoint(f, Outcome(f, "recordFinal", mailbox[f].outcome, mailbox[f].detail))
    BY <1>1 DEF Recv
  <2>2. StepRank("recordFinal") < StepRank(wf[f].pc)
    BY <2>1, Ranks
  <2>. QED BY <2>1, <2>2, OutcomeDown
<1>2. CASE RecvTimeout(f)
  <2>1. PICK run : run = GoTo(f, "pollStatus")
    OBVIOUS
  <2>2. wf[f].pc = "recv" /\ Checkpoint(f, run)
    BY <1>2, <2>1 DEF RecvTimeout
  <2>3. wf[f] \in Runs
    BY DEF IInv, TypeOK
  <2>4. run.pc = "pollStatus" /\ OnePlace(f, run)
    BY <2>1, <2>3 DEF GoTo, Runs, OnePlace
  <2>5. wf'[f] = run /\ running' = running /\ UNCHANGED <<losses, resumes>>
    BY <2>2, CheckpointedRun
  <2>6. SameAttempt(f) /\ wf'[f].polls = wf[f].polls /\ wf'[f].pc # "recv"
    BY <2>4, <2>5 DEF SameAttempt, OnePlace
  <2>7. StepRank(wf'[f].pc) = StepRank(wf[f].pc)
    BY <2>2, <2>4, <2>5, Ranks
  <2>. QED BY <2>2, <2>5, <2>6, <2>7, WaitDown
<1>3. CASE AfterPollStatus(f)
  <2> DEFINE polled == [wf[f] EXCEPT !.polls = @ + 1, !.pc = "recv"]
  <2>1. wf[f].pc = "pollStatus"
    BY <1>3 DEF AfterPollStatus, Succeeded
  <2>2. \/ \E outcome, detail : Checkpoint(f, Outcome(f, "recordFinal", outcome, detail))
        \/ Checkpoint(f, polled)
    BY <1>3 DEF AfterPollStatus
  <2>3. CASE \E outcome, detail : Checkpoint(f, Outcome(f, "recordFinal", outcome, detail))
    <3>1. StepRank("recordFinal") < StepRank(wf[f].pc)
      BY <2>1, Ranks
    <3>. QED BY <2>3, <3>1, OutcomeDown
  <2>4. CASE Checkpoint(f, polled)
    <3>1. PICK run : run = polled
      OBVIOUS
    <3>2. wf[f] \in Runs
      BY DEF IInv, TypeOK
    <3>3. /\ run.pc = "recv" /\ run.polls > wf[f].polls
          /\ run.status = wf[f].status /\ run.attempts = wf[f].attempts
      BY <3>1, <3>2 DEF Runs
    <3>4. Checkpoint(f, run)
      BY <2>4, <3>1
    <3>5. wf'[f] = run /\ running' = running /\ UNCHANGED <<losses, resumes>>
      BY <3>4, CheckpointedRun
    <3>6. SameAttempt(f) /\ StepRank(wf'[f].pc) = StepRank(wf[f].pc)
      BY <2>1, <3>3, <3>5, Ranks DEF SameAttempt
    <3>7. wf'[f].polls > wf[f].polls
      BY <3>3, <3>5
    <3>. QED BY <3>5, <3>6, <3>7, PollDown
  <2>. QED BY <2>2, <2>3, <2>4
<1>. QED BY <1>1, <1>2, <1>3

LEMMA LastSteps ==
  ASSUME IInv, NEW f \in Filings,
         \/ AfterMarkSubmitted(f) \/ AfterRecordOutcome(f) \/ AfterReconcileFinal(f)
         \/ FailStep(f)
  PROVE  RunsDown(f)
<1>1. CASE AfterMarkSubmitted(f)
  BY <1>1, Ranks, GoToDown DEF AfterMarkSubmitted, Succeeded
<1>2. CASE AfterRecordOutcome(f)
  BY <1>2, Ranks, GoToDown DEF AfterRecordOutcome, Succeeded
<1>3. CASE AfterReconcileFinal(f)
  <2>1. PICK pc \in {"return", "raise"} : Checkpoint(f, GoTo(f, pc))
    BY <1>3 DEF AfterReconcileFinal
  <2>2. StepRank(pc) < StepRank(wf[f].pc)
    BY <1>3, Ranks DEF AfterReconcileFinal, Succeeded
  <2>. QED BY <2>1, <2>2, GoToDown
<1>4. CASE FailStep(f)
  <2>1. wf[f].pc \in Steps
    BY <1>4 DEF IInv, CallsFit, FailStep, Failed
  <2>2. StepRank("raise") < StepRank(wf[f].pc)
    BY <2>1, Ranks
       DEF Steps, ReadSteps, StatusSteps, PostSteps, CommandSteps
  <2>3. wf[f].pc = "submit" => StepRank("record") < StepRank(wf[f].pc)
    BY Ranks
  <2>4. CASE wf[f].pc = "submit"
    BY <1>4, <2>3, <2>4, OutcomeDown DEF FailStep
  <2>5. CASE wf[f].pc # "submit"
    BY <1>4, <2>2, <2>5, GoToDown DEF FailStep
  <2>. QED BY <2>4, <2>5
<1>. QED BY <1>1, <1>2, <1>3, <1>4

-----------------------------------------------------------------------------
(* Every step of the system, for one filing: either it is not about the     *)
(* workflow of the filing, or it takes from what is left to do.             *)

LEMMA LifeDown ==
  ASSUME IInv, IInv', NEW f \in Filings, Begin(f) \/ StopCancelled(f) \/ Return(f)
  PROVE  RunsDown(f)
<1>1. /\ wf[f] \in Runs /\ wf \in [Filings -> Runs] /\ running \in [Filings -> BOOLEAN]
      /\ UNCHANGED <<losses, resumes>>
  BY DEF IInv, TypeOK, Begin, StopCancelled, Return, operatorVars
<1>2. CASE Begin(f)
  <2>1. CASE wf[f].attempts <= MaxRecovery
    <3>1. wf' = [wf EXCEPT ![f].status = "PENDING", ![f].attempts = @ + 1]
      BY <1>2, <2>1 DEF Begin
    <3>2. wf'[f].status = "PENDING" /\ wf'[f].attempts > wf[f].attempts
      BY <1>1, <3>1 DEF Runs
    <3>3. CASE wf[f].status = "PENDING"
      BY <1>1, <3>2, <3>3, AttemptDown
    <3>4. CASE wf[f].status = "ENQUEUED"
      <4>1. RowRank(wf'[f].status) < RowRank(wf[f].status)
        BY <3>2, <3>4 DEF RowRank
      <4>. QED BY <1>1, <4>1, RowDown
    <3>. QED BY <1>2, <3>3, <3>4 DEF Begin
  <2>2. CASE ~(wf[f].attempts <= MaxRecovery)
    <3>1. wf' = [wf EXCEPT ![f].status = "MAX_RECOVERY_ATTEMPTS_EXCEEDED"]
      BY <1>2, <2>2 DEF Begin
    <3>2. wf'[f].status = "MAX_RECOVERY_ATTEMPTS_EXCEEDED"
      BY <1>1, <3>1 DEF Runs
    <3>3. RowRank(wf'[f].status) < RowRank(wf[f].status)
      BY <1>2, <3>2 DEF Begin, RowRank
    <3>. QED BY <1>1, <3>3, RowDown
  <2>. QED BY <2>1, <2>2
<1>3. CASE StopCancelled(f)
  <2>1. running[f] /\ ~running'[f] /\ wf' = wf
    BY <1>1, <1>3 DEF StopCancelled
  <2>2. SameAttempt(f)
    BY <1>1, <2>1 DEF SameAttempt
  <2>. QED BY <2>1, <2>2, ExecutionDown
<1>4. CASE Return(f)
  <2>1. PICK status : /\ wf' = [wf EXCEPT ![f].status = status]
                      /\ status = wf[f].status \/ status \in Ended
    BY <1>4 DEF Return, Ended
  <2>2. running[f] /\ ~running'[f]
    BY <1>1, <1>4 DEF Return
  <2>3. wf'[f].status = status /\ wf'[f].attempts = wf[f].attempts
    BY <1>1, <2>1 DEF Runs
  <2>4. CASE RowRank(status) = RowRank(wf[f].status)
    <3>1. SameAttempt(f)
      BY <1>1, <2>3, <2>4 DEF SameAttempt
    <3>. QED BY <2>2, <3>1, ExecutionDown
  <2>5. CASE RowRank(status) < RowRank(wf[f].status)
    BY <1>1, <2>3, <2>5, RowDown
  <2>6. RowRank(status) = RowRank(wf[f].status) \/ RowRank(status) < RowRank(wf[f].status)
    BY <2>1 DEF RowRank, Ended
  <2>. QED BY <2>4, <2>5, <2>6
<1>. QED BY <1>2, <1>3, <1>4

LEMMA AnsweredDown ==
  ASSUME IInv, NEW f \in Filings, NEW a, Answer(f, a), InFlight(f)
  PROVE  RunsDown(f)
<1>1. /\ call[f] \in Calls /\ call[f].phase = "sent"
      /\ call' = [call EXCEPT ![f].phase = "answered", ![f].answer = a]
      /\ UNCHANGED <<losses, resumes, running, wf>>
  BY DEF IInv, TypeOK, Answer, InFlight, operatorVars
<1>2. call'[f].phase = "answered" /\ call'[f].tries = call[f].tries
  BY <1>1 DEF IInv, TypeOK, Calls
<1>3. CallRank(call'[f]) < CallRank(call[f])
  BY <1>1, <1>2 DEF CallRank
<1>. QED BY <1>1, <1>2, <1>3, CallDown

LEMMA SendDown ==
  ASSUME IInv, NEW f \in Filings, Send(f)
  PROVE  RunsDown(f)
<1>1. /\ call[f] \in Calls /\ call[f].phase = "idle"
      /\ call' = [call EXCEPT ![f].phase = "sent"]
      /\ UNCHANGED <<losses, resumes, running, wf>>
  BY DEF IInv, TypeOK, Send, operatorVars
<1>2. call'[f].phase = "sent" /\ call'[f].tries = call[f].tries
  BY <1>1 DEF IInv, TypeOK, Calls
<1>3. CallRank(call'[f]) < CallRank(call[f])
  BY <1>1, <1>2 DEF CallRank
<1>. QED BY <1>1, <1>2, <1>3, CallDown

LEMMA RetriedDown ==
  ASSUME IInv, IInv', NEW f \in Filings, RetryStep(f)
  PROVE  RunsDown(f)
<1>1. PICK c : c = [phase |-> "sent", answer |-> "", tries |-> call[f].tries + 1]
  OBVIOUS
<1>2. call' = [call EXCEPT ![f] = c] /\ UNCHANGED <<losses, resumes, running, wf>>
  BY <1>1 DEF RetryStep, operatorVars
<1>3. call'[f] = c /\ call[f].tries \in Nat
  BY <1>2 DEF IInv, TypeOK, Calls
<1>4. call'[f].tries > call[f].tries
  <2>1. c.tries = call[f].tries + 1
    BY <1>1
  <2>. QED BY <1>3, <2>1
<1>. QED BY <1>2, <1>4, RetryDown

(* Giving up what has already failed changes nothing. *)
LEMMA GiveUpDown ==
  ASSUME IInv, NEW f \in Filings, GiveUp(f)
  PROVE  RunsDown(f)
<1> DEFINE a == IF wf[f].pc \in PostSteps THEN "ambiguous" ELSE "error"
<1>1. /\ call[f] \in Calls /\ call[f].phase \in {"sent", "answered"}
      /\ call' = [call EXCEPT ![f].phase = "answered", ![f].answer = a]
      /\ UNCHANGED <<losses, resumes, running, wf>>
  BY DEF IInv, TypeOK, GiveUp, operatorVars
<1>2. a \in {"ambiguous", "error"}
  OBVIOUS
<1>3. CASE call[f].phase = "answered" /\ call[f].answer = a
  <2>1. call'[f] = call[f]
    BY <1>1, <1>3 DEF IInv, TypeOK, Calls
  <2>. QED BY <1>1, <2>1, SameWork
<1>4. CASE ~(call[f].phase = "answered" /\ call[f].answer = a)
  <2>1. /\ call'[f].phase = "answered" /\ call'[f].tries = call[f].tries
        /\ call'[f].answer = a
    BY <1>1 DEF IInv, TypeOK, Calls
  <2>2. CallRank(call'[f]) = 0
    BY <1>2, <2>1 DEF CallRank
  <2>3. CallRank(call[f]) > 0
    <3>1. CASE call[f].phase = "sent"
      BY <3>1 DEF CallRank
    <3>2. CASE call[f].phase = "answered"
      <4>1. call[f].answer \in AnswersTo(wf[f].pc) /\ wf[f].pc \in Steps
        BY <3>2 DEF IInv, CallsFit
      <4>2. call[f].answer \notin {"error", "ambiguous"}
        BY <1>4, <3>2, <4>1
           DEF AnswersTo, Steps, ReadSteps, StatusSteps, PostSteps, CommandSteps,
               FilingStates, FinalStates, LedgerStatuses
      <4>. QED BY <3>2, <4>2 DEF CallRank
    <3>. QED BY <1>1, <3>1, <3>2
  <2>4. CallRank(call'[f]) < CallRank(call[f])
    BY <2>2, <2>3
  <2>. QED BY <1>1, <2>1, <2>4, CallDown
<1>. QED BY <1>3, <1>4

LEMMA ProgressDown ==
  ASSUME IInv, IInv', NEW f \in Filings, Progress(f)
  PROVE  RunsDown(f)
<1>1. CASE Begin(f) \/ StopCancelled(f) \/ Return(f)
  BY <1>1, LifeDown
<1>2. CASE Send(f) \/ RetryStep(f) \/ GiveUp(f)
  BY <1>2, SendDown, RetriedDown, GiveUpDown
<1>3. CASE HandleGetFiling(f) \/ HandleStatus(f) \/ HandleSubmit(f) \/ HandleCommand(f)
  <2>1. InFlight(f) /\ \E a : Answer(f, a)
    BY <1>3 DEF HandleGetFiling, HandleStatus, HandleSubmit, HandleCommand
  <2>. QED BY <2>1, AnsweredDown
<1>4. CASE AfterValidate(f) \/ AfterPrepare(f) \/ AfterFindExisting(f)
  BY <1>4, EarlySteps
<1>5. CASE AfterSubmit(f) \/ AfterResolveAmbiguous(f) \/ AfterResubmit(f)
  BY <1>5, SubmissionSteps
<1>6. CASE Recv(f) \/ RecvTimeout(f) \/ AfterPollStatus(f)
  BY <1>6, WaitingSteps
<1>7. CASE \/ AfterMarkSubmitted(f) \/ AfterRecordOutcome(f) \/ AfterReconcileFinal(f)
           \/ FailStep(f)
  BY <1>7, LastSteps
<1>. QED BY <1>1, <1>2, <1>3, <1>4, <1>5, <1>6, <1>7 DEF Progress

LEMMA EnvironmentDown ==
  ASSUME IInv, IInv', NEW f \in Filings, Environment(f)
  PROVE  RunsDown(f)
<1>1. /\ wf[f] \in Runs /\ wf \in [Filings -> Runs]
      /\ resumes \in Nat
  BY DEF IInv, TypeOK
<1>2. CASE \E s \in Scenarios : Enqueue(f, s)
  <2>1. PICK s \in Scenarios : Enqueue(f, s)
    BY <1>2
  <2>2. PICK run : run = [NoRun EXCEPT !.status = "ENQUEUED", !.scenario = s]
    OBVIOUS
  <2>3. run.status = "ENQUEUED"
    BY <2>2 DEF NoRun
  <2>4. wf[f].status = "absent" /\ wf' = [wf EXCEPT ![f] = run]
        /\ UNCHANGED <<losses, resumes>>
    BY <2>1, <2>2 DEF Enqueue, operatorVars
  <2>5. RowRank(wf'[f].status) < RowRank(wf[f].status)
    BY <1>1, <2>3, <2>4 DEF RowRank
  <2>. QED BY <2>4, <2>5, RowDown
<1>3. CASE Cancel(f)
  <2>1. /\ wf[f].status \in {"ENQUEUED", "PENDING"}
        /\ wf' = [wf EXCEPT ![f].status = "CANCELLED"] /\ UNCHANGED <<losses, resumes>>
    BY <1>3 DEF Cancel, operatorVars
  <2>2. wf'[f].status = "CANCELLED"
    BY <1>1, <2>1 DEF Runs
  <2>3. RowRank(wf'[f].status) < RowRank(wf[f].status)
    BY <2>1, <2>2 DEF RowRank
  <2>. QED BY <2>1, <2>3, RowDown
<1>4. CASE Resume(f)
  <2>1. losses' = losses /\ resumes' > resumes
    BY <1>1, <1>4 DEF Resume
  <2>. QED BY <2>1, ResumeDown
<1>5. CASE \/ \E s \in Scenarios : SeedFiling(f, s)
           \/ CompleteOperation(f) \/ DeliverCallback(f)
           \/ \E outcome \in OperatorOutcomes : OperatorSend(f, outcome)
  BY <1>5, SameWork
     DEF SeedFiling, CompleteOperation, DeliverCallback, OperatorSend, runtimeVars
<1>. QED BY <1>2, <1>3, <1>4, <1>5 DEF Environment

(* What happens to one filing leaves the executions of the others alone. *)
LEMMA OthersUntouched ==
  ASSUME IInv, NEW g \in Filings, Progress(g) \/ Environment(g), NEW f \in Filings, f # g
  PROVE  RunsDown(f)
<1>1. /\ wf \in [Filings -> Runs] /\ running \in [Filings -> BOOLEAN]
      /\ call \in [Filings -> Calls]
  BY DEF IInv, TypeOK
<1>2. CASE \E run : Checkpoint(g, run)
  BY <1>1, <1>2, SameWork DEF Checkpoint
<1>3. CASE Begin(g) \/ StopCancelled(g) \/ Return(g)
  BY <1>1, <1>3, SameWork DEF Begin, StopCancelled, Return
<1>4. CASE Send(g) \/ GiveUp(g) \/ RetryStep(g)
  BY <1>1, <1>4, SameWork DEF Send, GiveUp, RetryStep
<1>5. CASE HandleGetFiling(g) \/ HandleStatus(g) \/ HandleSubmit(g) \/ HandleCommand(g)
  <2>1. \E a : Answer(g, a)
    BY <1>5 DEF HandleGetFiling, HandleStatus, HandleSubmit, HandleCommand
  <2>. QED BY <1>1, <2>1, SameWork DEF Answer
<1>6. CASE Environment(g)
  <2>1. CASE Cancel(g) \/ Resume(g) \/ \E s \in Scenarios : Enqueue(g, s)
    BY <1>1, <2>1, SameWork DEF Cancel, Resume, Enqueue
  <2>2. CASE \/ \E s \in Scenarios : SeedFiling(g, s)
             \/ CompleteOperation(g) \/ DeliverCallback(g)
             \/ \E outcome \in OperatorOutcomes : OperatorSend(g, outcome)
    BY <2>2, SameWork
       DEF SeedFiling, CompleteOperation, DeliverCallback, OperatorSend, runtimeVars
  <2>. QED BY <1>6, <2>1, <2>2 DEF Environment
<1>7. CASE Progress(g)
  <2>1. \/ \E run : Checkpoint(g, run)
        \/ Begin(g) \/ StopCancelled(g) \/ Return(g)
        \/ Send(g) \/ GiveUp(g) \/ RetryStep(g)
        \/ HandleGetFiling(g) \/ HandleStatus(g) \/ HandleSubmit(g) \/ HandleCommand(g)
    BY <1>7
       DEF Progress, FailStep, AfterValidate, AfterPrepare, AfterFindExisting, AfterSubmit,
           AfterResolveAmbiguous, AfterResubmit, AfterMarkSubmitted, Recv, RecvTimeout,
           AfterPollStatus, AfterRecordOutcome, AfterReconcileFinal
  <2>. QED BY <1>2, <1>3, <1>4, <1>5, <2>1
<1>. QED BY <1>6, <1>7

(* A crash resets the calls: those of an execution that did not run were    *)
(* not begun.                                                               *)
NotBegun == \A f \in Filings : call[f].phase = "idle" => call[f] = Idle

LEMMA NotBegunOther ==
  ASSUME IInv, NotBegun, NEW g \in Filings, call'[g].phase = "idle" => call'[g] = Idle,
         \A f \in Filings : f # g => call'[f] = call[f]
  PROVE  NotBegun'
BY DEF NotBegun, Idle

LEMMA NotBegunProgress ==
  ASSUME IInv, NotBegun, NEW g \in Filings, Progress(g)
  PROVE  NotBegun'
<1>1. call \in [Filings -> Calls]
  BY DEF IInv, TypeOK
<1>2. CASE \E run : Checkpoint(g, run)
  BY <1>1, <1>2, NotBegunOther DEF Checkpoint
<1>3. CASE Send(g) \/ GiveUp(g)
  <2>1. call'[g].phase \in {"sent", "answered"} /\ \A f \in Filings : f # g => call'[f] = call[f]
    BY <1>1, <1>3 DEF Send, GiveUp, Calls
  <2>. QED BY <2>1, NotBegunOther
<1>4. CASE RetryStep(g)
  <2>1. PICK c : c = [phase |-> "sent", answer |-> "", tries |-> call[g].tries + 1]
    OBVIOUS
  <2>2. c.phase = "sent" /\ call' = [call EXCEPT ![g] = c]
    BY <1>4, <2>1 DEF RetryStep
  <2>. QED BY <1>1, <2>2, NotBegunOther
<1>5. CASE HandleGetFiling(g) \/ HandleStatus(g) \/ HandleSubmit(g) \/ HandleCommand(g)
  <2>1. \E a : Answer(g, a)
    BY <1>5 DEF HandleGetFiling, HandleStatus, HandleSubmit, HandleCommand
  <2>2. call'[g].phase = "answered" /\ \A f \in Filings : f # g => call'[f] = call[f]
    BY <1>1, <2>1 DEF Answer, Calls
  <2>. QED BY <2>2, NotBegunOther
<1>6. CASE Begin(g) \/ StopCancelled(g) \/ Return(g)
  BY <1>6 DEF Begin, StopCancelled, Return, NotBegun, Idle
<1>7. \/ \E run : Checkpoint(g, run)
      \/ Begin(g) \/ StopCancelled(g) \/ Return(g)
      \/ Send(g) \/ GiveUp(g) \/ RetryStep(g)
      \/ HandleGetFiling(g) \/ HandleStatus(g) \/ HandleSubmit(g) \/ HandleCommand(g)
  BY DEF Progress, FailStep, AfterValidate, AfterPrepare, AfterFindExisting, AfterSubmit,
         AfterResolveAmbiguous, AfterResubmit, AfterMarkSubmitted, Recv, RecvTimeout,
         AfterPollStatus, AfterRecordOutcome, AfterReconcileFinal
<1>. QED BY <1>2, <1>3, <1>4, <1>5, <1>6, <1>7

LEMMA NotBegunStep ==
  ASSUME IInv, NotBegun, [Next]_vars
  PROVE  NotBegun'
<1>1. CASE \E f \in Filings : Progress(f)
  BY <1>1, NotBegunProgress
<1>2. CASE \E f \in Filings : Environment(f)
  <2>1. call' = call
    BY <1>2
       DEF Environment, SeedFiling, Enqueue, Cancel, Resume, CompleteOperation,
           DeliverCallback, OperatorSend, runtimeVars
  <2>. QED BY <2>1 DEF NotBegun, Idle
<1>3. CASE Crash \/ LoseRuntime
  BY <1>3 DEF Crash, LoseRuntime, NotBegun, Idle
<1>4. CASE \/ \E p \in latePosts : HandleLatePost(p)
           \/ \E req \in lateCommands : HandleLateCommand(req)
           \/ UNCHANGED vars
  BY <1>4 DEF HandleLatePost, HandleLateCommand, runtimeVars, vars, NotBegun, Idle
<1>. QED BY <1>1, <1>2, <1>3, <1>4 DEF Next

LEMMA NextRunsDown ==
  ASSUME IInv, IInv', NotBegun, [Next]_vars, NEW f \in Filings
  PROVE  RunsDown(f)
<1>1. CASE \E g \in Filings : Progress(g) \/ Environment(g)
  <2>1. PICK g \in Filings : Progress(g) \/ Environment(g)
    BY <1>1
  <2>2. CASE f = g
    BY <2>1, <2>2, ProgressDown, EnvironmentDown
  <2>3. CASE f # g
    BY <2>1, <2>3, OthersUntouched
  <2>. QED BY <2>2, <2>3
<1>2. CASE Crash
  <2>1. /\ wf' = wf /\ call'[f] = Idle /\ ~running'[f] /\ running'[f] = FALSE
        /\ UNCHANGED <<losses, resumes>>
    BY <1>2 DEF Crash, operatorVars
  <2>2. CASE running[f]
    <3>1. SameAttempt(f)
      BY <2>1 DEF SameAttempt
    <3>. QED BY <2>1, <2>2, <3>1, ExecutionDown
  <2>3. CASE ~running[f]
    <3>1. call[f] \in Calls /\ running[f] \in BOOLEAN
      BY DEF IInv, TypeOK
    <3>2. call[f].phase = "idle"
      BY <2>3 DEF IInv, CallsFit
    <3>3. call[f] = Idle
      BY <3>2 DEF NotBegun
    <3>4. running'[f] = running[f]
      BY <2>1, <2>3, <3>1
    <3>. QED BY <2>1, <3>3, <3>4, SameWork
  <2>. QED BY <2>2, <2>3
<1>3. CASE LoseRuntime
  <2>1. losses \in Nat
    BY DEF IInv, TypeOK
  <2>2. losses' > losses
    BY <1>3, <2>1 DEF LoseRuntime
  <2>. QED BY <2>2, LossDown
<1>4. CASE \/ \E p \in latePosts : HandleLatePost(p)
           \/ \E req \in lateCommands : HandleLateCommand(req)
           \/ UNCHANGED vars
  BY <1>4, SameWork DEF HandleLatePost, HandleLateCommand, runtimeVars, vars
<1>. QED BY <1>1, <1>2, <1>3, <1>4 DEF Next

(* A filing's workflow never does anything twice for nothing: each retry,   *)
(* poll, resubmission, crash and recovery (filing.go, Filing; cmd/worker's  *)
(* recovery limit) leaves less to do, counted lexicographically.            *)
THEOREM WorkAlwaysRunsDown == Spec => WorkRunsDown
<1>1. Init => NotBegun
  BY DEF Init, NotBegun
<1>2. IInv /\ NotBegun /\ [Next]_vars => NotBegun'
  BY NotBegunStep
<1>3. IInv /\ IInv' /\ NotBegun /\ [Next]_vars => [\A f \in Filings : RunsDown(f)]_vars
  BY NextRunsDown
<1>. QED BY <1>1, <1>2, <1>3, Invariance, PTL DEF Spec, WorkRunsDown

(* What is left to do is a tuple of natural numbers, which decrease only    *)
(* so often in the lexicographic order: with the theorem above, a workflow  *)
(* can only do so much between two interventions of operators or disasters. *)
THEOREM WorkIsFinite == Spec => [](\A f \in Filings : WorkLeft(f) \in [1..10 -> Nat])
<1>1. ASSUME TypeOK, NEW f \in Filings
      PROVE  WorkLeft(f) \in [1..10 -> Nat]
  <2>1. wf[f] \in Runs /\ call[f] \in Calls
    BY <1>1 DEF TypeOK
  <2>2. /\ MaxLosses - losses \in Nat /\ MaxResumes - resumes \in Nat
    BY <1>1, WorkflowAssumption DEF TypeOK
  <2>3. /\ MaxRecovery + 1 - wf[f].attempts \in Nat
        /\ StatusPolls - wf[f].polls \in Nat
    BY <2>1, WorkflowAssumption DEF Runs
  <2>4. StepRetries - call[f].tries \in Nat
    BY <2>1, WorkflowAssumption DEF Calls
  <2>5. /\ RowRank(wf[f].status) \in Nat /\ StepRank(wf[f].pc) \in Nat
        /\ CallRank(call[f]) \in Nat
    BY DEF RowRank, StepRank, CallRank
  <2>. QED BY <2>2, <2>3, <2>4, <2>5 DEF WorkLeft
<1>2. TypeOK => \A f \in Filings : WorkLeft(f) \in [1..10 -> Nat]
  BY <1>1
<1>. QED BY <1>2, TypeCorrect, PTL
=============================================================================
