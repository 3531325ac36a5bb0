------------------------ MODULE SecondExecutionProofs ------------------------
(***************************************************************************)
(* Two executions of one workflow, for every set of filings and every      *)
(* bound: what either sends is true, be it a step of the history they      *)
(* share, a review of its own or an outcome it found, and neither keeps    *)
(* the other going.                                                        *)
(***************************************************************************)
EXTENDS SecondExecution, FilingRefinementProofs

(* The run that a second dequeuing makes of the row. *)
LEMMA DequeuedRun ==
  ASSUME IInv, NEW f \in Filings, wf[f].attempts <= MaxRecovery,
         wf' = [wf EXCEPT ![f].status = "PENDING", ![f].attempts = @ + 1]
  PROVE  /\ wf' \in [Filings -> Runs]
         /\ wf'[f].pc = wf[f].pc /\ wf'[f].outcome = wf[f].outcome
         /\ wf'[f].status = "PENDING"
         /\ \A g \in Filings : g # f => wf'[g] = wf[g]
<1>1. wf \in [Filings -> Runs] /\ wf[f] \in Runs
  BY DEF IInv, TypeOK
<1>2. PICK n \in 0..(MaxRecovery + 1) : n = wf[f].attempts + 1
  <2>1. wf[f].attempts \in 0..(MaxRecovery + 1) /\ MaxRecovery \in Nat
    BY <1>1, WorkflowAssumption DEF Runs
  <2>. QED BY <2>1
<1>3. PICK run : run = [wf[f] EXCEPT !.status = "PENDING", !.attempts = n]
  OBVIOUS
<1>4. /\ run \in Runs /\ run.pc = wf[f].pc /\ run.outcome = wf[f].outcome
      /\ run.status = "PENDING"
  BY <1>1, <1>3 DEF Runs
<1>5. wf' = [wf EXCEPT ![f] = run]
  BY <1>2, <1>3
<1>. QED BY <1>1, <1>4, <1>5

LEMMA SecondBeginStep ==
  ASSUME SInv, NEW f \in Filings, SecondBegin(f)
  PROVE  IInv'
<1>1. /\ UNCHANGED <<filings, commands, reseeded, ledger, mailbox, running,
                     asserted, resumes, losses>>
      /\ running[f] /\ IInv
  BY DEF SecondBegin, accountableVars, operatorVars, SInv
<1>2. /\ wf' \in [Filings -> Runs]
      /\ wf'[f].pc = wf[f].pc /\ wf'[f].outcome = wf[f].outcome
      /\ wf'[f].status = "PENDING"
      /\ \A g \in Filings : g # f => wf'[g] = wf[g]
  BY <1>1, DequeuedRun DEF SecondBegin
<1>3. /\ \A p \in latePosts' : p \in latePosts \/ Prepared(p.filing)
      /\ \A req \in lateCommands' : req \in lateCommands \/ CommandTrue(req)
      /\ latePosts' \subseteq Posts /\ lateCommands' \subseteq Requests
  <2>1. CASE Abandon({f})
    BY <1>1, <2>1, AbandonTrue
  <2>2. CASE UNCHANGED lateVars
    BY <1>1, <2>2 DEF lateVars, IInv, TypeOK
  <2>. QED BY <2>1, <2>2 DEF SecondBegin
<1>4. /\ call' \in [Filings -> Calls]
      /\ \A g \in Filings : call'[g] = call[g] \/ call'[g].phase = "idle"
  <2>1. call \in [Filings -> Calls]
    BY <1>1 DEF IInv, TypeOK
  <2>2. Idle.phase = "idle"
    BY DEF Idle
  <2>3. call' = call \/ call' = [call EXCEPT ![f] = Idle]
    BY DEF SecondBegin
  <2>. QED BY <2>1, <2>2, <2>3, IdleType
<1>5. Fit'
  <2>1. TypeOK'
    BY <1>1, <1>2, <1>3, <1>4 DEF IInv, TypeOK, AccountableTypeOK, LedgerTypeOK
  <2>2. CallsFit'
    <3>1. SUFFICES ASSUME NEW g \in Filings
                   PROVE  /\ running'[g] => wf'[g].status # "absent"
                          /\ call'[g].phase # "idle" => running'[g] /\ wf'[g].pc \in Steps
                          /\ call'[g].phase = "answered"
                               => call'[g].answer \in AnswersTo(wf[g].pc)'
      BY DEF CallsFit
    <3>2. /\ running'[g] = running[g] /\ wf'[g].pc = wf[g].pc
          /\ wf'[g] = wf[g] \/ wf'[g].status = "PENDING"
      BY <1>1, <1>2
    <3>. QED BY <1>1, <1>4, <3>2 DEF IInv, CallsFit, AnswersTo
  <2>. QED BY <2>1, <2>2 DEF Fit
<1>6. RuntimeKept
  BY <1>1, <1>2, <1>3, <1>4 DEF RuntimeKept
<1>. QED BY <1>1, <1>5, <1>6, SameWorld, Frame

(* The loser's request is the one the winner sends, at the same step. *)
LEMMA SecondSendsStep ==
  ASSUME SInv, NEW f \in Filings, SecondSends(f)
  PROVE  IInv'
<1>1. /\ UNCHANGED <<filings, commands, reseeded, ledger, wf, mailbox, running, call,
                     asserted, resumes, losses>>
      /\ IInv
  BY DEF SecondSends, accountableVars, runtimeVars, operatorVars, SInv
<1>2. /\ \A p \in latePosts' : p \in latePosts \/ Prepared(p.filing)
      /\ latePosts' \subseteq Posts
  <2>1. CASE wf[f].pc \in PostSteps /\ latePosts' = latePosts \cup {Post(f)}
    <3>1. Prepared(f)
      BY <1>1, <2>1, IInvWorld, PcFacts DEF PostSteps
    <3>2. Post(f) \in Posts /\ Post(f).filing = f
      BY <1>1, <2>1 DEF Post, Posts, IInv, TypeOK, Runs
    <3>. QED BY <1>1, <2>1, <3>1, <3>2 DEF IInv, TypeOK
  <2>2. CASE UNCHANGED latePosts
    BY <1>1, <2>2 DEF IInv, TypeOK
  <2>. QED BY <2>1, <2>2 DEF SecondSends
<1>3. /\ \A req \in lateCommands' : req \in lateCommands \/ CommandTrue(req)
      /\ lateCommands' \subseteq Requests
  <2>1. CASE wf[f].pc \in CommandSteps /\ lateCommands' = lateCommands \cup {Command(f)}
    <3>1. PICK req : req = Command(f)
      OBVIOUS
    <3>2. /\ req \in Requests /\ req.filing = f
          /\ req.type = "PrepareFilingSubmission" => req.op = ProviderOperationID(f)
          /\ commandTransitions[req.type] \in FinalStates
               => commandTransitions[req.type] = wf[f].outcome
      BY <1>1, <2>1, <3>1, CommandIsRequest DEF IInv
    <3>3. CommandTrue(req)
      BY <1>1, <3>2, IInvWorld DEF CommandTrue
    <3>. QED BY <1>1, <2>1, <3>1, <3>2, <3>3 DEF IInv, TypeOK
  <2>2. CASE UNCHANGED lateCommands
    BY <1>1, <2>2 DEF IInv, TypeOK
  <2>. QED BY <2>1, <2>2 DEF SecondSends
<1>4. Fit'
  BY <1>1, <1>2, <1>3 DEF IInv, Fit, TypeOK, CallsFit, AccountableTypeOK, LedgerTypeOK
<1>5. RuntimeKept
  BY <1>1, <1>2, <1>3 DEF RuntimeKept
<1>. QED BY <1>1, <1>4, <1>5, SameWorld, Frame


(* What is found after going astray somebody vouches for, or it is a review. *)
LEMMA FoundTrue ==
  ASSUME IInv, NEW f \in Filings, NEW found \in Found(f)
  PROVE  /\ found.outcome \in FinalStates => Vouched(f, found.outcome)
         /\ found.outcome \in {"needs_review"} \cup FinalStates \cup OperatorOutcomes
         /\ found.detail \in WorkflowDetails
<1>1. asserted[f] \subseteq OperatorOutcomes
  BY DEF IInv, TypeOK
<1>2. CASE found \in Sent(f)
  <2>1. PICK o, d : /\ found = [outcome |-> o, detail |-> d]
                    /\ \/ o \in asserted[f] /\ d = "via operator"
                       \/ /\ o = "accepted" /\ ledger[ProviderOperationID(f)].status = o
                          /\ d = "via callback"
    BY <1>2 DEF Sent
  <2>2. found.outcome = o /\ found.detail = d
    BY <2>1
  <2>. QED BY <1>1, <2>1, <2>2 DEF Vouched, FinalStates, WorkflowDetails
<1>3. CASE \E o \in FinalStates \cap {ledger[ProviderOperationID(f)].status} :
             found = [outcome |-> o, detail |-> "via status poll"]
  <2>1. PICK o : /\ o \in FinalStates /\ ledger[ProviderOperationID(f)].status = o
                 /\ found = [outcome |-> o, detail |-> "via status poll"]
    BY <1>3
  <2>2. found.outcome = o /\ found.detail = "via status poll"
    BY <2>1
  <2>. QED BY <2>1, <2>2 DEF Vouched, WorkflowDetails
<1>4. CASE \E d \in {"submit refused by DBOS", "no callback and authority still processing"} :
             found = [outcome |-> "needs_review", detail |-> d]
  <2>1. PICK d : /\ d \in {"submit refused by DBOS", "no callback and authority still processing"}
                 /\ found = [outcome |-> "needs_review", detail |-> d]
    BY <1>4
  <2>2. found.outcome = "needs_review" /\ found.detail = d
    BY <2>1
  <2>. QED BY <2>1, <2>2 DEF FinalStates, WorkflowDetails
<1>. QED BY <1>2, <1>3, <1>4 DEF Found

LEMMA StrayCommand ==
  ASSUME IInv, NEW f \in Filings, NEW found \in Found(f),
         NEW req, req = OutcomeRequest(f, mapOutcome(found.outcome), found.detail)
  PROVE  req \in Requests /\ CommandTrue(req)
<1>1. PICK state : state = mapOutcome(found.outcome)
  OBVIOUS
<1>2. /\ state \in FinalStates \cup {"needs_review"}
      /\ state \in FinalStates => state = found.outcome
  BY <1>1 DEF mapOutcome, FinalStates
<1>3. found.detail \in Details
  BY FoundTrue, WorkflowAssumption
<1>4. req = OutcomeRequest(f, state, found.detail)
  BY <1>1
<1>5. req \in Requests
  BY <1>2, <1>3, <1>4 DEF Requests
<1>6. /\ req.filing = f /\ req.type # "PrepareFilingSubmission"
      /\ commandTransitions[req.type] = state
  BY <1>2, <1>4 DEF OutcomeRequest, commandTransitions, FinalStates
<1>7. state \in FinalStates => Vouched(f, state)
  BY <1>2, FoundTrue
<1>. QED BY <1>5, <1>6, <1>7 DEF CommandTrue

LEMMA StrayRecordsStep ==
  ASSUME SInv, NEW f \in Filings, StrayRecords(f)
  PROVE  IInv'
<1>1. /\ UNCHANGED <<ledger, wf, mailbox, running, call, latePosts, lateCommands,
                     asserted, resumes, losses>>
      /\ IInv
  BY DEF StrayRecords, runtimeVars, lateVars, operatorVars, SInv
<1>2. ASSUME NEW found \in Found(f),
             ApplyCommand(OutcomeRequest(f, mapOutcome(found.outcome), found.detail))
      PROVE  IInv'
  <2>1. PICK req : req = OutcomeRequest(f, mapOutcome(found.outcome), found.detail)
    OBVIOUS
  <2>2. req \in Requests /\ CommandTrue(req)
    BY <1>1, <2>1, StrayCommand
  <2>3. ApplyCommand(req)
    BY <1>2, <2>1
  <2>. QED BY <1>1, <2>2, <2>3, UnheardCommandStep
<1>3. CASE UNCHANGED accountableVars
  <2>1. UNCHANGED vars
    BY <1>1, <1>3 DEF accountableVars, vars
  <2>. QED BY <1>1, <2>1, NextStep
<1>. QED BY <1>2, <1>3 DEF StrayRecords

LEMMA ResumeAstrayStep ==
  ASSUME SInv, NEW f \in Filings, ResumeAstray(f)
  PROVE  IInv'
<1>1. resumes' \in 0..MaxResumes /\ 0 \in 0..(MaxRecovery + 1)
  <2>1. resumes \in 0..MaxResumes /\ MaxResumes \in Nat /\ MaxRecovery \in Nat
    BY WorkflowAssumption DEF SInv, IInv, TypeOK
  <2>2. resumes < MaxResumes /\ resumes' = resumes + 1
    BY DEF ResumeAstray
  <2>. QED BY <2>1, <2>2
<1>2. /\ call[f].phase = "idle" /\ running' = [running EXCEPT ![f] = FALSE]
      /\ UNCHANGED <<filings, commands, reseeded, ledger, mailbox, call>>
      /\ UNCHANGED <<latePosts, lateCommands, asserted, losses>>
      /\ IInv
  BY DEF ResumeAstray, accountableVars, lateVars, SInv
<1>3. PICK run : run = [wf[f] EXCEPT !.status = "ENQUEUED", !.attempts = 0]
  OBVIOUS
<1>4. /\ run \in Runs /\ run.pc = wf[f].pc /\ run.outcome = wf[f].outcome
      /\ run.status # "absent"
  <2>1. wf[f] \in Runs
    BY <1>2 DEF IInv, TypeOK
  <2>. QED BY <1>1, <1>3, <2>1 DEF Runs
<1>5. wf' = [wf EXCEPT ![f] = run]
  <2>1. wf' = [wf EXCEPT ![f].status = "ENQUEUED", ![f].attempts = 0]
    BY DEF ResumeAstray
  <2>. QED BY <1>3, <2>1
<1>6. /\ running' \in [Filings -> BOOLEAN]
      /\ \A g \in Filings : g # f => running'[g] = running[g]
  BY <1>2 DEF IInv, TypeOK
<1>. QED BY <1>1, <1>2, <1>4, <1>5, <1>6, LifeStep

LEMMA SecondEndsStep ==
  ASSUME SInv, NEW f \in Filings, SecondEnds(f)
  PROVE  IInv'
<1>1. /\ UNCHANGED <<filings, commands, reseeded, ledger, mailbox, running, call>>
      /\ UNCHANGED <<latePosts, lateCommands, asserted, resumes, losses>>
      /\ IInv
  BY DEF SecondEnds, accountableVars, lateVars, operatorVars, SInv
<1>2. CASE UNCHANGED wf
  <2>1. UNCHANGED vars
    BY <1>1, <1>2 DEF vars
  <2>. QED BY <1>1, <2>1, NextStep
<1>3. ASSUME NEW status \in {"SUCCESS", "ERROR"}, wf' = [wf EXCEPT ![f].status = status]
      PROVE  IInv'
  <2>1. PICK run : run = [wf[f] EXCEPT !.status = status, !.attempts = wf[f].attempts]
    OBVIOUS
  <2>2. wf[f] \in Runs /\ wf[f].attempts \in 0..(MaxRecovery + 1) /\ status \in Ended
    BY <1>1 DEF IInv, TypeOK, Runs, Ended
  <2>3. /\ run \in Runs /\ run.pc = wf[f].pc /\ run.outcome = wf[f].outcome
        /\ run.status # "absent"
    BY <2>1, <2>2 DEF Runs, Ended
  <2>4. wf' = [wf EXCEPT ![f] = run]
    <3>1. PICK ended : ended = [wf[f] EXCEPT !.status = status]
      OBVIOUS
    <3>2. ended = run
      BY <2>1, <2>2, <3>1 DEF Runs
    <3>3. wf' = [wf EXCEPT ![f] = ended]
      BY <1>3, <3>1
    <3>. QED BY <3>2, <3>3
  <2>5. /\ running' \in [Filings -> BOOLEAN] /\ resumes' \in 0..MaxResumes
        /\ \A g \in Filings : g # f => running'[g] = running[g]
        /\ running'[f] \/ call[f].phase = "idle"
    BY <1>1 DEF IInv, TypeOK, CallsFit
  <2>. QED BY <1>1, <2>3, <2>4, <2>5, LifeStep
<1>. QED BY <1>2, <1>3 DEF SecondEnds

(* What the winner gets from the other execution is a place further on, or  *)
(* a poll that counts, and an outcome that is true.                         *)
Further(f, run) ==
  /\ run \in Runs /\ run.status = wf[f].status /\ run.attempts = wf[f].attempts
  /\ run.scenario = wf[f].scenario
  /\ run.pc \in PreparedPcs => wf[f].pc \in PreparedPcs
  /\ run.outcome # wf[f].outcome /\ run.outcome \in FinalStates => Vouched(f, run.outcome)
  /\ \/ run.polls = wf[f].polls /\ StepRank(run.pc) < StepRank(wf[f].pc)
     \/ run.polls = wf[f].polls /\ wf[f].pc = "recv" /\ run.pc = "pollStatus"
     \/ run.polls = wf[f].polls + 1 /\ wf[f].pc = "pollStatus" /\ run.pc = "recv"

LEMMA FurtherGoTo ==
  ASSUME IInv, NEW f \in Filings, NEW pc \in Pcs, NEW run, run = GoTo(f, pc),
         pc \in PreparedPcs => wf[f].pc \in PreparedPcs,
         \/ StepRank(pc) < StepRank(wf[f].pc)
         \/ wf[f].pc = "recv" /\ pc = "pollStatus"
  PROVE  Further(f, run)
<1>1. wf[f] \in Runs
  BY DEF IInv, TypeOK
<1>2. /\ run \in Runs /\ run.status = wf[f].status /\ run.attempts = wf[f].attempts
      /\ run.scenario = wf[f].scenario /\ run.pc = pc
      /\ run.outcome = wf[f].outcome /\ run.polls = wf[f].polls
  BY <1>1 DEF GoTo, Runs
<1>. QED BY <1>2 DEF Further

LEMMA FurtherOutcome ==
  ASSUME IInv, NEW f \in Filings, NEW pc \in {"record", "recordFinal"},
         NEW outcome \in Outcomes, NEW detail \in WorkflowDetails,
         NEW run, run = Outcome(f, pc, outcome, detail),
         outcome \in FinalStates => Vouched(f, outcome),
         wf[f].pc \in {"submit", "recv", "pollStatus"}
  PROVE  Further(f, run)
<1>1. wf[f] \in Runs /\ pc \in Pcs /\ wf[f].pc \in PreparedPcs
  BY PcFacts DEF IInv, TypeOK, Pcs, Steps, CommandSteps
<1>2. /\ run \in Runs /\ run.status = wf[f].status /\ run.attempts = wf[f].attempts
      /\ run.scenario = wf[f].scenario /\ run.pc = pc
      /\ run.outcome = outcome /\ run.polls = wf[f].polls
  BY <1>1 DEF Outcome, Runs
<1>3. StepRank(pc) < StepRank(wf[f].pc)
  BY Ranks
<1>. QED BY <1>1, <1>2, <1>3 DEF Further

LEMMA SentTrue ==
  ASSUME IInv, NEW f \in Filings, NEW m \in Sent(f)
  PROVE  /\ m.outcome \in Outcomes /\ m.detail \in WorkflowDetails
         /\ m.outcome \in FinalStates => Vouched(f, m.outcome)
<1>1. PICK o, d : /\ m = [outcome |-> o, detail |-> d]
                  /\ \/ o \in asserted[f] /\ d = "via operator"
                     \/ /\ o = "accepted" /\ ledger[ProviderOperationID(f)].status = o
                        /\ d = "via callback"
  BY DEF Sent
<1>2. m.outcome = o /\ m.detail = d
  BY <1>1
<1>3. asserted[f] \subseteq OperatorOutcomes
  BY DEF IInv, TypeOK
<1>. QED BY <1>1, <1>2, <1>3 DEF Outcomes, FinalStates, Vouched, WorkflowDetails

LEMMA FurtherPolled ==
  ASSUME IInv, NEW f \in Filings, NEW run, wf[f].pc = "pollStatus",
         wf[f].polls + 1 < StatusPolls,
         run = [wf[f] EXCEPT !.polls = @ + 1, !.pc = "recv"]
  PROVE  Further(f, run)
<1>1. wf[f] \in Runs
  BY DEF IInv, TypeOK
<1>2. PICK n \in 0..StatusPolls : n = wf[f].polls + 1
  <2>1. wf[f].polls \in 0..StatusPolls /\ StatusPolls \in Nat
    BY <1>1, WorkflowAssumption DEF Runs
  <2>. QED BY <2>1
<1>3. run = [wf[f] EXCEPT !.polls = n, !.pc = "recv"]
  BY <1>2
<1>4. "recv" \in Pcs /\ "pollStatus" \in PreparedPcs
  BY PcFacts DEF Pcs
<1>5. /\ run \in Runs /\ run.status = wf[f].status /\ run.attempts = wf[f].attempts
      /\ run.scenario = wf[f].scenario /\ run.pc = "recv"
      /\ run.outcome = wf[f].outcome /\ run.polls = n
  BY <1>1, <1>3, <1>4 DEF Runs
<1>. QED BY <1>2, <1>4, <1>5 DEF Further

LEMMA DiversionsFurther ==
  ASSUME IInv, NEW f \in Filings, wf[f].pc \notin {"return", "raise"},
         NEW run \in Diversions(f)
  PROVE  Further(f, run)
<1>1. PICK pc : pc = wf[f].pc
  OBVIOUS
<1>2. pc \in Pcs \ {"return", "raise"}
  BY <1>1 DEF IInv, TypeOK, Runs
<1>3. CASE run = GoTo(f, "raise")
  <2>1. StepRank("raise") < StepRank(pc)
    BY <1>2, Ranks DEF Pcs, Steps, ReadSteps, StatusSteps, PostSteps, CommandSteps
  <2>2. "raise" \in Pcs /\ "raise" \notin PreparedPcs
    BY PcFacts DEF Pcs
  <2>. QED BY <1>1, <1>3, <2>1, <2>2, FurtherGoTo
<1>4. CASE \/ run = GoTo(f, "return") /\ pc \in {"record", "reconcileFinal"}
           \/ run = GoTo(f, "reconcileFinal") /\ pc = "recordFinal"
           \/ run = GoTo(f, "pollStatus") /\ pc = "recv"
  <2>1. PICK to \in {"return", "reconcileFinal", "pollStatus"} :
          /\ run = GoTo(f, to)
          /\ StepRank(to) < StepRank(pc) \/ (pc = "recv" /\ to = "pollStatus")
          /\ to # "return" => pc \in {"recordFinal", "recv"}
    BY <1>4, Ranks
  <2>2. to \in Pcs /\ (to \in PreparedPcs => pc \in PreparedPcs)
    BY <2>1, PcFacts DEF Pcs, Steps, ReadSteps, StatusSteps
  <2>. QED BY <1>1, <2>1, <2>2, FurtherGoTo
<1>5. CASE \E to, o, d :
             /\ run = Outcome(f, to, o, d)
             /\ to \in {"record", "recordFinal"} /\ pc \in {"submit", "recv", "pollStatus"}
             /\ \/ /\ o = "needs_review"
                   /\ d \in {"submit refused by DBOS",
                             "no callback and authority still processing"}
                \/ \E m \in Sent(f) : o = m.outcome /\ d = m.detail
  <2>1. PICK to, o, d :
             /\ run = Outcome(f, to, o, d)
             /\ to \in {"record", "recordFinal"} /\ pc \in {"submit", "recv", "pollStatus"}
             /\ \/ /\ o = "needs_review"
                   /\ d \in {"submit refused by DBOS",
                             "no callback and authority still processing"}
                \/ \E m \in Sent(f) : o = m.outcome /\ d = m.detail
    BY <1>5
  <2>2. o \in Outcomes /\ d \in WorkflowDetails /\ (o \in FinalStates => Vouched(f, o))
    <3>1. CASE o = "needs_review"
      BY <2>1, <3>1, SentTrue DEF Outcomes, WorkflowDetails, FinalStates
    <3>2. CASE o # "needs_review"
      BY <2>1, <3>2, SentTrue
    <3>. QED BY <3>1, <3>2
  <2>. QED BY <1>1, <2>1, <2>2, FurtherOutcome
<1>6. CASE /\ pc = "pollStatus" /\ wf[f].polls + 1 < StatusPolls
           /\ run = [wf[f] EXCEPT !.polls = @ + 1, !.pc = "recv"]
  BY <1>1, <1>6, FurtherPolled
<1>7. \/ run = GoTo(f, "raise")
      \/ run = GoTo(f, "return") /\ pc \in {"record", "reconcileFinal"}
      \/ run = GoTo(f, "reconcileFinal") /\ pc = "recordFinal"
      \/ run = GoTo(f, "pollStatus") /\ pc = "recv"
      \/ pc = "submit"
           /\ run = Outcome(f, "record", "needs_review", "submit refused by DBOS")
      \/ pc = "recv"
           /\ \E m \in Sent(f) : run = Outcome(f, "recordFinal", m.outcome, m.detail)
      \/ /\ pc = "pollStatus" /\ wf[f].polls + 1 < StatusPolls
         /\ run = [wf[f] EXCEPT !.polls = @ + 1, !.pc = "recv"]
      \/ pc = "pollStatus"
           /\ run = Outcome(f, "recordFinal", "needs_review",
                            "no callback and authority still processing")
  BY <1>1 DEF Diversions
<1>. QED BY <1>3, <1>4, <1>5, <1>6, <1>7

LEMMA DivertedRun ==
  ASSUME IInv, NEW f \in Filings, Divert(f)
  PROVE  /\ running[f] /\ wf' = [wf EXCEPT ![f] = wf'[f]] /\ Further(f, wf'[f])
         /\ \A g \in Filings : g # f => wf'[g] = wf[g] /\ call'[g] = call[g]
         /\ call'[f] = Idle
<1>1. PICK run \in Diversions(f) : wf' = [wf EXCEPT ![f] = run]
  BY DEF Divert
<1>2. Further(f, run)
  BY <1>1, DiversionsFurther DEF Divert
<1>3. call' = [call EXCEPT ![f] = Idle] /\ running[f]
  BY DEF Divert, Active
<1>4. wf'[f] = run /\ \A g \in Filings : g # f => wf'[g] = wf[g]
  BY <1>1 DEF IInv, TypeOK
<1>5. call'[f] = Idle /\ \A g \in Filings : g # f => call'[g] = call[g]
  BY <1>3 DEF IInv, TypeOK
<1>. QED BY <1>1, <1>2, <1>3, <1>4, <1>5

(* The winner stands at another place, or is gone; its call is void. *)
LEMMA VoidStep ==
  ASSUME IInv, NEW f \in Filings, Abandon({f}), call'[f] = Idle,
         call' \in [Filings -> Calls], wf' \in [Filings -> Runs],
         running' \in [Filings -> BOOLEAN],
         \A g \in Filings : g # f =>
           wf'[g] = wf[g] /\ call'[g] = call[g] /\ running'[g] = running[g],
         running'[f] => running[f], wf'[f].status = wf[f].status,
         wf'[f].pc \in PreparedPcs => wf[f].pc \in PreparedPcs,
         wf'[f].outcome # wf[f].outcome /\ wf'[f].outcome \in FinalStates
           => Vouched(f, wf'[f].outcome),
         UNCHANGED <<accountableVars, ledger, mailbox, operatorVars>>
  PROVE  IInv'
<1>1. UNCHANGED <<filings, commands, reseeded, ledger, mailbox, asserted, resumes, losses>>
  BY DEF accountableVars, operatorVars
<1>2. call'[f].phase = "idle"
  <2>1. Idle.phase = "idle"
    BY DEF Idle
  <2>. QED BY <2>1
<1>3. Fit'
  <2>1. TypeOK'
    BY <1>1, AbandonTrue DEF IInv, TypeOK, AccountableTypeOK, LedgerTypeOK
  <2>2. CallsFit'
    BY <1>2 DEF IInv, CallsFit
  <2>. QED BY <2>1, <2>2 DEF Fit
<1>4. RuntimeKept
  BY <1>1, <1>2, AbandonTrue DEF RuntimeKept
<1>. QED BY <1>1, <1>3, <1>4, SameWorld, Frame

LEMMA DivertStep ==
  ASSUME SInv, NEW f \in Filings, Divert(f)
  PROVE  IInv'
<1>1. /\ IInv /\ Abandon({f}) /\ running' = running
      /\ UNCHANGED <<accountableVars, ledger, mailbox, operatorVars>>
      /\ call' = [call EXCEPT ![f] = Idle]
  BY DEF SInv, Divert
<1>2. /\ wf' = [wf EXCEPT ![f] = wf'[f]] /\ Further(f, wf'[f]) /\ call'[f] = Idle
      /\ \A g \in Filings : g # f => wf'[g] = wf[g] /\ call'[g] = call[g]
  BY <1>1, DivertedRun
<1>3. /\ call' \in [Filings -> Calls] /\ wf' \in [Filings -> Runs]
      /\ running' \in [Filings -> BOOLEAN]
  BY <1>1, <1>2, IdleType DEF IInv, TypeOK, Further
<1>. QED BY <1>1, <1>2, <1>3, VoidStep DEF Further

LEMMA YieldStep ==
  ASSUME SInv, NEW f \in Filings, Yield(f)
  PROVE  IInv'
<1>1. /\ IInv /\ Abandon({f}) /\ wf' = wf
      /\ UNCHANGED <<accountableVars, ledger, mailbox, operatorVars>>
      /\ call' = [call EXCEPT ![f] = Idle] /\ running' = [running EXCEPT ![f] = FALSE]
  BY DEF SInv, Yield
<1>2. /\ call' \in [Filings -> Calls] /\ wf' \in [Filings -> Runs]
      /\ running' \in [Filings -> BOOLEAN] /\ call'[f] = Idle /\ ~running'[f]
      /\ \A g \in Filings : g # f => call'[g] = call[g] /\ running'[g] = running[g]
  BY <1>1, IdleType DEF IInv, TypeOK
<1>. QED BY <1>1, <1>2, VoidStep

-----------------------------------------------------------------------------
(* Where the other execution is. *)

LEMMA FitsAt ==
  ASSUME SInv, NEW f \in Filings, NEW o \in Others, NEW m,
         other' = [other EXCEPT ![f] = o],
         mixed' = mixed \/ mixed' = [mixed EXCEPT ![f] = TRUE],
         o = "follows" => running'[f], o # "none" => wf'[f].status # "absent",
         \A g \in Filings : g # f =>
           (running[g] => running'[g]) /\ (wf'[g].status = "absent" => wf[g].status = "absent")
  PROVE  SecondFits'
BY DEF SInv, SecondFits

LEMMA BesideFits ==
  ASSUME SInv, Beside
  PROVE  SecondFits'
BY DEF SInv, SecondFits, Beside, Others

LEMMA OthersRows ==
  ASSUME SInv, NEW f \in Filings
  PROVE  /\ running[f] => wf[f].status # "absent"
         /\ other[f] \in Others
         /\ other[f] # "none" => wf[f].status # "absent"
         /\ other[f] = "follows" => running[f]
BY DEF SInv, SecondFits, IInv, CallsFit

LEMMA SecondFitsStep ==
  ASSUME SInv, NEW f \in Filings,
         \/ SecondBegin(f) \/ SecondSends(f) \/ SecondStrays(f) \/ ResumeAstray(f)
         \/ StrayRecords(f) \/ SecondEnds(f) \/ Divert(f)
  PROVE  SecondFits'
<1>0. /\ wf \in [Filings -> Runs] /\ wf[f] \in Runs /\ running \in [Filings -> BOOLEAN]
      /\ other \in [Filings -> Others]
      /\ {"none", "follows", "recorded", "submit", "recv"} \subseteq Others
      /\ Astray \subseteq Others \ {"none", "follows", "recorded"}
  BY DEF SInv, SecondFits, IInv, TypeOK, Others, Astray
<1>1. CASE SecondBegin(f)
  <2>1. /\ running' = running /\ running[f] /\ mixed' = mixed
        /\ other' = [other EXCEPT ![f] = "follows"]
        /\ \A g \in Filings : g # f => wf'[g] = wf[g]
        /\ wf'[f].status = "PENDING"
    BY <1>0, <1>1 DEF SecondBegin, Runs
  <2>. QED BY <1>0, <2>1, FitsAt
<1>2. CASE SecondSends(f)
  <2>1. UNCHANGED <<wf, running, other, mixed>>
    BY <1>2 DEF SecondSends, runtimeVars
  <2>. QED BY <2>1 DEF SInv, SecondFits
<1>3. CASE SecondStrays(f)
  <2>1. /\ UNCHANGED <<wf, running>> /\ running[f]
        /\ mixed' = [mixed EXCEPT ![f] = TRUE]
    BY <1>3 DEF SecondStrays, GoAstray, Active, vars
  <2>2. PICK o \in Astray : other' = [other EXCEPT ![f] = o]
    BY <1>3 DEF SecondStrays, GoAstray
  <2>. QED BY <1>0, <2>1, <2>2, FitsAt, OthersRows
<1>4. CASE ResumeAstray(f)
  <2>1. /\ running' = [running EXCEPT ![f] = FALSE]
        /\ mixed' = [mixed EXCEPT ![f] = TRUE]
        /\ wf' = [wf EXCEPT ![f].status = "ENQUEUED", ![f].attempts = 0]
    BY <1>4 DEF ResumeAstray, GoAstray
  <2>2. PICK o \in Astray : other' = [other EXCEPT ![f] = o]
    BY <1>4 DEF ResumeAstray, GoAstray
  <2>3. wf'[f].status = "ENQUEUED" /\ \A g \in Filings : g # f => wf'[g] = wf[g]
    BY <1>0, <2>1 DEF Runs
  <2>. QED BY <1>0, <2>1, <2>2, <2>3, FitsAt
<1>5. CASE StrayRecords(f)
  <2>1. /\ UNCHANGED <<wf, running, mixed>> /\ other[f] # "none"
        /\ other' = [other EXCEPT ![f] = "recorded"]
    BY <1>0, <1>5 DEF StrayRecords, runtimeVars
  <2>. QED BY <1>0, <2>1, FitsAt, OthersRows
<1>6. CASE SecondEnds(f)
  <2>1. /\ UNCHANGED <<running, mixed>> /\ other' = [other EXCEPT ![f] = "none"]
        /\ \A g \in Filings : g # f => wf'[g] = wf[g]
    BY <1>0, <1>6 DEF SecondEnds
  <2>. QED BY <1>0, <2>1, FitsAt
<1>7. CASE Divert(f)
  <2>1. UNCHANGED <<running, other, mixed>>
    BY <1>7 DEF Divert
  <2>2. /\ wf'[f].status = wf[f].status
        /\ \A g \in Filings : g # f => wf'[g] = wf[g]
    BY <1>7, DivertedRun DEF SInv, Further
  <2>. QED BY <2>1, <2>2 DEF SInv, SecondFits
<1>. QED BY <1>1, <1>2, <1>3, <1>4, <1>5, <1>6, <1>7

LEMMA SNextStep ==
  ASSUME SInv, [SNext]_svars
  PROVE  SInv'
<1>1. ASSUME NEW f \in Filings,
             \/ SecondBegin(f) \/ SecondSends(f) \/ SecondStrays(f) \/ ResumeAstray(f)
             \/ StrayRecords(f) \/ SecondEnds(f) \/ Divert(f)
      PROVE  SInv'
  <2>1. SecondStrays(f) => IInv'
    BY NextStep DEF SecondStrays, SInv
  <2>2. IInv'
    BY <1>1, <2>1, SecondBeginStep, SecondSendsStep, ResumeAstrayStep, StrayRecordsStep,
       SecondEndsStep, DivertStep
  <2>3. SecondFits'
    BY <1>1, SecondFitsStep
  <2>. QED BY <2>2, <2>3 DEF SInv
<1>2. CASE (Next \/ \E f \in Filings : Yield(f)) /\ Beside
  BY <1>2, NextStep, YieldStep, BesideFits DEF SInv
<1>3. CASE UNCHANGED svars
  <2>1. UNCHANGED vars /\ UNCHANGED <<wf, running, other, mixed>>
    BY <1>3 DEF svars, vars
  <2>2. SecondFits'
    BY <2>1 DEF SInv, SecondFits
  <2>. QED BY <2>1, <2>2, NextStep DEF SInv
<1>. QED BY <1>1, <1>2, <1>3 DEF SNext

(* A workflow that is resumed while its cancelled execution is still in a   *)
(* step (cmd/opsctl/main.go:96) runs twice.  Whichever execution is refused *)
(* a step, and even if it goes on astray (workflow/filing.go:189 and 278),  *)
(* nothing takes effect before its intent and no outcome is invented.       *)
THEOREM SecondExecutionInvariance == SSpec => []SInv
<1>1. SInit => SInv
  BY InitIInv DEF SInit, SInv, SecondFits, Others
<1>2. SInv /\ [SNext]_svars => SInv'
  BY SNextStep
<1>. QED BY <1>1, <1>2, PTL DEF SSpec

-----------------------------------------------------------------------------
(* What two executions do to the books and to the ledger. *)

(* The steps that send nothing of their own. *)
LEMMA SilentSteps ==
  ASSUME NEW f \in Filings,
         \/ SecondBegin(f) \/ SecondSends(f) \/ SecondStrays(f) \/ ResumeAstray(f)
         \/ SecondEnds(f) \/ Divert(f) \/ Yield(f)
  PROVE  UNCHANGED <<filings, commands, reseeded, ledger, asserted>>
BY DEF SecondBegin, SecondSends, SecondStrays, ResumeAstray, SecondEnds, Divert, Yield,
   accountableVars, operatorVars, vars

(* Two executions of one workflow file once and book one outcome, as one    *)
(* execution does, although each may record what it found                   *)
(* (docs/PROOF_CONTRACT.md).                                                *)
THEOREM SecondExecutionImplementsContract == SSpec => ImplementsContract
<1>1. SInit => Contract!ContractInit
  BY InitContract DEF SInit
<1>2. SInv /\ [SNext]_svars => ContractStep
  <2>. SUFFICES ASSUME SInv, [SNext]_svars
                PROVE  ContractStep
    OBVIOUS
  <2>1. CASE [Next]_vars
    BY <2>1, NextContract DEF SInv
  <2>2. CASE \E f \in Filings :
               \/ SecondBegin(f) \/ SecondSends(f) \/ SecondStrays(f) \/ ResumeAstray(f)
               \/ SecondEnds(f) \/ Divert(f) \/ Yield(f)
    BY <2>2, SilentSteps, QuietStep
  <2>3. ASSUME NEW f \in Filings, StrayRecords(f)
        PROVE  ContractStep
    <3>1. UNCHANGED <<ledger, asserted>> /\ IInv
      BY <2>3 DEF StrayRecords, operatorVars, SInv
    <3>2. CASE UNCHANGED accountableVars
      BY <3>1, <3>2, QuietStep DEF accountableVars
    <3>3. ASSUME NEW found \in Found(f),
                 ApplyCommand(OutcomeRequest(f, mapOutcome(found.outcome), found.detail))
          PROVE  ContractStep
      <4>1. PICK req : req = OutcomeRequest(f, mapOutcome(found.outcome), found.detail)
        OBVIOUS
      <4>2. req \in Requests /\ CommandTrue(req) /\ ApplyCommand(req)
        BY <3>1, <3>3, <4>1, StrayCommand
      <4>. QED BY <3>1, <4>2, ApplyContract
    <3>. QED BY <2>3, <3>2, <3>3 DEF StrayRecords
  <2>. QED BY <2>1, <2>2, <2>3 DEF SNext, svars, vars
<1>. QED BY <1>1, <1>2, SecondExecutionInvariance, PTL
        DEF SSpec, ImplementsContract, Contract!ContractSpec, ContractStep

(* Two executions use Accountable (accountable/server.go) as one does.      *)
THEOREM SecondExecutionUsesBooks == SSpec => AccountableSpec
<1>1. SInit => AccountableInit
  BY DEF SInit, Init
<1>2. SInv /\ [SNext]_svars => BooksStep
  <2>. SUFFICES ASSUME SInv, [SNext]_svars
                PROVE  BooksStep
    OBVIOUS
  <2>1. CASE [Next]_vars
    BY <2>1, NextBooks DEF SInv
  <2>2. CASE \E f \in Filings :
               \/ SecondBegin(f) \/ SecondSends(f) \/ SecondStrays(f) \/ ResumeAstray(f)
               \/ SecondEnds(f) \/ Divert(f) \/ Yield(f)
    BY <2>2, SilentSteps DEF BooksStep, accountableVars
  <2>3. ASSUME NEW f \in Filings, StrayRecords(f)
        PROVE  BooksStep
    <3>1. ASSUME NEW found \in Found(f),
                 ApplyCommand(OutcomeRequest(f, mapOutcome(found.outcome), found.detail))
          PROVE  BooksStep
      <4>1. PICK req : req = OutcomeRequest(f, mapOutcome(found.outcome), found.detail)
        OBVIOUS
      <4>2. req \in Requests /\ ApplyCommand(req)
        BY <3>1, <4>1, StrayCommand DEF SInv
      <4>. QED BY <4>2 DEF BooksStep, AccountableNext
    <3>. QED BY <2>3, <3>1 DEF StrayRecords, BooksStep
  <2>. QED BY <2>1, <2>2, <2>3 DEF SNext, svars, vars
<1>. QED BY <1>1, <1>2, SecondExecutionInvariance, PTL
        DEF SSpec, AccountableSpec, BooksStep

(* The row of f changes and no other, and its scenario stays. *)
LEMMA RowMoves ==
  ASSUME IInv, ScenariosKnown, NEW f \in Filings, wf[f].status # "absent",
         \A g \in Filings : g # f => wf'[g] = wf[g],
         wf'[f].scenario = wf[f].scenario
  PROVE  \A g \in Filings : RunKnown(g)'
BY RowsKept DEF RowsKeep

LEMMA StatusMoves ==
  ASSUME IInv, NEW f \in Filings, NEW status,
         \/ wf' = [wf EXCEPT ![f].status = status]
         \/ \E n : wf' = [wf EXCEPT ![f].status = status, ![f].attempts = n]
  PROVE  /\ \A g \in Filings : g # f => wf'[g] = wf[g]
         /\ wf'[f].scenario = wf[f].scenario
         /\ wf'[f].status = status /\ wf'[f].pc = wf[f].pc /\ wf'[f].polls = wf[f].polls
         /\ wf' = [wf EXCEPT ![f].status = status] => wf'[f].attempts = wf[f].attempts
<1>1. wf \in [Filings -> Runs] /\ wf[f] \in Runs
  BY DEF IInv, TypeOK
<1>. QED BY <1>1 DEF Runs

LEMMA SecondKnown ==
  ASSUME SInv, ScenariosKnown, NEW f \in Filings,
         \/ SecondBegin(f) \/ SecondSends(f) \/ SecondStrays(f) \/ ResumeAstray(f)
         \/ StrayRecords(f) \/ SecondEnds(f) \/ Divert(f) \/ Yield(f)
  PROVE  ScenariosKnown'
<1>0. IInv /\ (running[f] => wf[f].status # "absent")
  BY OthersRows DEF SInv
<1>1. PostsKnown'
  <2>1. CASE Abandon({f})
    BY <1>0, <2>1, AbandonKnown
  <2>2. CASE latePosts' = latePosts
    BY <2>2 DEF ScenariosKnown, PostsKnown
  <2>3. CASE running[f] /\ latePosts' = latePosts \cup {Post(f)}
    <3>1. Post(f).scenario \in Scenarios
      BY <1>0, <2>3 DEF Post, ScenariosKnown, RunKnown
    <3>. QED BY <2>3, <3>1 DEF ScenariosKnown, PostsKnown
  <2>. QED BY <2>1, <2>2, <2>3
       DEF SecondBegin, SecondSends, SecondStrays, ResumeAstray, StrayRecords, SecondEnds,
           Divert, Yield, Active, lateVars, vars
<1>2. CASE SecondSends(f) \/ SecondStrays(f) \/ StrayRecords(f) \/ Yield(f)
  <2>1. wf' = wf
    BY <1>2 DEF SecondSends, SecondStrays, StrayRecords, Yield, runtimeVars, vars
  <2>. QED BY <1>1, <2>1 DEF ScenariosKnown, RunKnown
<1>3. CASE SecondBegin(f)
  <2>1. running[f] /\ \E n : wf' = [wf EXCEPT ![f].status = "PENDING", ![f].attempts = n]
    BY <1>3 DEF SecondBegin
  <2>2. /\ wf'[f].scenario = wf[f].scenario
        /\ \A g \in Filings : g # f => wf'[g] = wf[g]
    BY <1>0, <2>1, StatusMoves
  <2>. QED BY <1>0, <1>1, <2>1, <2>2, RowMoves DEF ScenariosKnown
<1>4. CASE ResumeAstray(f)
  <2>1. running[f] /\ \E n : wf' = [wf EXCEPT ![f].status = "ENQUEUED", ![f].attempts = n]
    BY <1>4 DEF ResumeAstray
  <2>2. /\ wf'[f].scenario = wf[f].scenario
        /\ \A g \in Filings : g # f => wf'[g] = wf[g]
    BY <1>0, <2>1, StatusMoves
  <2>. QED BY <1>0, <1>1, <2>1, <2>2, RowMoves DEF ScenariosKnown
<1>5. CASE SecondEnds(f)
  <2>1. wf[f].status # "absent"
    BY <1>5, OthersRows DEF SecondEnds
  <2>2. CASE wf' = wf
    BY <1>1, <2>2 DEF ScenariosKnown, RunKnown
  <2>3. CASE \E status : wf' = [wf EXCEPT ![f].status = status]
    BY <1>0, <1>1, <2>1, <2>3, StatusMoves, RowMoves DEF ScenariosKnown
  <2>. QED BY <1>5, <2>2, <2>3 DEF SecondEnds
<1>6. CASE Divert(f)
  <2>1. /\ running[f] /\ wf'[f].scenario = wf[f].scenario
        /\ \A g \in Filings : g # f => wf'[g] = wf[g]
    BY <1>0, <1>6, DivertedRun DEF Further
  <2>. QED BY <1>0, <1>1, <2>1, RowMoves DEF ScenariosKnown
<1>. QED BY <1>2, <1>3, <1>4, <1>5, <1>6

(* Two executions use the authority (authority/server.go) as the ledger     *)
(* lets it be used: what the loser submits is one more submission.          *)
THEOREM SecondExecutionUsesProvider == SSpec => ProviderSpec
<1>1. SInit => ProviderInit /\ ScenariosKnown
  BY InitKnown DEF SInit, Init
<1>2. SInv /\ ScenariosKnown /\ [SNext]_svars => ScenariosKnown' /\ LedgerStep
  <2>. SUFFICES ASSUME SInv, ScenariosKnown, [SNext]_svars
                PROVE  ScenariosKnown' /\ LedgerStep
    OBVIOUS
  <2>1. CASE [Next]_vars
    BY <2>1, NextKnown, NextLedger DEF SInv
  <2>2. ASSUME NEW f \in Filings,
               \/ SecondBegin(f) \/ SecondSends(f) \/ SecondStrays(f) \/ ResumeAstray(f)
               \/ StrayRecords(f) \/ SecondEnds(f) \/ Divert(f) \/ Yield(f)
        PROVE  ScenariosKnown' /\ LedgerStep
    <3>1. ledger' = ledger
      BY <2>2, SilentSteps DEF StrayRecords
    <3>. QED BY <2>2, <3>1, SecondKnown DEF LedgerStep
  <2>. QED BY <2>1, <2>2 DEF SNext, svars, vars
<1>. QED BY <1>1, <1>2, SecondExecutionInvariance, PTL DEF SSpec, ProviderSpec, LedgerStep

-----------------------------------------------------------------------------
(* Two executions run down together. *)

(* Unless the runtime of f moves, the other execution stays where it is. *)
LEMMA OneDown ==
  ASSUME NEW f \in Filings, RunsDown(f),
         wf'[f] = wf[f] /\ running'[f] = running[f] /\ call'[f] = call[f]
           => other'[f] = other[f]
  PROVE  BothRun(f)
BY DEF RunsDown, BothRun

LEMMA BesideDown ==
  ASSUME SInv, Beside, NEW f \in Filings, RunsDown(f)
  PROVE  BothRun(f)
<1>1. ASSUME wf'[f] = wf[f] /\ running'[f] = running[f]
      PROVE  other'[f] = other[f]
  BY <1>1, OthersRows DEF Beside
<1>. QED BY <1>1, OneDown

LEMMA OthersDown ==
  ASSUME NEW f \in Filings, wf'[f] = wf[f], running'[f] = running[f],
         call'[f] = call[f], other'[f] = other[f]
  PROVE  BothRun(f)
BY SameWork, OneDown

(* The step takes from the other execution, or ends the row. *)
LEMMA OtherDown ==
  ASSUME SInv, NEW f \in Filings, UNCHANGED <<losses, resumes, running, call>>,
         OtherLeft(f)' < OtherLeft(f),
         \/ wf'[f] = wf[f]
         \/ /\ RowRank(wf'[f].status) <= RowRank(wf[f].status)
            /\ wf'[f].attempts = wf[f].attempts
            /\ wf'[f].pc = wf[f].pc /\ wf'[f].polls = wf[f].polls
  PROVE  BothRun(f)
<1>1. RowRank(wf'[f].status) \in Nat /\ RowRank(wf[f].status) \in Nat
  BY DEF RowRank
<1>2. CASE RowRank(wf'[f].status) < RowRank(wf[f].status)
  <2>1. WorkLeft(f)'[3] < WorkLeft(f)[3]
    BY <1>2 DEF WorkLeft
  <2>2. \A j \in 1..10 : j < 3 => WorkLeft(f)'[j] = WorkLeft(f)[j]
    BY DEF WorkLeft
  <2>3. Less(WorkLeft(f)', WorkLeft(f))
    BY <2>1, <2>2 DEF Less
  <2>. QED BY <2>3 DEF BothRun
<1>3. CASE /\ RowRank(wf'[f].status) = RowRank(wf[f].status)
           /\ wf'[f].attempts = wf[f].attempts
           /\ wf'[f].pc = wf[f].pc /\ wf'[f].polls = wf[f].polls
  <2>1. WorkLeft(f)' = WorkLeft(f)
    BY <1>3 DEF WorkLeft
  <2>. QED BY <2>1 DEF BothRun
<1>. QED BY <1>1, <1>2, <1>3

LEMMA SecondBeginDown ==
  ASSUME SInv, NEW g \in Filings, SecondBegin(g)
  PROVE  \A f \in Filings : BothRun(f)
<1>1. /\ wf \in [Filings -> Runs] /\ wf[g] \in Runs /\ call \in [Filings -> Calls]
      /\ other \in [Filings -> Others] /\ IInv
  BY DEF SInv, SecondFits, IInv, TypeOK
<1>2. /\ wf[g].status = "ENQUEUED" /\ running' = running
      /\ UNCHANGED <<losses, resumes>>
      /\ \E n : wf' = [wf EXCEPT ![g].status = "PENDING", ![g].attempts = n]
      /\ call' = call \/ call' = [call EXCEPT ![g] = Idle]
      /\ other' = [other EXCEPT ![g] = "follows"]
  BY DEF SecondBegin, operatorVars
<1>3. /\ wf'[g].status = "PENDING"
      /\ \A f \in Filings : f # g => wf'[f] = wf[f]
  BY <1>1, <1>2, StatusMoves
<1>4. \A f \in Filings : f # g => call'[f] = call[f] /\ other'[f] = other[f]
  BY <1>1, <1>2
<1>5. RowRank(wf'[g].status) < RowRank(wf[g].status)
  BY <1>2, <1>3 DEF RowRank
<1>6. RunsDown(g)
  BY <1>2, <1>5, RowDown
<1>7. BothRun(g)
  BY <1>2, <1>3, <1>6, OneDown
<1>. QED BY <1>2, <1>3, <1>4, <1>7, OthersDown

LEMMA ResumeAstrayDown ==
  ASSUME SInv, SInv', NEW g \in Filings, ResumeAstray(g)
  PROVE  \A f \in Filings : BothRun(f)
<1>1. /\ wf \in [Filings -> Runs] /\ other \in [Filings -> Others]
      /\ IInv /\ IInv' /\ resumes \in Nat /\ running \in [Filings -> BOOLEAN]
  BY WorkflowAssumption DEF SInv, SecondFits, IInv, TypeOK
<1>2. /\ wf[g].status = "CANCELLED" /\ running' = [running EXCEPT ![g] = FALSE]
      /\ losses' = losses /\ resumes' = resumes + 1 /\ call' = call
      /\ \E n : wf' = [wf EXCEPT ![g].status = "ENQUEUED", ![g].attempts = n]
      /\ \E o : other' = [other EXCEPT ![g] = o]
  BY DEF ResumeAstray, GoAstray
<1>3. /\ wf'[g].status = "ENQUEUED"
      /\ \A f \in Filings : f # g => wf'[f] = wf[f]
  BY <1>1, <1>2, StatusMoves
<1>4. \A f \in Filings : f # g => running'[f] = running[f] /\ other'[f] = other[f]
  BY <1>1, <1>2
<1>5. resumes' > resumes
  BY <1>1, <1>2
<1>6. RunsDown(g)
  BY <1>1, <1>2, <1>5, ResumeDown
<1>7. BothRun(g)
  BY <1>2, <1>3, <1>6, OneDown
<1>. QED BY <1>2, <1>3, <1>4, <1>7, OthersDown

LEMMA OtherLeftFalls ==
  ASSUME NEW g
  PROVE  /\ other[g] = "follows" /\ other'[g] \in Astray => OtherLeft(g)' < OtherLeft(g)
         /\ other[g] \in Astray /\ other'[g] = "recorded" => OtherLeft(g)' < OtherLeft(g)
         /\ other[g] \in Others \ {"none"} /\ other'[g] = "none"
              => OtherLeft(g)' < OtherLeft(g)
BY DEF OtherLeft, Astray, Others

LEMMA StraysDown ==
  ASSUME SInv, NEW g \in Filings, SecondStrays(g) \/ StrayRecords(g)
  PROVE  \A f \in Filings : BothRun(f)
<1>1. UNCHANGED <<wf, running, call, losses, resumes>>
  BY DEF SecondStrays, StrayRecords, runtimeVars, operatorVars, vars
<1>2. other \in [Filings -> Others]
  BY DEF SInv, SecondFits
<1>3. PICK o : /\ other' = [other EXCEPT ![g] = o]
               /\ \/ other[g] = "follows" /\ o \in Astray
                  \/ other[g] \in Astray /\ o = "recorded"
  BY DEF SecondStrays, StrayRecords, GoAstray
<1>4. other'[g] = o /\ \A f \in Filings : f # g => other'[f] = other[f]
  BY <1>2, <1>3
<1>5. OtherLeft(g)' < OtherLeft(g)
  BY <1>3, <1>4, OtherLeftFalls
<1>6. BothRun(g)
  BY <1>1, <1>5, OtherDown
<1>. QED BY <1>1, <1>4, <1>6, OthersDown

LEMMA SecondEndsDown ==
  ASSUME SInv, NEW g \in Filings, SecondEnds(g)
  PROVE  \A f \in Filings : BothRun(f)
<1>1. /\ UNCHANGED <<running, call, losses, resumes>>
      /\ other' = [other EXCEPT ![g] = "none"]
      /\ other \in [Filings -> Others] /\ other[g] # "none" /\ IInv
  BY DEF SecondEnds, operatorVars, SInv, SecondFits
<1>2. other'[g] = "none" /\ \A f \in Filings : f # g => other'[f] = other[f]
  BY <1>1
<1>3. OtherLeft(g)' < OtherLeft(g)
  BY <1>1, <1>2, OtherLeftFalls
<1>4. CASE wf' = wf
  <2>1. BothRun(g)
    BY <1>1, <1>3, <1>4, OtherDown
  <2>. QED BY <1>1, <1>2, <1>4, <2>1, OthersDown
<1>5. ASSUME NEW status \in {"SUCCESS", "ERROR"}, wf' = [wf EXCEPT ![g].status = status]
      PROVE  \A f \in Filings : BothRun(f)
  <2>1. /\ wf'[g].status = status /\ wf'[g].attempts = wf[g].attempts
        /\ wf'[g].pc = wf[g].pc /\ wf'[g].polls = wf[g].polls
        /\ \A f \in Filings : f # g => wf'[f] = wf[f]
    BY <1>1, <1>5, StatusMoves
  <2>2. RowRank(wf'[g].status) <= RowRank(wf[g].status)
    BY <2>1 DEF RowRank
  <2>3. BothRun(g)
    BY <1>1, <1>3, <2>1, <2>2, OtherDown
  <2>. QED BY <1>1, <1>2, <2>1, <2>3, OthersDown
<1>. QED BY <1>4, <1>5 DEF SecondEnds

LEMMA DivertDown ==
  ASSUME SInv, SInv', NEW g \in Filings, Divert(g)
  PROVE  \A f \in Filings : BothRun(f)
<1>1. /\ UNCHANGED <<running, losses, resumes, other>> /\ IInv /\ IInv'
  BY DEF Divert, operatorVars, SInv
<1>2. /\ Further(g, wf'[g])
      /\ \A f \in Filings : f # g => wf'[f] = wf[f] /\ call'[f] = call[f]
  BY <1>1, DivertedRun
<1>3. SameAttempt(g)
  BY <1>1, <1>2 DEF SameAttempt, Further
<1>4. wf[g].polls \in Nat
  BY <1>1, WorkflowAssumption DEF IInv, TypeOK, Runs
<1>5. RunsDown(g)
  <2>1. CASE StepRank(wf'[g].pc) < StepRank(wf[g].pc)
    BY <1>1, <1>3, <2>1, StepDown
  <2>2. CASE wf'[g].polls = wf[g].polls /\ wf[g].pc = "recv" /\ wf'[g].pc = "pollStatus"
    BY <1>1, <1>3, <2>2, WaitDown, Ranks
  <2>3. CASE wf'[g].polls = wf[g].polls + 1 /\ wf[g].pc = "pollStatus" /\ wf'[g].pc = "recv"
    BY <1>1, <1>3, <1>4, <2>3, PollDown, Ranks
  <2>. QED BY <1>2, <2>1, <2>2, <2>3 DEF Further
<1>6. BothRun(g)
  BY <1>1, <1>5, OneDown
<1>. QED BY <1>1, <1>2, <1>6, OthersDown

LEMMA YieldDown ==
  ASSUME SInv, NEW g \in Filings, Yield(g), NEW f \in Filings
  PROVE  RunsDown(f)
<1>1. /\ wf' = wf /\ UNCHANGED <<losses, resumes>> /\ running[g]
      /\ running' = [running EXCEPT ![g] = FALSE] /\ call' = [call EXCEPT ![g] = Idle]
      /\ running \in [Filings -> BOOLEAN] /\ call \in [Filings -> Calls]
  BY DEF Yield, Active, operatorVars, SInv, IInv, TypeOK
<1>2. CASE f = g
  <2>1. SameAttempt(f) /\ running[f] /\ ~running'[f]
    BY <1>1, <1>2 DEF SameAttempt
  <2>. QED BY <2>1, ExecutionDown
<1>3. CASE f # g
  BY <1>1, <1>3, SameWork
<1>. QED BY <1>2, <1>3

LEMMA SecondNotBegun ==
  ASSUME SInv, NotBegun, NEW f \in Filings,
         \/ SecondBegin(f) \/ SecondSends(f) \/ SecondStrays(f) \/ ResumeAstray(f)
         \/ StrayRecords(f) \/ SecondEnds(f) \/ Divert(f) \/ Yield(f)
  PROVE  NotBegun'
<1>1. call \in [Filings -> Calls]
  BY DEF SInv, IInv, TypeOK
<1>2. call' = call \/ call' = [call EXCEPT ![f] = Idle]
  BY DEF SecondBegin, SecondSends, SecondStrays, ResumeAstray, StrayRecords, SecondEnds,
     Divert, Yield, runtimeVars, vars
<1>. QED BY <1>1, <1>2 DEF NotBegun, Idle

(* Two executions of a workflow do not keep each other going, wherever the  *)
(* one that was refused a step goes on (workflow/filing.go:189 and 278):    *)
(* a resumed workflow does only so much.                                    *)
THEOREM SecondExecutionRunsDown == SSpec => BothRunDown
<1>1. SInit => NotBegun
  BY DEF SInit, Init, NotBegun
<1>2. SInv /\ SInv' /\ NotBegun /\ [SNext]_svars
        => NotBegun' /\ [\A f \in Filings : BothRun(f)]_svars
  <2>. SUFFICES ASSUME SInv, SInv', NotBegun, SNext
                PROVE  NotBegun' /\ \A f \in Filings : BothRun(f)
    BY DEF NotBegun, svars
  <2>1. CASE Next /\ Beside
    <3>1. IInv /\ IInv' /\ [Next]_vars
      BY <2>1 DEF SInv
    <3>. QED BY <2>1, <3>1, NotBegunStep, NextRunsDown, BesideDown
  <2>2. ASSUME NEW g \in Filings, Yield(g), Beside
        PROVE  NotBegun' /\ \A f \in Filings : BothRun(f)
    BY <2>2, YieldDown, BesideDown, SecondNotBegun
  <2>3. ASSUME NEW g \in Filings, SecondSends(g)
        PROVE  NotBegun' /\ \A f \in Filings : BothRun(f)
    <3>1. UNCHANGED <<wf, running, call, other>>
      BY <2>3 DEF SecondSends, runtimeVars
    <3>. QED BY <2>3, <3>1, SecondNotBegun, OthersDown
  <2>4. ASSUME NEW g \in Filings,
               \/ SecondBegin(g) \/ SecondStrays(g) \/ ResumeAstray(g)
               \/ StrayRecords(g) \/ SecondEnds(g) \/ Divert(g)
        PROVE  NotBegun' /\ \A f \in Filings : BothRun(f)
    BY <2>4, SecondNotBegun, SecondBeginDown, StraysDown, ResumeAstrayDown, SecondEndsDown,
       DivertDown
  <2>. QED BY <2>1, <2>2, <2>3, <2>4 DEF SNext
<1>. QED BY <1>1, <1>2, SecondExecutionInvariance, PTL DEF SSpec, BothRunDown
=============================================================================
