------------------------- MODULE ReconciliationProofs -------------------------
(***************************************************************************)
(* The reconcilers and restored backups, for every set of filings, of      *)
(* reconcilers and of scenarios, and for every bound: the invariant of the *)
(* workflow survives them, and the whole still implements the contract.    *)
(*                                                                         *)
(* What a reconciler books is what the provider told it, and decided       *)
(* operations stay as they are; what a backup brings back was true once,   *)
(* and such facts stay true.                                               *)
(***************************************************************************)
EXTENDS Reconciliation, FilingRefinementProofs

PassRecords == [at : Stages, due : SUBSET Listed, row : Listed \cup {NoRow},
                outcome : FinalStates \cup {""}]

(* What RInv says of one pass. *)
PassFine(pass) ==
  /\ pass \in PassRecords
  /\ pass.at \in Stages \ {"idle", "next"} => pass.row \in Listed
  /\ pass.at = "record" =>
       /\ pass.outcome \in FinalStates
       /\ ledger[ProviderOperationID(pass.row.filing)].status = pass.outcome

LEMMA PassFacts ==
  ASSUME RInv, NEW r \in Reconcilers
  PROVE  PassFine(passes[r])
<1>1. passes[r] \in PassRecords
  BY DEF RInv, PassesTypeOK, PassRecords
<1>2. passes[r].at \in Stages \ {"idle", "next"} => passes[r].row \in Listed
  BY DEF RInv, PassesTypeOK
<1>3. At(r, "record") => passes[r].outcome \in FinalStates
  BY DEF RInv, PassesTypeOK
<1>4. At(r, "record") =>
        ledger[ProviderOperationID(passes[r].row.filing)].status = passes[r].outcome
  BY DEF RInv, PassCarried, Filing
<1>. QED BY <1>1, <1>2, <1>3, <1>4 DEF PassFine, At

LEMMA PassesFine ==
  ASSUME passes \in [Reconcilers -> PassRecords], \A r \in Reconcilers : PassFine(passes[r])
  PROVE  /\ PassCarried
         /\ passes \in [Reconcilers -> PassRecords]
         /\ \A r \in Reconcilers :
              /\ passes[r].at \in Stages \ {"idle", "next"} => passes[r].row \in Listed
              /\ At(r, "record") => passes[r].outcome \in FinalStates
BY DEF PassFine, PassCarried, At, Filing

(* A decided operation stays decided, so a pass stays fine. *)
LEMMA PassStays ==
  ASSUME NEW pass, PassFine(pass), WorldMonotone
  PROVE  PassFine(pass)'
<1>1. pass.at = "record" => pass.row.filing \in Filings
  BY DEF PassFine, Stages, Listed
<1>. QED BY <1>1 DEF PassFine, WorldMonotone

BackupTyped == backup \in [wf : [Filings -> Runs],
                           mailbox : [Filings -> Messages \cup {NoMessage}]]

LEMMA BackupStays ==
  ASSUME BackupTyped, BackupCarried, WorldMonotone, UNCHANGED backup
  PROVE  BackupCarried'
<1>. SUFFICES ASSUME NEW f \in Filings
              PROVE  /\ backup.wf[f].pc \in PreparedPcs => Prepared(f)'
                     /\ backup.wf[f].outcome \in FinalStates
                          => Vouched(f, backup.wf[f].outcome)'
                     /\ backup.mailbox[f] # NoMessage
                          /\ backup.mailbox[f].outcome \in FinalStates
                          => Vouched(f, backup.mailbox[f].outcome)'
  BY DEF BackupCarried, Vouched
<1>. QED BY DEF BackupCarried, WorldMonotone, Vouched

(* Steps that keep the workflow's invariant. *)
LEMMA OtherStep ==
  ASSUME RInv, IInv', WorldMonotone, UNCHANGED reconciliationVars
  PROVE  RInv'
<1>1. UNCHANGED <<passes, backup, backups, deletes>>
  BY DEF reconciliationVars
<1>2. \A r \in Reconcilers : PassFine(passes[r])'
  <2>1. SUFFICES ASSUME NEW r \in Reconcilers, NEW pass, pass = passes[r]
                 PROVE  PassFine(pass)'
    BY <1>1 DEF PassFine
  <2>. QED BY <2>1, PassFacts, PassStays
<1>3. PassCarried'
  BY <1>1, <1>2 DEF PassFine, PassCarried, At, Filing
<1>4. PassesTypeOK'
  BY <1>1 DEF RInv, PassesTypeOK, At
<1>5. BackupCarried'
  BY <1>1, BackupStays DEF RInv, PassesTypeOK, BackupTyped
<1>. QED BY <1>3, <1>4, <1>5 DEF RInv

(* A step of a pass that keeps the workflow's invariant. *)
LEMMA PassStep ==
  ASSUME RInv, IInv', WorldMonotone, NEW r \in Reconcilers, NEW pass,
         passes' = [passes EXCEPT ![r] = pass] \/ passes' = passes, PassFine(pass)',
         UNCHANGED backupVars, deletes' \in 0..MaxDeletes
  PROVE  RInv'
<1>1. UNCHANGED <<backup, backups>>
  BY DEF backupVars
<1>2. /\ passes \in [Reconcilers -> PassRecords]
      /\ pass \in PassRecords
  BY DEF RInv, PassesTypeOK, PassRecords, PassFine
<1>3. \A q \in Reconcilers : passes'[q] = passes[q] \/ passes'[q] = pass
  BY <1>2
<1>4. \A q \in Reconcilers : PassFine(passes[q])'
  <2>1. SUFFICES ASSUME NEW q \in Reconcilers, NEW old, old = passes[q]
                 PROVE  PassFine(passes[q])'
    OBVIOUS
  <2>2. PassFine(old)'
    BY <2>1, PassFacts, PassStays
  <2>3. passes'[q] = old \/ passes'[q] = pass
    BY <1>3, <2>1
  <2>. QED BY <2>2, <2>3 DEF PassFine
<1>5. passes' \in [Reconcilers -> PassRecords]
  BY <1>2
<1>6. PassCarried'
  BY <1>4 DEF PassFine, PassCarried, At, Filing
<1>7. \A q \in Reconcilers :
        /\ passes'[q].at \in Stages \ {"idle", "next"} => passes'[q].row \in Listed
        /\ passes'[q].at = "record" => passes'[q].outcome \in FinalStates
  BY <1>4 DEF PassFine
<1>8. PassesTypeOK'
  BY <1>1, <1>5, <1>7 DEF RInv, PassesTypeOK, At, PassRecords
<1>9. BackupCarried'
  BY <1>1, BackupStays DEF RInv, PassesTypeOK, BackupTyped
<1>. QED BY <1>6, <1>8, <1>9 DEF RInv

-----------------------------------------------------------------------------
(* The passes that the actions go on with. *)

LEMMA NoPassFine ==
  ASSUME NEW pass, pass = NoPass
  PROVE  PassFine(pass)'
BY DEF PassFine, PassRecords, NoPass, Stages

LEMMA ListPassFine ==
  ASSUME NEW due \in SUBSET Listed, NEW pass,
         pass = BetweenRows(due)
  PROVE  PassFine(pass)'
<1>1. pass \in PassRecords
  BY DEF PassRecords, Stages, BetweenRows
<1>2. pass.at = "next" /\ "next" # "record"
  BY DEF BetweenRows
<1>3. pass.at \notin Stages \ {"idle", "next"} /\ pass.at # "record"
  BY <1>2
<1>. QED BY <1>1, <1>3 DEF PassFine

LEMMA NextRowFine ==
  ASSUME RInv, NEW r \in Reconcilers, NEW pass, pass = NextRow(r)
  PROVE  PassFine(pass)'
<1>1. PICK due \in SUBSET Listed : due = passes[r].due
  BY DEF RInv, PassesTypeOK
<1>2. pass = BetweenRows(due)
  BY <1>1 DEF NextRow
<1>. QED BY <1>1, <1>2, ListPassFine

LEMMA ReachedShape ==
  ASSUME RInv, NEW r \in Reconcilers, NEW stage \in Stages, NEW pass,
         pass = Reached(r, stage)
  PROVE  /\ pass \in PassRecords /\ pass.at = stage
         /\ pass.row = passes[r].row /\ pass.outcome = passes[r].outcome
<1>1. passes[r] \in PassRecords
  BY DEF RInv, PassesTypeOK, PassRecords
<1>. QED BY <1>1 DEF Reached, PassRecords

LEMMA RowFacts ==
  ASSUME RInv, NEW r \in Reconcilers, NEW stage \in Stages \ {"idle", "next"}, At(r, stage)
  PROVE  /\ passes[r].row \in Listed /\ Filing(r) \in Filings
         /\ passes[r].row.scenario \in Scenarios \cup {"ok"}
BY DEF RInv, PassesTypeOK, At, Filing, Listed

(* What a pass is about to book is what the provider decided. *)
LEMMA RecordTrue ==
  ASSUME RInv, NEW r \in Reconcilers, At(r, "record"), NEW req, req = RecordRequest(r)
  PROVE  req \in Requests /\ CommandTrue(req)
<1>1. Filing(r) \in Filings
  BY RowFacts DEF Stages
<1>2. passes[r].outcome \in FinalStates
  BY DEF RInv, PassesTypeOK
<1>3. ledger[ProviderOperationID(Filing(r))].status = passes[r].outcome
  BY DEF RInv, PassCarried
<1>4. ReconcilerDetail(r) \in Details
  BY ReconciliationAssumption
<1>5. PICK outcome \in FinalStates : outcome = passes[r].outcome
  BY <1>2
<1>6. req = OutcomeRequest(Filing(r), outcome, ReconcilerDetail(r))
  BY <1>5 DEF RecordRequest
<1>7. req \in Requests
  BY <1>1, <1>4, <1>6 DEF Requests
<1>8. /\ req.filing = Filing(r) /\ req.type # "PrepareFilingSubmission"
      /\ commandTransitions[req.type] = outcome
  BY <1>6 DEF OutcomeRequest, commandTransitions, FinalStates
<1>. QED BY <1>3, <1>5, <1>7, <1>8 DEF CommandTrue, Vouched

-----------------------------------------------------------------------------
(* The steps of a pass that only read.                                      *)

ReadsOnly == UNCHANGED vars /\ UNCHANGED <<backupVars, deletes>>

LEMMA ReadingStep ==
  ASSUME RInv, NEW r \in Reconcilers, NEW pass, Goes(r, pass), PassFine(pass)', ReadsOnly
  PROVE  RInv'
<1>1. IInv /\ deletes \in 0..MaxDeletes
  BY DEF RInv, PassesTypeOK
<1>2. IInv'
  BY <1>1, StutterStep DEF ReadsOnly
<1>3. WorldMonotone
  BY <1>1, SameWorld DEF ReadsOnly, vars
<1>. QED BY <1>1, <1>2, <1>3, PassStep DEF Goes, ReadsOnly

LEMMA FetchStep ==
  ASSUME RInv, NEW r \in Reconcilers, FetchDueRecords(r)
  PROVE  RInv'
<1>1. PICK rows \in SUBSET Due : Goes(r, BetweenRows(rows))
  BY DEF FetchDueRecords
<1>2. Due \subseteq Listed
  <2>1. \A f \in Filings : filings[f].scenario \in Scenarios \cup {"ok"}
    BY DEF RInv, IInv, TypeOK, AccountableTypeOK, Rows
  <2>. QED BY <2>1 DEF Due, Listed
<1>3. PICK due \in SUBSET Listed : due = rows
  BY <1>1, <1>2
<1>4. PICK pass : pass = BetweenRows(due)
  OBVIOUS
<1>5. Goes(r, pass)
  BY <1>1, <1>3, <1>4
<1>6. PassFine(pass)'
  BY <1>3, <1>4, ListPassFine
<1>. QED BY <1>5, <1>6, ReadingStep DEF FetchDueRecords, ReadsOnly

LEMMA LookStep ==
  ASSUME RInv, NEW r \in Reconcilers, LookAt(r)
  PROVE  RInv'
<1>1. PICK row \in passes[r].due :
        Goes(r, [at |-> StageFor(row), due |-> passes[r].due \ {row},
                 row |-> IF StageFor(row) = "next" THEN NoRow ELSE row, outcome |-> ""])
  BY DEF LookAt
<1>2. PICK due \in SUBSET Listed : due = passes[r].due
  BY DEF RInv, PassesTypeOK
<1>3. row \in Listed
  BY <1>1, <1>2
<1>4. PICK stage \in {"provider", "delete", "start", "next"} : stage = StageFor(row)
  BY DEF StageFor
<1>5. PICK pass : pass = [at |-> stage, due |-> due \ {row},
                          row |-> IF stage = "next" THEN NoRow ELSE row, outcome |-> ""]
  OBVIOUS
<1>6. Goes(r, pass)
  BY <1>1, <1>2, <1>4, <1>5
<1>7. pass \in PassRecords
  BY <1>3, <1>5 DEF PassRecords, Stages
<1>8. PassFine(pass)'
  BY <1>3, <1>5, <1>7 DEF PassFine, Stages
<1>. QED BY <1>6, <1>8, ReadingStep DEF LookAt, ReadsOnly

LEMMA AskStep ==
  ASSUME RInv, NEW r \in Reconcilers, AskProvider(r)
  PROVE  RInv'
<1> DEFINE status == ledger[ProviderOperationID(Filing(r))].status
<1>1. At(r, "provider") /\ ReadsOnly
  BY DEF AskProvider, ReadsOnly
<1>2. Filing(r) \in Filings /\ passes[r].row \in Listed
  BY <1>1, RowFacts DEF Stages
<1>3. CASE status \in FinalStates
  <2>1. PICK reached : reached = Reached(r, "record")
    OBVIOUS
  <2>2. /\ reached \in PassRecords /\ reached.at = "record"
        /\ reached.row = passes[r].row
    BY <2>1, ReachedShape DEF Stages
  <2>3. PICK outcome \in FinalStates : outcome = status
    BY <1>3
  <2>4. PICK pass : pass = [reached EXCEPT !.outcome = outcome]
    OBVIOUS
  <2>5. Goes(r, pass)
    BY <1>3, <2>1, <2>3, <2>4 DEF AskProvider
  <2>6. /\ pass \in PassRecords /\ pass.at = "record"
        /\ pass.row = passes[r].row /\ pass.outcome = outcome
    BY <2>2, <2>4 DEF PassRecords
  <2>7. ledger' = ledger
    BY <1>1 DEF ReadsOnly, vars
  <2>8. ledger'[ProviderOperationID(pass.row.filing)].status = pass.outcome
    BY <2>3, <2>6, <2>7 DEF Filing
  <2>9. PassFine(pass)'
    BY <1>2, <2>6, <2>8 DEF PassFine
  <2>. QED BY <1>1, <2>5, <2>9, ReadingStep
<1>4. CASE status \notin FinalStates
  <2>1. PICK pass : pass = NextRow(r)
    OBVIOUS
  <2>2. Goes(r, pass)
    BY <1>4, <2>1 DEF AskProvider
  <2>. QED BY <1>1, <2>1, <2>2, NextRowFine, ReadingStep
<1>. QED BY <1>3, <1>4

-----------------------------------------------------------------------------
(* The steps of a pass that act.                                            *)

LEMMA RecordOutcomeStep ==
  ASSUME RInv, NEW r \in Reconcilers, RecordOutcome(r)
  PROVE  RInv'
<1>1. /\ At(r, "record") /\ UNCHANGED <<ledger, wf, mailbox, running, call, latePosts,
                                        lateCommands, asserted, resumes, losses>>
      /\ UNCHANGED backupVars /\ deletes' = deletes
  BY DEF RecordOutcome, runtimeVars, lateVars, operatorVars
<1>2. IInv /\ deletes \in 0..MaxDeletes
  BY DEF RInv, PassesTypeOK
<1>3. CASE ApplyCommand(RecordRequest(r)) /\ GoesOn(r, NextRow(r))
  <2>1. PICK req : req = RecordRequest(r)
    OBVIOUS
  <2>2. req \in Requests /\ CommandTrue(req)
    BY <1>1, <2>1, RecordTrue
  <2>3. IInv' /\ WorldMonotone
    BY <1>1, <1>2, <1>3, <2>1, <2>2, UnheardCommandStep, ApplyWorld
  <2>4. PICK pass : pass = NextRow(r)
    OBVIOUS
  <2>5. passes' = [passes EXCEPT ![r] = pass] \/ passes' = passes
    BY <1>3, <2>4 DEF GoesOn, Goes
  <2>. QED BY <1>1, <1>2, <2>3, <2>4, <2>5, NextRowFine, PassStep
<1>4. CASE Goes(r, NoPass) /\ UNCHANGED accountableVars
  <2>1. PICK pass : pass = NoPass
    OBVIOUS
  <2>2. ReadsOnly
    BY <1>1, <1>4 DEF ReadsOnly, vars, accountableVars
  <2>. QED BY <1>4, <2>1, <2>2, NoPassFine, ReadingStep
<1>. QED BY <1>3, <1>4 DEF RecordOutcome

(* An execution is ended and its row and messages go. *)
LEMMA DeleteIInv ==
  ASSUME IInv, NEW f \in Filings, Abandon({f}),
         wf' = [wf EXCEPT ![f] = NoRun], mailbox' = [mailbox EXCEPT ![f] = NoMessage],
         running' = [running EXCEPT ![f] = FALSE], call' = [call EXCEPT ![f] = Idle],
         UNCHANGED <<filings, commands, reseeded, ledger, asserted, resumes, losses>>
  PROVE  IInv'
<1>1. /\ wf' \in [Filings -> Runs] /\ mailbox' \in [Filings -> Messages \cup {NoMessage}]
      /\ running' \in [Filings -> BOOLEAN] /\ call' \in [Filings -> Calls]
  BY NoRunType, IdleType DEF IInv, TypeOK
<1>2. /\ wf'[f] = NoRun /\ mailbox'[f] = NoMessage /\ ~running'[f] /\ call'[f] = Idle
      /\ \A g \in Filings : g # f =>
           /\ wf'[g] = wf[g] /\ mailbox'[g] = mailbox[g]
           /\ running'[g] = running[g] /\ call'[g] = call[g]
  BY DEF IInv, TypeOK
<1>3. Fit'
  <2>1. TypeOK'
    BY <1>1, AbandonTrue DEF IInv, TypeOK, AccountableTypeOK, LedgerTypeOK
  <2>2. CallsFit'
    <3>1. SUFFICES ASSUME NEW g \in Filings
                   PROVE  /\ running'[g] => wf'[g].status # "absent"
                          /\ call'[g].phase # "idle" => running'[g] /\ wf'[g].pc \in Steps
                          /\ call'[g].phase = "answered"
                               => call'[g].answer \in AnswersTo(wf[g].pc)'
      BY DEF CallsFit
    <3>2. CASE g = f
      <4>1. ~running'[g]
        BY <1>2, <3>2
      <4>2. call'[g] = Idle
        BY <1>2, <3>2
      <4>3. Idle.phase = "idle"
        BY DEF Idle
      <4>. QED BY <4>1, <4>2, <4>3
    <3>3. CASE g # f
      <4>1. /\ wf'[g] = wf[g] /\ running'[g] = running[g] /\ call'[g] = call[g]
        BY <1>2, <3>3
      <4>. QED BY <4>1 DEF IInv, CallsFit, AnswersTo
    <3>. QED BY <3>2, <3>3
  <2>. QED BY <2>1, <2>2 DEF Fit
<1>4. RuntimeKept
  <2>1. NoRun.pc \notin PreparedPcs /\ NoRun.outcome \notin FinalStates
    BY DEF NoRun, PreparedPcs, FinalStates
  <2>2. Idle.phase # "answered"
    BY DEF Idle
  <2>3. \A g \in Filings : mailbox'[g] = mailbox[g] \/ MessageTrue(g)'
    BY <1>2 DEF MessageTrue
  <2>4. \A g \in Filings :
          /\ wf'[g].pc \in PreparedPcs => wf[g].pc \in PreparedPcs
          /\ wf'[g].outcome = wf[g].outcome \/ wf'[g].outcome \notin FinalStates
          /\ \/ call'[g].phase # "answered"
             \/ call'[g] = call[g] /\ wf'[g].pc = wf[g].pc
    BY <1>2, <2>1, <2>2
  <2>. QED BY <2>3, <2>4, AbandonTrue DEF RuntimeKept
<1>. QED BY <1>3, <1>4, SameWorld, Frame

LEMMA DeleteStep ==
  ASSUME RInv, NEW r \in Reconcilers, DeleteWorkflow(r)
  PROVE  RInv'
<1>1. At(r, "delete") /\ deletes < MaxDeletes /\ deletes' = deletes + 1
  BY DEF DeleteWorkflow
<1>2. PICK f \in Filings : f = Filing(r)
  BY <1>1, RowFacts DEF Stages
<1>3. UNCHANGED <<filings, commands, reseeded, ledger, asserted, resumes, losses>>
  BY DEF DeleteWorkflow, accountableVars, operatorVars
<1>4. IInv
  BY DEF RInv
<1>5. IInv' /\ WorldMonotone
  BY <1>2, <1>3, <1>4, DeleteIInv, SameWorld DEF DeleteWorkflow
<1>6. PICK pass : pass = Reached(r, "start")
  OBVIOUS
<1>7. PassFine(pass)'
  BY <1>1, <1>6, RowFacts, ReachedShape DEF PassFine, Stages
<1>8. deletes' \in 0..MaxDeletes
  <2>1. deletes \in 0..MaxDeletes
    BY DEF RInv, PassesTypeOK
  <2>2. MaxDeletes \in Nat
    BY ReconciliationAssumption
  <2>. QED BY <1>1, <2>1, <2>2
<1>9. passes' = [passes EXCEPT ![r] = pass] \/ passes' = passes
  BY <1>6 DEF DeleteWorkflow, GoesOn, Goes
<1>. QED BY <1>5, <1>7, <1>8, <1>9, PassStep DEF DeleteWorkflow

LEMMA StartStep ==
  ASSUME RInv, NEW r \in Reconcilers, StartWorkflow(r)
  PROVE  RInv'
<1>1. At(r, "start") /\ UNCHANGED <<accountableVars, ledger, mailbox, running, call,
                                    lateVars, operatorVars, backupVars, deletes>>
  BY DEF StartWorkflow
<1>2. PICK f \in Filings : f = Filing(r)
  BY <1>1, RowFacts DEF Stages
<1>3. PICK s \in Scenarios \cup {"ok"} : s = passes[r].row.scenario
  BY <1>1, RowFacts DEF Stages
<1>4. IInv /\ deletes \in 0..MaxDeletes
  BY DEF RInv, PassesTypeOK
<1>5. IInv'
  <2>1. CASE Enqueue(f, s)
    BY <1>4, <2>1, EnqueueStep
  <2>2. CASE UNCHANGED wf
    BY <1>1, <1>4, <2>2, StutterStep DEF vars, accountableVars, lateVars, operatorVars
  <2>3. Enqueue(f, s) \/ UNCHANGED wf
    BY <1>1, <1>2, <1>3 DEF StartWorkflow, Enqueue
  <2>. QED BY <2>1, <2>2, <2>3
<1>6. WorldMonotone
  BY <1>1, <1>4, SameWorld DEF accountableVars, operatorVars
<1>7. PICK pass, none : pass = NextRow(r) /\ none = NoPass
  OBVIOUS
<1>8. PassFine(pass)' /\ PassFine(none)'
  BY <1>7, NextRowFine, NoPassFine
<1>9. \/ passes' = [passes EXCEPT ![r] = pass] \/ passes' = passes
      \/ passes' = [passes EXCEPT ![r] = none]
  BY <1>7 DEF StartWorkflow, GoesOn, Goes
<1>. QED BY <1>1, <1>4, <1>5, <1>6, <1>8, <1>9, PassStep

(* A request whose caller has gone is as true as the pass it comes from. *)
LEMMA LateRecordIInv ==
  ASSUME RInv, NEW r \in Reconcilers,
         lateCommands' = lateCommands \/ (/\ At(r, "record")
                                         /\ lateCommands' = lateCommands \cup {RecordRequest(r)}),
         UNCHANGED <<filings, commands, reseeded, ledger, wf, mailbox, running, call,
                     latePosts, asserted, resumes, losses>>
  PROVE  IInv'
<1>1. IInv
  BY DEF RInv
<1>2. lateCommands' \subseteq Requests
        /\ \A req \in lateCommands' : req \in lateCommands \/ CommandTrue(req)
  <2>1. CASE lateCommands' = lateCommands
    BY <1>1, <2>1 DEF IInv, TypeOK
  <2>2. CASE At(r, "record") /\ lateCommands' = lateCommands \cup {RecordRequest(r)}
    <3>1. PICK req : req = RecordRequest(r)
      OBVIOUS
    <3>2. req \in Requests /\ CommandTrue(req)
      BY <2>2, <3>1, RecordTrue
    <3>. QED BY <1>1, <2>2, <3>1, <3>2 DEF IInv, TypeOK
  <2>. QED BY <2>1, <2>2
<1>3. Fit'
  BY <1>1, <1>2 DEF IInv, Fit, TypeOK, CallsFit, AccountableTypeOK, LedgerTypeOK
<1>4. RuntimeKept
  BY <1>2 DEF RuntimeKept
<1>. QED BY <1>1, <1>3, <1>4, SameWorld, Frame

LEMMA EndStep ==
  ASSUME RInv, NEW r \in Reconcilers, PassEnds(r) \/ RecordAgain(r)
  PROVE  RInv'
<1>1. UNCHANGED <<filings, commands, reseeded, ledger, wf, mailbox, running, call,
                  latePosts, asserted, resumes, losses>>
      /\ UNCHANGED <<backupVars, deletes>>
  BY DEF PassEnds, RecordAgain, accountableVars, runtimeVars, operatorVars,
     reconciliationVars, backupVars
<1>2. \/ lateCommands' = lateCommands
      \/ At(r, "record") /\ lateCommands' = lateCommands \cup {RecordRequest(r)}
  BY DEF PassEnds, RecordAgain
<1>3. IInv'
  BY <1>1, <1>2, LateRecordIInv
<1>4. WorldMonotone /\ deletes \in 0..MaxDeletes
  BY <1>1, SameWorld DEF RInv, PassesTypeOK
<1>5. PICK pass : pass = NoPass
  OBVIOUS
<1>6. passes' = [passes EXCEPT ![r] = pass] \/ passes' = passes
  BY <1>5 DEF PassEnds, RecordAgain, Goes, reconciliationVars
<1>. QED BY <1>1, <1>3, <1>4, <1>5, <1>6, NoPassFine, PassStep

-----------------------------------------------------------------------------
(* Backups. *)

LEMMA TakeBackupStep ==
  ASSUME RInv, TakeBackup
  PROVE  RInv'
<1>1. IInv' /\ WorldMonotone
  BY StutterStep, SameWorld DEF RInv, TakeBackup, vars
<1>2. \A r \in Reconcilers : PassFine(passes[r])'
  <2>1. SUFFICES ASSUME NEW r \in Reconcilers, NEW pass, pass = passes[r]
                 PROVE  PassFine(pass)'
    BY DEF TakeBackup, PassFine
  <2>. QED BY <1>1, <2>1, PassFacts, PassStays
<1>3. PassCarried'
  BY <1>2 DEF TakeBackup, PassFine, PassCarried, At, Filing
<1>4. PassesTypeOK'
  <2>1. backups \in 0..MaxBackups /\ backups < MaxBackups /\ backups' = backups + 1
    BY DEF RInv, PassesTypeOK, TakeBackup
  <2>2. MaxBackups \in Nat
    BY ReconciliationAssumption
  <2>3. backups' \in 0..MaxBackups
    BY <2>1, <2>2
  <2>4. backup' = [wf |-> wf, mailbox |-> mailbox]
    BY DEF TakeBackup
  <2>5. backup' \in [wf : [Filings -> Runs], mailbox : [Filings -> Messages \cup {NoMessage}]]
    BY <2>4 DEF RInv, IInv, TypeOK
  <2>. QED BY <2>3, <2>5 DEF RInv, PassesTypeOK, TakeBackup, At
<1>5. BackupCarried'
  <2>1. SUFFICES ASSUME NEW f \in Filings
                 PROVE  /\ backup'.wf[f].pc \in PreparedPcs => Prepared(f)'
                        /\ backup'.wf[f].outcome \in FinalStates
                             => Vouched(f, backup.wf[f].outcome)'
                        /\ backup'.mailbox[f] # NoMessage
                             /\ backup'.mailbox[f].outcome \in FinalStates
                             => Vouched(f, backup.mailbox[f].outcome)'
    BY DEF BackupCarried
  <2>2. /\ wf[f].pc \in PreparedPcs => Prepared(f)
        /\ wf[f].outcome \in FinalStates => Vouched(f, wf[f].outcome)
        /\ mailbox[f] # NoMessage /\ mailbox[f].outcome \in FinalStates
             => Vouched(f, mailbox[f].outcome)
    BY IInvWorld DEF RInv, MessageTrue
  <2>3. /\ backup'.wf = wf /\ backup'.mailbox = mailbox
        /\ UNCHANGED <<filings, ledger, asserted>>
    BY DEF TakeBackup, vars
  <2>. QED BY <2>2, <2>3 DEF Prepared, Vouched
<1>. QED BY <1>1, <1>3, <1>4, <1>5 DEF RInv

(* What a backup brings back is still true. *)
LEMMA RestoreIInv ==
  ASSUME RInv, RestoreBackup
  PROVE  IInv'
<1>1. /\ Abandon(Filings) /\ wf' = backup.wf /\ mailbox' = backup.mailbox
      /\ running' = [f \in Filings |-> FALSE] /\ call' = [f \in Filings |-> Idle]
      /\ losses < MaxLosses /\ losses' = losses + 1
      /\ UNCHANGED <<filings, commands, reseeded, ledger, asserted, resumes>>
  BY DEF RestoreBackup, accountableVars
<1>2. IInv /\ losses' \in 0..MaxLosses
  <2>1. losses \in 0..MaxLosses /\ MaxLosses \in Nat
    BY WorkflowAssumption DEF RInv, IInv, TypeOK
  <2>. QED BY <1>1, <2>1 DEF RInv
<1>3. wf' \in [Filings -> Runs] /\ mailbox' \in [Filings -> Messages \cup {NoMessage}]
  BY <1>1 DEF RInv, PassesTypeOK
<1>4. \A f \in Filings : ~running'[f] /\ call'[f].phase = "idle"
  BY <1>1 DEF Idle
<1>5. Fit'
  <2>1. call' \in [Filings -> Calls] /\ running' \in [Filings -> BOOLEAN]
    BY <1>1, IdleType
  <2>2. TypeOK'
    BY <1>1, <1>2, <1>3, <2>1, AbandonTrue DEF IInv, TypeOK, AccountableTypeOK, LedgerTypeOK
  <2>. QED BY <1>4, <2>2 DEF Fit, CallsFit
<1>6. WorldTrue' /\ WorldMonotone
  BY <1>1, <1>2, SameWorld
<1>7. RuntimeKept
  <2>1. \A f \in Filings :
          /\ wf'[f].pc \in PreparedPcs => Prepared(f)
          /\ wf'[f].outcome \in FinalStates => Vouched(f, wf'[f].outcome)
          /\ mailbox'[f] # NoMessage /\ mailbox'[f].outcome \in FinalStates
               => Vouched(f, mailbox'[f].outcome)
    BY <1>1 DEF RInv, BackupCarried
  <2>2. \A f \in Filings : MessageTrue(f)'
    BY <1>1, <2>1 DEF MessageTrue, Vouched
  <2>. QED BY <1>1, <1>2, <1>4, <2>1, <2>2, AbandonTrue DEF RuntimeKept
<1>. QED BY <1>2, <1>5, <1>6, <1>7, Frame

LEMMA RestoreStep ==
  ASSUME RInv, RestoreBackup
  PROVE  RInv'
<1>1. IInv'
  BY RestoreIInv
<1>2. /\ UNCHANGED <<filings, commands, ledger, asserted>>
      /\ UNCHANGED reconciliationVars
  BY DEF RestoreBackup, accountableVars
<1>3. WorldMonotone
  BY <1>2, SameWorld DEF RInv
<1>. QED BY <1>1, <1>2, <1>3, OtherStep

-----------------------------------------------------------------------------
(* The steps of the workflow itself: the contract says that what is decided *)
(* stays decided.                                                           *)

LEMMA ContractMonotone ==
  ASSUME IInv, IInv', ContractStep
  PROVE  WorldMonotone
<1>1. SUFFICES ASSUME NEW f \in Filings
               PROVE  /\ Prepared(f) => Prepared(f)'
                      /\ \A o \in FinalStates : Vouched(f, o) => Vouched(f, o)'
                      /\ ledger[ProviderOperationID(f)].status \in FinalStates =>
                           ledger'[ProviderOperationID(f)].status
                             = ledger[ProviderOperationID(f)].status
  BY DEF WorldMonotone
<1>2. /\ Prepared(f) <=> Book[f] \notin {"absent", "ready"}
      /\ Prepared(f)' <=> Book'[f] \notin {"absent", "ready"}
  <2>1. NoOperation # ProviderOperationID(f)
    BY DomainAssumption DEF OperationIDs
  <2>2. /\ filings[f].state \in {"absent", "ready"} => filings[f].op = NoOperation
        /\ filings[f].state \notin {"absent", "ready"} => Prepared(f)
    BY IInvWorld DEF WorldTrue
  <2>3. /\ filings'[f].state \in {"absent", "ready"} => filings'[f].op = NoOperation
        /\ filings'[f].state \notin {"absent", "ready"} => Prepared(f)'
    BY DEF IInv, IntentCarried, KnownPrepared
  <2>. QED BY <2>1, <2>2, <2>3 DEF Prepared, Book
<1>3. ContractForward(f)
  BY ContractMovesForward DEF IInv, TypeOK
<1>. QED BY <1>2, <1>3 DEF ContractForward, Effect, Vouched

LEMMA FilingStepStep ==
  ASSUME RInv, FilingStep
  PROVE  RInv'
<1>1. IInv /\ [Next]_vars /\ UNCHANGED reconciliationVars
  BY DEF RInv, FilingStep
<1>2. IInv'
  BY <1>1, NextStep
<1>3. WorldMonotone
  BY <1>1, <1>2, NextContract, ContractMonotone
<1>. QED BY <1>1, <1>2, <1>3, OtherStep

LEMMA RNextStep ==
  ASSUME RInv, [RNext]_rvars
  PROVE  RInv'
<1>1. ASSUME NEW r \in Reconcilers, Pass(r)
      PROVE  RInv'
  BY <1>1, FetchStep, LookStep, AskStep, RecordOutcomeStep, DeleteStep, StartStep, EndStep
     DEF Pass
<1>2. CASE UNCHANGED rvars
  <2>1. IInv' /\ WorldMonotone /\ UNCHANGED reconciliationVars
    BY <1>2, StutterStep, SameWorld DEF RInv, rvars, vars, reconciliationVars
  <2>. QED BY <2>1, OtherStep
<1>. QED BY <1>1, <1>2, FilingStepStep, TakeBackupStep, RestoreStep DEF RNext

LEMMA RInitInv == RInit => RInv
<1>. SUFFICES ASSUME RInit
              PROVE  RInv
  OBVIOUS
<1>1. Init /\ IInv
  BY InitIInv DEF RInit
<1>2. \A r \in Reconcilers : passes[r].at = "idle"
  BY DEF RInit, NoPass
<1>3. PassCarried
  BY <1>2 DEF PassCarried, At
<1>4. PassesTypeOK
  <2>1. NoPass \in PassRecords
    BY DEF NoPass, PassRecords, Stages
  <2>2. passes \in [Reconcilers -> PassRecords]
    BY <2>1 DEF RInit
  <2>3. backup = [wf |-> wf, mailbox |-> mailbox]
    BY DEF RInit
  <2>4. backup \in [wf : [Filings -> Runs], mailbox : [Filings -> Messages \cup {NoMessage}]]
    BY <1>1, <2>3 DEF IInv, TypeOK
  <2>5. backups \in 0..MaxBackups /\ deletes \in 0..MaxDeletes
    BY ReconciliationAssumption DEF RInit
  <2>. QED BY <1>2, <2>2, <2>4, <2>5 DEF PassesTypeOK, PassRecords, At
<1>5. BackupCarried
  <2>1. backup.wf = wf /\ backup.mailbox = mailbox
    BY DEF RInit
  <2>. QED BY <1>1, <2>1, IInvWorld DEF BackupCarried, MessageTrue
<1>. QED BY <1>1, <1>3, <1>4, <1>5 DEF RInv

(* Whatever the scheduled reconciliation (workflow/filing.go, Reconcile)    *)
(* and operators' reconciliations (cmd/opsctl) do, between which steps of   *)
(* the workflows, and whichever backup of the DBOS database is restored,    *)
(* the invariant of the workflow holds: no effect before its intent, and no *)
(* outcome that nobody vouches for.                                         *)
THEOREM ReconciliationInvariance == RSpec => []RInv
<1>1. RInv /\ [RNext]_rvars => RInv'
  BY RNextStep
<1>. QED BY RInitInv, <1>1, PTL DEF RSpec

-----------------------------------------------------------------------------
(* What the whole implements. *)

LEMMA PassContract ==
  ASSUME RInv, NEW r \in Reconcilers, Pass(r)
  PROVE  ContractStep
<1>1. CASE RecordOutcome(r)
  <2>1. At(r, "record") /\ UNCHANGED <<ledger, asserted>> /\ IInv
    BY <1>1 DEF RecordOutcome, operatorVars, RInv
  <2>2. CASE ApplyCommand(RecordRequest(r))
    <3>1. PICK req : req = RecordRequest(r)
      OBVIOUS
    <3>2. req \in Requests /\ CommandTrue(req) /\ ApplyCommand(req)
      BY <2>1, <2>2, <3>1, RecordTrue
    <3>. QED BY <2>1, <3>2, ApplyContract
  <2>3. CASE UNCHANGED accountableVars
    BY <2>1, <2>3, QuietStep DEF accountableVars
  <2>. QED BY <1>1, <2>2, <2>3 DEF RecordOutcome
<1>2. CASE FetchDueRecords(r) \/ LookAt(r) \/ AskProvider(r)
  BY <1>2, QuietStep DEF FetchDueRecords, LookAt, AskProvider, vars
<1>3. CASE DeleteWorkflow(r) \/ StartWorkflow(r) \/ PassEnds(r) \/ RecordAgain(r)
  BY <1>3, QuietStep
     DEF DeleteWorkflow, StartWorkflow, PassEnds, RecordAgain, accountableVars, operatorVars
<1>. QED BY <1>1, <1>2, <1>3 DEF Pass

LEMMA RNextContract ==
  ASSUME RInv, [RNext]_rvars
  PROVE  ContractStep
<1>1. CASE FilingStep
  BY <1>1, NextContract DEF FilingStep, RInv
<1>2. CASE TakeBackup \/ RestoreBackup \/ UNCHANGED rvars
  BY <1>2, QuietStep DEF TakeBackup, RestoreBackup, vars, rvars, accountableVars
<1>. QED BY <1>1, <1>2, PassContract DEF RNext

(* Reconcilers and restored backups stay within the filing contract, too    *)
(* (docs/PROOF_CONTRACT.md): what they start again files nothing twice, and *)
(* what they book the provider has decided.                                 *)
THEOREM ReconciliationImplementsContract == RSpec => ImplementsContract
<1>1. RInit => Contract!ContractInit
  BY InitContract DEF RInit
<1>2. RInv /\ [RNext]_rvars => ContractStep
  BY RNextContract
<1>. QED BY <1>1, <1>2, ReconciliationInvariance, PTL
        DEF RSpec, ImplementsContract, Contract!ContractSpec, ContractStep

LEMMA RNextBooks ==
  ASSUME RInv, [RNext]_rvars
  PROVE  BooksStep
<1>1. ASSUME NEW r \in Reconcilers, RecordOutcome(r)
      PROVE  BooksStep
  <2>1. CASE ApplyCommand(RecordRequest(r))
    <3>1. RecordRequest(r) \in Requests
      BY <1>1, RecordTrue DEF RecordOutcome
    <3>. QED BY <2>1, <3>1 DEF BooksStep, AccountableNext
  <2>2. CASE UNCHANGED accountableVars
    BY <2>2 DEF BooksStep
  <2>. QED BY <1>1, <2>1, <2>2 DEF RecordOutcome
<1>2. ASSUME NEW r \in Reconcilers,
             \/ FetchDueRecords(r) \/ LookAt(r) \/ AskProvider(r) \/ DeleteWorkflow(r)
             \/ StartWorkflow(r) \/ PassEnds(r) \/ RecordAgain(r)
      PROVE  BooksStep
  BY <1>2 DEF FetchDueRecords, LookAt, AskProvider, DeleteWorkflow, StartWorkflow,
     PassEnds, RecordAgain, vars, accountableVars, BooksStep
<1>3. CASE FilingStep
  BY <1>3, NextBooks DEF FilingStep, RInv
<1>4. CASE TakeBackup \/ RestoreBackup \/ UNCHANGED rvars
  BY <1>4 DEF TakeBackup, RestoreBackup, vars, rvars, accountableVars, BooksStep
<1>. QED BY <1>1, <1>2, <1>3, <1>4 DEF RNext, Pass

(* The reconcilers write to the books only through the commands of          *)
(* Accountable (accountable/server.go), so all that is proved of its books  *)
(* holds with them, too.                                                    *)
THEOREM ReconciliationUsesBooks == RSpec => AccountableSpec
<1>1. RInit => AccountableInit
  BY DEF RInit, Init
<1>2. RInv /\ [RNext]_rvars => BooksStep
  BY RNextBooks
<1>. QED BY <1>1, <1>2, ReconciliationInvariance, PTL
        DEF RSpec, AccountableSpec, BooksStep
-----------------------------------------------------------------------------
(* Reconcilers and restored backups use the provider, too, only as it lets  *)
(* itself be used: what they start again has the scenario its filing is     *)
(* listed with, and what a backup brings back had a known one.              *)

FilingsKnown ==
  \A f \in Filings : filings[f].state # "absent" => filings[f].scenario \in Scenarios

PassKnown(pass) ==
  /\ \A row \in pass.due : row.scenario \in Scenarios
  /\ pass.at \in Stages \ {"idle", "next"} => pass.row.scenario \in Scenarios

PassesKnown == \A r \in Reconcilers : PassKnown(passes[r])

RowKnown(run) == run.status # "absent" => run.scenario \in Scenarios
BackupKnown == \A f \in Filings : RowKnown(backup.wf[f])

(* A filing that has been seeded keeps a scenario, whatever is booked.      *)
LEMMA BooksKnown ==
  ASSUME AccountableTypeOK, FilingsKnown, BooksStep
  PROVE  FilingsKnown'
<1>1. DOMAIN filings = Filings
  BY DEF AccountableTypeOK
<1>2. ASSUME NEW f \in Filings, NEW s \in Scenarios, PutFiling(f, s)
      PROVE  FilingsKnown'
  BY <1>1, <1>2 DEF PutFiling, FilingsKnown
<1>3. ASSUME NEW req \in Requests, TakeEffect(req)
      PROVE  FilingsKnown'
  <2>1. filings' = [filings EXCEPT ![req.filing] = BookedRow(req)]
    BY <1>3 DEF TakeEffect
  <2>2. filings[req.filing].state # "absent"
    BY <1>3 DEF TakeEffect, Applies, CommandAllowsState
  <2>3. BookedRow(req).scenario = filings[req.filing].scenario
    BY DEF BookedRow
  <2>. QED BY <1>1, <2>1, <2>2, <2>3 DEF FilingsKnown
<1>4. CASE UNCHANGED accountableVars
  BY <1>4 DEF accountableVars, FilingsKnown
<1>. QED BY <1>2, <1>3, <1>4 DEF BooksStep, AccountableNext, ApplyCommand

(* A pass comes by its rows from the list of the due filings.               *)
LEMMA PassGoesKnown ==
  ASSUME RInv, PassesKnown, NEW r \in Reconcilers, NEW pass, PassKnown(pass),
         passes' = [passes EXCEPT ![r] = pass] \/ passes' = passes
  PROVE  PassesKnown'
<1>1. DOMAIN passes = Reconcilers
  BY DEF RInv, PassesTypeOK
<1>2. \A q \in Reconcilers : passes'[q] = passes[q] \/ passes'[q] = pass
  BY <1>1
<1>. QED BY <1>2 DEF PassesKnown, PassKnown

LEMMA PassesStayKnown ==
  ASSUME RInv, FilingsKnown, PassesKnown, NEW r \in Reconcilers, Pass(r)
  PROVE  PassesKnown'
<1>1. passes[r] \in PassRecords /\ PassKnown(passes[r])
  BY PassFacts DEF PassesKnown, PassFine
<1>2. PassKnown(NoPass)
  BY DEF PassKnown, NoPass
<1>3. \A due : (\A row \in due : row.scenario \in Scenarios) => PassKnown(BetweenRows(due))
  BY DEF PassKnown, BetweenRows
<1>4. PassKnown(NextRow(r))
  BY <1>1, <1>3 DEF NextRow, PassKnown
<1>5. ASSUME NEW stage \in Stages
      PROVE  passes[r].at \in Stages \ {"idle", "next"} => PassKnown(Reached(r, stage))
  BY <1>1 DEF PassKnown, Reached, PassRecords
<1>6. CASE FetchDueRecords(r)
  <2>1. PICK rows \in SUBSET Due : Goes(r, BetweenRows(rows))
    BY <1>6 DEF FetchDueRecords
  <2>2. \A row \in Due : row.scenario \in Scenarios
    BY DEF Due, Reconcilable, FilingsKnown
  <2>. QED BY <1>3, <2>1, <2>2, PassGoesKnown DEF Goes
<1>7. CASE LookAt(r)
  <2>1. PICK row \in passes[r].due :
          Goes(r, [at |-> StageFor(row), due |-> passes[r].due \ {row},
                   row |-> IF StageFor(row) = "next" THEN NoRow ELSE row, outcome |-> ""])
    BY <1>7 DEF LookAt
  <2>2. row.scenario \in Scenarios
    BY <1>1, <2>1 DEF PassKnown
  <2>3. PICK pass : pass = [at |-> StageFor(row), due |-> passes[r].due \ {row},
                            row |-> IF StageFor(row) = "next" THEN NoRow ELSE row,
                            outcome |-> ""]
    OBVIOUS
  <2>4. PassKnown(pass)
    BY <1>1, <2>2, <2>3 DEF PassKnown
  <2>. QED BY <2>1, <2>3, <2>4, PassGoesKnown DEF Goes
<1>8. CASE AskProvider(r)
  <2>1. PICK status : status = ledger[ProviderOperationID(Filing(r))].status
    OBVIOUS
  <2>2. CASE status \in FinalStates
    <3>1. PICK pass : pass = [Reached(r, "record") EXCEPT !.outcome = status]
      OBVIOUS
    <3>2. PassKnown(Reached(r, "record"))
      BY <1>5, <1>8 DEF AskProvider, At, Stages
    <3>3. Reached(r, "record") \in [at : Stages, due : SUBSET Listed,
                                    row : Listed \cup {NoRow}, outcome : FinalStates \cup {""}]
      BY ReachedShape DEF Stages, PassRecords
    <3>4. PassKnown(pass)
      BY <3>1, <3>2, <3>3 DEF PassKnown
    <3>5. Goes(r, pass)
      BY <1>8, <2>1, <2>2, <3>1 DEF AskProvider
    <3>. QED BY <3>4, <3>5, PassGoesKnown DEF Goes
  <2>3. CASE status \notin FinalStates
    <3>1. Goes(r, NextRow(r))
      BY <1>8, <2>1, <2>3 DEF AskProvider
    <3>. QED BY <1>4, <3>1, PassGoesKnown DEF Goes
  <2>. QED BY <2>2, <2>3
<1>9. CASE RecordOutcome(r) \/ StartWorkflow(r) \/ PassEnds(r)
  <2>1. Goes(r, NextRow(r)) \/ Goes(r, NoPass) \/ passes' = passes
    BY <1>9 DEF RecordOutcome, StartWorkflow, PassEnds, GoesOn
  <2>. QED BY <1>2, <1>4, <2>1, PassGoesKnown DEF Goes
<1>10. CASE DeleteWorkflow(r)
  <2>1. PassKnown(Reached(r, "start"))
    BY <1>5, <1>10 DEF DeleteWorkflow, At, Stages
  <2>2. Goes(r, Reached(r, "start")) \/ passes' = passes
    BY <1>10 DEF DeleteWorkflow, GoesOn
  <2>. QED BY <2>1, <2>2, PassGoesKnown DEF Goes
<1>11. CASE RecordAgain(r)
  BY <1>11 DEF RecordAgain, reconciliationVars, PassesKnown
<1>. QED BY <1>6, <1>7, <1>8, <1>9, <1>10, <1>11 DEF Pass

LEMMA PassScenarios ==
  ASSUME RInv, ScenariosKnown, PassesKnown, NEW r \in Reconcilers, Pass(r)
  PROVE  ScenariosKnown' /\ ledger' = ledger
<1>1. IInv
  BY DEF RInv
<1>2. CASE DeleteWorkflow(r)
  <2>1. PICK f \in Filings : f = Filing(r)
    BY <1>2, RowFacts DEF DeleteWorkflow, Stages
  <2>2. wf' = [wf EXCEPT ![f] = NoRun] /\ Abandon({f}) /\ ledger' = ledger
    BY <1>2, <2>1 DEF DeleteWorkflow
  <2>3. PostsKnown'
    BY <1>1, <2>2, AbandonKnown
  <2>4. \A g \in Filings : wf'[g] = wf[g] \/ wf'[g] = NoRun
    BY <1>1, <2>2 DEF IInv, TypeOK
  <2>5. \A g \in Filings : RunKnown(g)'
    <3>1. NoRun.status = "absent"
      BY DEF NoRun
    <3>2. \A g \in Filings : RunKnown(g)
      BY DEF ScenariosKnown
    <3>. QED BY <2>4, <3>1, <3>2 DEF RunKnown
  <2>. QED BY <2>2, <2>3, <2>5 DEF ScenariosKnown
<1>3. CASE StartWorkflow(r)
  <2>1. PICK f \in Filings : f = Filing(r)
    BY <1>3, RowFacts DEF StartWorkflow, Stages
  <2>2. PICK run : run = [NoRun EXCEPT !.status = "ENQUEUED",
                                       !.scenario = passes[r].row.scenario]
    OBVIOUS
  <2>3. run.scenario \in Scenarios
    <3>1. passes[r].row.scenario \in Scenarios
      BY <1>3 DEF StartWorkflow, At, Stages, PassesKnown, PassKnown
    <3>. QED BY <2>2, <3>1 DEF NoRun
  <2>4. wf' = [wf EXCEPT ![f] = run] \/ wf' = wf
    BY <1>3, <2>1, <2>2 DEF StartWorkflow
  <2>5. ledger' = ledger /\ latePosts' = latePosts
    BY <1>3 DEF StartWorkflow, lateVars
  <2>6. RowsKeep
    BY <1>1, <2>3, <2>4, RowKept DEF ScenariosKnown, RunKnown, RowsKeep
  <2>. QED BY <2>5, <2>6, RowsKept DEF ScenariosKnown, PostsKnown
<1>4. CASE \/ FetchDueRecords(r) \/ LookAt(r) \/ AskProvider(r) \/ RecordOutcome(r)
           \/ PassEnds(r) \/ RecordAgain(r)
  <2>1. UNCHANGED <<wf, latePosts, ledger>>
    BY <1>4 DEF FetchDueRecords, LookAt, AskProvider, RecordOutcome, PassEnds,
       RecordAgain, vars, runtimeVars, lateVars
  <2>. QED BY <2>1 DEF ScenariosKnown, RunKnown, PostsKnown
<1>. QED BY <1>2, <1>3, <1>4 DEF Pass

LEMMA BackupStaysKnown ==
  ASSUME RInv, ScenariosKnown, BackupKnown, [RNext]_rvars
  PROVE  BackupKnown'
<1>1. SUFFICES ASSUME NEW f \in Filings, NEW run, run = backup'.wf[f]
               PROVE  RowKnown(run)
  BY DEF BackupKnown, RowKnown
<1>2. CASE TakeBackup
  <2>1. run = wf[f]
    BY <1>1, <1>2 DEF TakeBackup
  <2>. QED BY <2>1 DEF ScenariosKnown, RunKnown, RowKnown
<1>3. CASE ~TakeBackup
  <2>1. backup' = backup
    BY <1>3 DEF RNext, FilingStep, Pass, FetchDueRecords, LookAt, AskProvider,
       RecordOutcome, DeleteWorkflow, StartWorkflow, PassEnds, RecordAgain,
       RestoreBackup, reconciliationVars, backupVars, rvars
  <2>2. run = backup.wf[f]
    BY <1>1, <2>1
  <2>. QED BY <2>2 DEF BackupKnown, RowKnown
<1>. QED BY <1>2, <1>3

LEMMA RestoreScenarios ==
  ASSUME RInv, ScenariosKnown, BackupKnown, RestoreBackup
  PROVE  ScenariosKnown' /\ ledger' = ledger
<1>1. Abandon(Filings) /\ wf' = backup.wf /\ ledger' = ledger
  BY DEF RestoreBackup
<1>2. PostsKnown'
  BY <1>1, AbandonKnown DEF RInv
<1>3. \A f \in Filings : RunKnown(f)'
  BY <1>1 DEF BackupKnown, RowKnown, RunKnown
<1>. QED BY <1>1, <1>2, <1>3 DEF ScenariosKnown

LEMMA RNextKnown ==
  ASSUME RInv, ScenariosKnown, FilingsKnown, PassesKnown, BackupKnown, [RNext]_rvars
  PROVE  /\ ScenariosKnown' /\ FilingsKnown' /\ PassesKnown' /\ BackupKnown'
         /\ LedgerStep
<1>1. FilingsKnown' /\ BackupKnown'
  BY RNextBooks, BooksKnown, BackupStaysKnown DEF RInv, IInv, TypeOK
<1>2. CASE FilingStep
  <2>1. IInv /\ [Next]_vars /\ UNCHANGED passes
    BY <1>2 DEF FilingStep, RInv, reconciliationVars
  <2>. QED BY <1>1, <2>1, NextKnown, NextLedger DEF PassesKnown
<1>3. ASSUME NEW r \in Reconcilers, Pass(r)
      PROVE  ScenariosKnown' /\ PassesKnown' /\ LedgerStep
  BY <1>3, PassScenarios, PassesStayKnown DEF LedgerStep
<1>4. CASE RestoreBackup
  <2>1. UNCHANGED passes
    BY <1>4 DEF RestoreBackup, reconciliationVars
  <2>. QED BY <1>1, <1>4, <2>1, RestoreScenarios DEF PassesKnown, LedgerStep
<1>5. CASE TakeBackup \/ UNCHANGED rvars
  <2>1. UNCHANGED <<wf, latePosts, ledger, passes>>
    BY <1>5 DEF TakeBackup, vars, rvars
  <2>. QED BY <1>1, <2>1 DEF ScenariosKnown, RunKnown, PostsKnown, PassesKnown, LedgerStep
<1>. QED BY <1>1, <1>2, <1>3, <1>4, <1>5 DEF RNext

LEMMA RInitKnown ==
  ASSUME RInit
  PROVE  ScenariosKnown /\ FilingsKnown /\ PassesKnown /\ BackupKnown
<1>1. ScenariosKnown /\ backup.wf = wf
  BY InitKnown DEF RInit
<1>2. BackupKnown
  BY <1>1 DEF ScenariosKnown, RunKnown, BackupKnown, RowKnown
<1>3. FilingsKnown
  BY DEF RInit, Init, AccountableInit, AbsentRow, FilingsKnown
<1>4. PassesKnown
  BY DEF RInit, NoPass, PassesKnown, PassKnown
<1>. QED BY <1>1, <1>2, <1>3, <1>4

(* With reconcilers that delete and start workflows (workflow/filing.go,    *)
(* cmd/opsctl) and with restored backups the provider is still used only as *)
(* its ledger lets itself be used (authority/server.go, handleSubmit).      *)
THEOREM ReconciliationUsesProvider == RSpec => ProviderSpec
<1>1. RInit => ProviderInit
  BY DEF RInit, Init
<1>2. /\ RInv /\ ScenariosKnown /\ FilingsKnown /\ PassesKnown /\ BackupKnown
      /\ [RNext]_rvars
      => /\ ScenariosKnown' /\ FilingsKnown' /\ PassesKnown' /\ BackupKnown'
         /\ LedgerStep
  BY RNextKnown
<1>. QED BY RInitKnown, <1>1, <1>2, ReconciliationInvariance, PTL
        DEF RSpec, ProviderSpec, LedgerStep

(* Only a deletion gives a workflow its work back: a start after it leads   *)
(* away from the missing row, and a restored backup is a loss.              *)
LEMMA PassDown ==
  ASSUME RInv, NotBegun, NEW r \in Reconcilers, Pass(r), deletes' = deletes
  PROVE  NotBegun' /\ \A f \in Filings : RunsDown(f)
<1>1. /\ wf \in [Filings -> Runs] /\ deletes \in Nat
  <2>1. wf \in [Filings -> Runs] /\ deletes \in 0..MaxDeletes
    BY DEF RInv, IInv, TypeOK, PassesTypeOK
  <2>. QED BY <2>1, ReconciliationAssumption
<1>2. ~DeleteWorkflow(r)
  BY <1>1 DEF DeleteWorkflow
<1>3. UNCHANGED <<running, call>>
  BY <1>2 DEF Pass, FetchDueRecords, LookAt, AskProvider, RecordOutcome, StartWorkflow,
     PassEnds, RecordAgain, vars, runtimeVars
<1>4. NotBegun'
  BY <1>3 DEF NotBegun, Idle
<1>5. CASE UNCHANGED wf
  BY <1>3, <1>4, <1>5, SameWork
<1>6. CASE ~UNCHANGED wf
  <2>1. StartWorkflow(r)
    BY <1>2, <1>6 DEF Pass, FetchDueRecords, LookAt, AskProvider, RecordOutcome,
       PassEnds, RecordAgain, vars, runtimeVars
  <2>2. PICK g \in Filings : g = Filing(r)
    BY <2>1, RowFacts DEF StartWorkflow, Stages
  <2>3. PICK run : run = [NoRun EXCEPT !.status = "ENQUEUED",
                                       !.scenario = passes[r].row.scenario]
    OBVIOUS
  <2>4. run.status = "ENQUEUED"
    BY <2>3 DEF NoRun
  <2>5. /\ wf[g].status = "absent" /\ wf' = [wf EXCEPT ![g] = run]
        /\ UNCHANGED <<losses, resumes>>
    BY <1>6, <2>1, <2>2, <2>3 DEF StartWorkflow, operatorVars
  <2>6. wf'[g] = run /\ \A f \in Filings : f # g => wf'[f] = wf[f]
    BY <1>1, <2>5
  <2>7. RowRank(wf'[g].status) < RowRank(wf[g].status)
    BY <2>4, <2>5, <2>6 DEF RowRank
  <2>8. RunsDown(g)
    BY <2>5, <2>7, RowDown
  <2>. QED BY <1>3, <1>4, <2>6, <2>8, SameWork
<1>. QED BY <1>5, <1>6

LEMMA DeletionsIdle ==
  ASSUME RInv, NotBegun, NEW r \in Reconcilers, DeleteWorkflow(r)
  PROVE  NotBegun'
<1>1. call' = [call EXCEPT ![Filing(r)] = Idle] /\ DOMAIN call = Filings
  BY DEF DeleteWorkflow, RInv, IInv, TypeOK
<1>2. \A f \in Filings : call'[f] = call[f] \/ call'[f] = Idle
  BY <1>1
<1>. QED BY <1>2 DEF NotBegun, Idle

LEMMA RNextDown ==
  ASSUME RInv, RInv', NotBegun, [RNext]_rvars
  PROVE  NotBegun' /\ (deletes' = deletes => \A f \in Filings : RunsDown(f))
<1>1. CASE FilingStep
  <2>1. IInv /\ IInv' /\ [Next]_vars
    BY <1>1 DEF FilingStep, RInv
  <2>. QED BY <2>1, NotBegunStep, NextRunsDown
<1>2. ASSUME NEW r \in Reconcilers, Pass(r)
      PROVE  NotBegun' /\ (deletes' = deletes => \A f \in Filings : RunsDown(f))
  <2>1. CASE deletes' = deletes
    BY <1>2, <2>1, PassDown
  <2>2. CASE deletes' # deletes
    <3>1. DeleteWorkflow(r)
      BY <1>2, <2>2 DEF Pass, FetchDueRecords, LookAt, AskProvider, RecordOutcome,
         StartWorkflow, PassEnds, RecordAgain, reconciliationVars
    <3>. QED BY <2>2, <3>1, DeletionsIdle
  <2>. QED BY <2>1, <2>2
<1>3. CASE RestoreBackup
  <2>1. /\ losses' = losses + 1 /\ losses \in Nat
        /\ \A f \in Filings : call'[f] = Idle
    BY <1>3 DEF RestoreBackup, RInv, IInv, TypeOK
  <2>2. losses' > losses
    BY <2>1
  <2>3. NotBegun'
    BY <2>1 DEF NotBegun, Idle
  <2>4. IInv /\ IInv'
    BY DEF RInv
  <2>. QED BY <2>2, <2>3, <2>4, LossDown
<1>4. CASE TakeBackup \/ UNCHANGED rvars
  <2>1. UNCHANGED <<wf, running, call>>
    BY <1>4 DEF TakeBackup, vars, rvars
  <2>2. NotBegun'
    BY <2>1 DEF NotBegun, Idle
  <2>. QED BY <2>1, <2>2, SameWork
<1>. QED BY <1>1, <1>2, <1>3, <1>4 DEF RNext

(* Beside reconcilers, too (workflow/filing.go, cmd/opsctl reconcile), only *)
(* the deletion of a failed workflow gives a filing work anew: between two  *)
(* deletions everything that happens to it leaves less to do.               *)
THEOREM OnlyDeletionsRenewWork ==
  RSpec => [][deletes' = deletes => \A f \in Filings : RunsDown(f)]_rvars
<1>1. RInit => NotBegun
  BY DEF RInit, Init, NotBegun
<1>2. RInv /\ RInv' /\ NotBegun /\ [RNext]_rvars
        => NotBegun' /\ [deletes' = deletes => \A f \in Filings : RunsDown(f)]_rvars
  BY RNextDown
<1>. QED BY <1>1, <1>2, ReconciliationInvariance, PTL DEF RSpec
-----------------------------------------------------------------------------
(* A refusal means that somebody has settled the filing: what the provider  *)
(* has decided was prepared before, and a prepared filing is not put back   *)
(* to ready.                                                                *)

LEMMA RefusedSettled ==
  ASSUME RInv, StateExplainedByCommands, IntentLoggedFirst
  PROVE  RefusedOnlyWhenSettled
<1>1. SUFFICES ASSUME NEW r \in Reconcilers, At(r, "record"),
                      NEW req, req = RecordRequest(r), Refused(req),
                      NEW f \in Filings, f = Filing(r)
               PROVE  filings[f].state \in FinalStates
  BY RowFacts DEF RefusedOnlyWhenSettled, Stages
<1>2. req \in Requests /\ ~Applies(req)
  BY <1>1, RecordTrue DEF Refused
<1>3. /\ req.filing = f /\ req.key = OutcomeCommandKey(WorkflowID(f))
      /\ req.type \in {"MarkFilingAccepted", "MarkFilingRejected"}
  <2>1. PICK outcome \in FinalStates : outcome = passes[r].outcome
    BY <1>1 DEF RInv, PassesTypeOK
  <2>2. req = OutcomeRequest(f, outcome, ReconcilerDetail(r))
    BY <1>1, <2>1 DEF RecordRequest
  <2>. QED BY <2>1, <2>2 DEF OutcomeRequest, FinalStates
<1>4. IInv /\ AccountableTypeOK
  BY DEF RInv, IInv, TypeOK
<1>5. filings[f].state \notin {"absent", "ready"}
  <2>1. ledger[ProviderOperationID(f)].status \in FinalStates
    BY <1>1 DEF RInv, PassCarried, PassesTypeOK
  <2>2. Prepared(f)
    BY <1>4, <2>1 DEF IInv, IntentBeforeEffect, Known, Prepared, FinalStates
  <2>. QED BY <1>4, <2>2, IInvWorld, DomainAssumption DEF WorldTrue, Prepared, OperationIDs
<1>6. CASE Logged(f, OutcomeCommandKey(WorkflowID(f)))
  BY <1>4, <1>5, <1>6, LoggedStateCases DEF StateExplainedByCommands
<1>7. CASE ~Logged(f, OutcomeCommandKey(WorkflowID(f)))
  <2>1. ~CommandAllowsState(req.type, filings[f].state)
    BY <1>2, <1>3, <1>7 DEF Applies, Logged
  <2>2. filings[f].state \in FilingStates \cup {"absent"}
    BY <1>4 DEF AccountableTypeOK, Rows
  <2>. QED BY <1>3, <1>5, <2>1, <2>2 DEF CommandAllowsState, FilingStates
<1>. QED BY <1>6, <1>7

(* The command of a reconciler is refused, and fails its whole pass         *)
(* (workflow/filing.go:392, cmd/opsctl), only over a filing that has been   *)
(* finalised since it was listed.                                           *)
THEOREM RefusalsAreSettled == RSpec => []RefusedOnlyWhenSettled
<1>1. RInv /\ StateExplainedByCommands /\ IntentLoggedFirst => RefusedOnlyWhenSettled
  BY RefusedSettled
<1>. QED BY <1>1, ReconciliationInvariance, ReconciliationUsesBooks, BooksMatchLog,
        IntentComesFirst, PTL

-----------------------------------------------------------------------------
(* A workflow that ended in SUCCESS tells what the books say, with          *)
(* reconcilers and restored backups at work.  The argument: an answer "ok"  *)
(* to the outcome command means that the books are there by now, whether    *)
(* the command took effect or was replayed (what the log holds is what the  *)
(* books say), and the contract takes no outcome back.                      *)

(* The books of f are where a run with this outcome has taken them, or have *)
(* gone further since.                                                      *)
BookedAs(f, outcome) ==
  IF outcome \in FinalStates
    THEN filings[f].state = outcome
    ELSE filings[f].state \in FinalStates \cup
           (IF outcome = "already_final" THEN {} ELSE {"needs_review"})

(* What a checkpointed run tells. *)
RunTold(f, run) ==
  /\ run.pc \in {"return", "reconcileFinal"} => BookedAs(f, run.outcome)
  /\ run.pc # "return" => run.outcome # "already_final"
  /\ run.status = "SUCCESS" => run.pc = "return"

(* What the final reconciliation has read is what the run recorded, or its  *)
(* review is over.                                                          *)
ReadBooked(f, outcome, state) ==
  state # mapOutcome(outcome)
    => mapOutcome(outcome) = "needs_review" /\ filings[f].state \in FinalStates

AnswerBooked(f) ==
  /\ Answered(f, {"validate"}, FinalStates) => filings[f].state \in FinalStates
  /\ Answered(f, {"record", "recordFinal"}, {"ok"}) => BookedAs(f, wf[f].outcome)
  /\ Answered(f, {"reconcileFinal"}, FilingStates)
       => ReadBooked(f, wf[f].outcome, call[f].answer)

(* The inductive strengthening of SuccessMatchesBooks. *)
Told ==
  \A f \in Filings :
    /\ running[f] => wf[f].status # "SUCCESS"
    /\ RunTold(f, wf[f])
    /\ AnswerBooked(f)

(* The runtime of f keeps what it knew, or what it learns is booked. *)
ToldKept(f) ==
  /\ running'[f] => wf'[f].status # "SUCCESS"
  /\ RunTold(f, wf'[f])
  /\ \/ call'[f].phase # "answered"
     \/ /\ call'[f] = call[f]
        /\ wf'[f].pc = wf[f].pc /\ wf'[f].outcome = wf[f].outcome
     \/ AnswerBooked(f)'

LEMMA BookedStays ==
  ASSUME IInv, ContractStep, NEW f \in Filings, NEW outcome, BookedAs(f, outcome)
  PROVE  /\ BookedAs(f, outcome)'
         /\ filings[f].state \in FinalStates => filings'[f].state \in FinalStates
<1>1. ContractForward(f)
  BY ContractMovesForward DEF IInv, TypeOK
<1>2. /\ filings[f].state \in FinalStates => filings'[f].state = filings[f].state
      /\ filings[f].state = "needs_review"
           => filings'[f].state \in FinalStates \cup {"needs_review"}
  BY <1>1 DEF ContractForward, Book
<1>. QED BY <1>2 DEF BookedAs

LEMMA FinalStays ==
  ASSUME IInv, ContractStep, NEW f \in Filings, filings[f].state \in FinalStates
  PROVE  filings'[f].state \in FinalStates
<1>1. ContractForward(f)
  BY ContractMovesForward DEF IInv, TypeOK
<1>. QED BY <1>1 DEF ContractForward, Book

LEMMA RunStaysTold ==
  ASSUME IInv, ContractStep, NEW f \in Filings, NEW run, RunTold(f, run)
  PROVE  RunTold(f, run)'
<1>1. run.pc \in {"return", "reconcileFinal"} => BookedAs(f, run.outcome)'
  BY BookedStays DEF RunTold
<1>. QED BY <1>1 DEF RunTold

LEMMA ToldFrame ==
  ASSUME IInv, Told, ContractStep, \A f \in Filings : ToldKept(f)
  PROVE  Told'
<1>1. SUFFICES ASSUME NEW f \in Filings
               PROVE  /\ running'[f] => wf'[f].status # "SUCCESS"
                      /\ RunTold(f, wf[f])'
                      /\ AnswerBooked(f)'
  BY DEF Told
<1>2. running'[f] => wf'[f].status # "SUCCESS"
  BY DEF ToldKept
<1>3. RunTold(f, wf[f])'
  <2>1. PICK run : run = wf'[f]
    OBVIOUS
  <2>2. RunTold(f, run)
    BY <2>1 DEF ToldKept, RunTold
  <2>3. RunTold(f, run)'
    BY <2>2, RunStaysTold
  <2>. QED BY <2>1, <2>3 DEF RunTold
<1>4. AnswerBooked(f)'
  <2>1. CASE call'[f].phase # "answered"
    BY <2>1 DEF AnswerBooked, Answered
  <2>2. CASE call'[f] = call[f] /\ wf'[f].pc = wf[f].pc /\ wf'[f].outcome = wf[f].outcome
    <3>1. PICK outcome, state : outcome = wf[f].outcome /\ state = call[f].answer
      OBVIOUS
    <3>2. /\ Answered(f, {"validate"}, FinalStates) => filings[f].state \in FinalStates
          /\ Answered(f, {"record", "recordFinal"}, {"ok"}) => BookedAs(f, outcome)
          /\ Answered(f, {"reconcileFinal"}, FilingStates) => ReadBooked(f, outcome, state)
      BY <3>1 DEF Told, AnswerBooked
    <3>3. /\ Answered(f, {"validate"}, FinalStates) => filings'[f].state \in FinalStates
          /\ Answered(f, {"record", "recordFinal"}, {"ok"}) => BookedAs(f, outcome)'
      BY <3>2, BookedStays, FinalStays
    <3>4. Answered(f, {"reconcileFinal"}, FilingStates) => ReadBooked(f, outcome, state)'
      BY <3>2, FinalStays DEF ReadBooked
    <3>5. \A pcs, answers : Answered(f, pcs, answers)' => Answered(f, pcs, answers)
      BY <2>2 DEF Answered
    <3>6. /\ Answered(f, {"validate"}, FinalStates)' => filings'[f].state \in FinalStates
          /\ Answered(f, {"record", "recordFinal"}, {"ok"})' => BookedAs(f, wf[f].outcome)'
      BY <2>2, <3>1, <3>3, <3>5 DEF BookedAs
    <3>7. Answered(f, {"reconcileFinal"}, FilingStates)'
            => ReadBooked(f, wf[f].outcome, call[f].answer)'
      BY <2>2, <3>1, <3>4, <3>5 DEF ReadBooked
    <3>. QED BY <3>6, <3>7 DEF AnswerBooked
  <2>. QED BY <2>1, <2>2 DEF ToldKept
<1>. QED BY <1>2, <1>3, <1>4

(* Nothing that the runtime keeps about f has changed. *)
LEMMA SameKept ==
  ASSUME Told, NEW f \in Filings, running'[f] => running[f],
         wf'[f] = wf[f], call'[f] = call[f] \/ call'[f].phase # "answered"
  PROVE  ToldKept(f)
BY DEF Told, ToldKept

-----------------------------------------------------------------------------
(* Checkpoints. *)

LEMMA CheckpointKept ==
  ASSUME IInv, Told, NEW f \in Filings, NEW run, Checkpoint(f, run), running[f],
         run.status = wf[f].status, RunTold(f, run)
  PROVE  \A g \in Filings : ToldKept(g)
<1>1. /\ wf'[f] = run /\ call'[f] = Idle
      /\ running' = running
      /\ \A g \in Filings : g # f => wf'[g] = wf[g] /\ call'[g] = call[g]
  BY DEF IInv, TypeOK, Checkpoint
<1>2. Idle.phase # "answered"
  BY DEF Idle
<1>3. ToldKept(f)
  BY <1>1, <1>2 DEF ToldKept, Told
<1>4. \A g \in Filings : g # f => ToldKept(g)
  BY <1>1, SameKept
<1>. QED BY <1>3, <1>4

(* A run that goes on, before its outcome is recorded. *)
Onward(f, run) ==
  /\ run.status = wf[f].status
  /\ run.pc \notin {"return", "reconcileFinal"}
  /\ run.outcome # "already_final"

LEMMA OnwardKept ==
  ASSUME IInv, Told, NEW f \in Filings, NEW run, Checkpoint(f, run), running[f],
         Onward(f, run)
  PROVE  \A g \in Filings : ToldKept(g)
<1>1. wf[f].status # "SUCCESS"
  BY DEF Told
<1>2. RunTold(f, run)
  BY <1>1 DEF RunTold, Onward
<1>. QED BY <1>2, CheckpointKept DEF Onward

LEMMA OnwardGoTo ==
  ASSUME IInv, Told, NEW f \in Filings, wf[f].pc # "return",
         NEW pc \in Pcs \ {"return", "reconcileFinal"}, NEW run, run = GoTo(f, pc)
  PROVE  Onward(f, run)
<1>1. wf[f].outcome # "already_final"
  BY DEF Told, RunTold
<1>2. run.status = wf[f].status /\ run.pc = pc /\ run.outcome = wf[f].outcome
  BY GoToType DEF IInv
<1>. QED BY <1>1, <1>2 DEF Onward

LEMMA OnwardOutcome ==
  ASSUME IInv, NEW f \in Filings,
         NEW pc \in Pcs \ {"return", "reconcileFinal"},
         NEW o \in FinalStates \cup {"needs_review"} \cup OperatorOutcomes,
         NEW d \in WorkflowDetails, NEW run, run = Outcome(f, pc, o, d)
  PROVE  Onward(f, run)
<1>1. o # "already_final" /\ o \in Outcomes
  BY OperatorAssumption DEF FinalStates, Outcomes
<1>2. run.status = wf[f].status /\ run.pc = pc /\ run.outcome = o
  BY <1>1, OutcomeType DEF IInv
<1>. QED BY <1>1, <1>2 DEF Onward

LEMMA KeptGoTo ==
  ASSUME IInv, Told, NEW f \in Filings, wf[f].pc # "return", running[f],
         NEW pc \in Pcs \ {"return", "reconcileFinal"}, Checkpoint(f, GoTo(f, pc))
  PROVE  \A g \in Filings : ToldKept(g)
<1>1. PICK run : run = GoTo(f, pc)
  OBVIOUS
<1>. QED BY <1>1, OnwardGoTo, OnwardKept

LEMMA KeptSnap ==
  ASSUME IInv, Told, NEW f \in Filings, wf[f].pc # "return", running[f],
         NEW pc \in Pcs \ {"return", "reconcileFinal"}, NEW s,
         Checkpoint(f, [GoTo(f, pc) EXCEPT !.snap = s])
  PROVE  \A g \in Filings : ToldKept(g)
<1>1. PICK run : run = GoTo(f, pc)
  OBVIOUS
<1>2. Onward(f, run) /\ run \in Runs
  BY <1>1, OnwardGoTo, GoToType DEF IInv
<1>3. PICK snapped : snapped = [run EXCEPT !.snap = s]
  OBVIOUS
<1>4. /\ snapped.status = run.status /\ snapped.pc = run.pc
      /\ snapped.outcome = run.outcome
  BY <1>2, <1>3 DEF Runs
<1>5. Onward(f, snapped)
  BY <1>2, <1>4 DEF Onward
<1>6. Checkpoint(f, snapped)
  BY <1>1, <1>3
<1>. QED BY <1>5, <1>6, OnwardKept

LEMMA KeptOutcome ==
  ASSUME IInv, Told, NEW f \in Filings, running[f],
         NEW pc \in Pcs \ {"return", "reconcileFinal"},
         NEW o \in FinalStates \cup {"needs_review"} \cup OperatorOutcomes,
         NEW d \in WorkflowDetails, Checkpoint(f, Outcome(f, pc, o, d))
  PROVE  \A g \in Filings : ToldKept(g)
<1>1. PICK run : run = Outcome(f, pc, o, d)
  OBVIOUS
<1>. QED BY <1>1, OnwardOutcome, OnwardKept

LEMMA KeptAccepted ==
  ASSUME IInv, Told, NEW f \in Filings, wf[f].pc # "return", running[f],
         Checkpoint(f, Accepted(f))
  PROVE  \A g \in Filings : ToldKept(g)
<1> DEFINE pc == IF wf[f].snap = "submitted" THEN "recv" ELSE "markSubmitted"
<1>1. pc \in Pcs \ {"return", "reconcileFinal"}
  BY PcFacts
<1>2. Checkpoint(f, GoTo(f, pc))
  BY DEF Accepted
<1>. HIDE DEF pc
<1>. QED BY <1>1, <1>2, KeptGoTo

(* Where the runs go on to, and with which details. *)
LEMMA OnwardFacts ==
  /\ {"prepare", "findExisting", "submit", "resolveAmbiguous", "resubmit", "recv",
      "pollStatus", "record", "recordFinal", "raise"}
       \subseteq Pcs \ {"return", "reconcileFinal"}
  /\ RejectionDetails \subseteq WorkflowDetails
  /\ {"adopted completed submission", "resolved after ambiguous submit",
      "submit retries exhausted", "via status poll",
      "no callback and authority still processing"} \subseteq WorkflowDetails
  /\ "rejected" \in FinalStates
BY DEF Pcs, Steps, ReadSteps, StatusSteps, PostSteps, CommandSteps, WorkflowDetails,
   FinalStates

LEMMA ValidateKept ==
  ASSUME IInv, Told, NEW f \in Filings, AfterValidate(f)
  PROVE  \A g \in Filings : ToldKept(g)
<1> DEFINE state == call[f].answer
<1>1. running[f] /\ wf[f].pc = "validate" /\ call[f].phase = "answered"
  BY DEF AfterValidate, Succeeded
<1>2. CASE state \in FinalStates
  <2>1. PICK run : run = Outcome(f, "return", "already_final", "")
    OBVIOUS
  <2>2. PICK pc \in Pcs, o \in Outcomes, d \in WorkflowDetails :
          pc = "return" /\ o = "already_final" /\ d = ""
    BY PcFacts DEF WorkflowDetails, RejectionDetails, Outcomes
  <2>3. run.status = wf[f].status /\ run.pc = "return" /\ run.outcome = "already_final"
    <3>1. run = Outcome(f, pc, o, d)
      BY <2>1, <2>2
    <3>2. run.status = wf[f].status /\ run.pc = pc /\ run.outcome = o
      BY <3>1, OutcomeType DEF IInv
    <3>. QED BY <2>2, <3>2
  <2>4. filings[f].state \in FinalStates
    BY <1>1, <1>2 DEF Told, AnswerBooked, Answered
  <2>5. "already_final" \notin FinalStates
    BY DEF FinalStates
  <2>6. RunTold(f, run)
    BY <2>3, <2>4, <2>5 DEF RunTold, BookedAs
  <2>7. Checkpoint(f, run)
    BY <1>2, <2>1 DEF AfterValidate, FinalStates
  <2>. QED BY <1>1, <2>3, <2>6, <2>7, CheckpointKept
<1>3. CASE state = "ready"
  <2>1. Checkpoint(f, [GoTo(f, "prepare") EXCEPT !.snap = state])
    BY <1>3 DEF AfterValidate, FinalStates
  <2>. QED BY <1>1, <2>1, OnwardFacts, KeptSnap
<1>4. CASE state \notin FinalStates \cup {"ready"}
  <2>1. Checkpoint(f, [GoTo(f, "findExisting") EXCEPT !.snap = state])
    BY <1>4 DEF AfterValidate, FinalStates
  <2>. QED BY <1>1, <2>1, OnwardFacts, KeptSnap
<1>. QED BY <1>2, <1>3, <1>4

LEMMA LookupsKept ==
  ASSUME IInv, Told, NEW f \in Filings,
         AfterPrepare(f) \/ AfterFindExisting(f) \/ AfterResolveAmbiguous(f)
  PROVE  \A g \in Filings : ToldKept(g)
<1> DEFINE status == call[f].answer
<1>1. running[f] /\ wf[f].pc # "return"
  BY DEF AfterPrepare, AfterFindExisting, AfterResolveAmbiguous, Succeeded
<1>2. CASE AfterPrepare(f)
  BY <1>1, <1>2, OnwardFacts, KeptSnap DEF AfterPrepare
<1>3. CASE AfterFindExisting(f) /\ status \in FinalStates
  <2>1. Checkpoint(f, Outcome(f, "record", status, "adopted completed submission"))
    BY <1>3 DEF AfterFindExisting, FinalStates
  <2>. QED BY <1>1, <1>3, <2>1, OnwardFacts, KeptOutcome
<1>4. CASE AfterFindExisting(f) /\ status = "processing"
  <2>1. Checkpoint(f, Accepted(f))
    BY <1>4 DEF AfterFindExisting, FinalStates
  <2>. QED BY <1>1, <2>1, KeptAccepted
<1>5. CASE AfterFindExisting(f) /\ status \notin FinalStates \cup {"processing"}
  <2>1. Checkpoint(f, GoTo(f, "submit"))
    BY <1>5 DEF AfterFindExisting, FinalStates
  <2>. QED BY <1>1, <2>1, OnwardFacts, KeptGoTo
<1>6. CASE AfterResolveAmbiguous(f) /\ status \in FinalStates
  <2>1. Checkpoint(f, Outcome(f, "record", status, "resolved after ambiguous submit"))
    BY <1>6 DEF AfterResolveAmbiguous, FinalStates
  <2>. QED BY <1>1, <1>6, <2>1, OnwardFacts, KeptOutcome
<1>7. CASE AfterResolveAmbiguous(f) /\ status = "not_found"
  <2>1. Checkpoint(f, GoTo(f, "resubmit"))
    BY <1>7 DEF AfterResolveAmbiguous, FinalStates
  <2>. QED BY <1>1, <2>1, OnwardFacts, KeptGoTo
<1>8. CASE AfterResolveAmbiguous(f) /\ status \notin FinalStates \cup {"not_found"}
  <2>1. Checkpoint(f, Accepted(f))
    BY <1>8 DEF AfterResolveAmbiguous, FinalStates
  <2>. QED BY <1>1, <2>1, KeptAccepted
<1>. QED BY <1>2, <1>3, <1>4, <1>5, <1>6, <1>7, <1>8

LEMMA SubmissionsKept ==
  ASSUME IInv, Told, NEW f \in Filings, AfterSubmit(f) \/ AfterResubmit(f)
  PROVE  \A g \in Filings : ToldKept(g)
<1> DEFINE result == call[f].answer
<1>1. running[f] /\ wf[f].pc # "return"
  BY DEF AfterSubmit, AfterResubmit, Succeeded
<1>2. CASE result = "rejected"
  <2>1. PICK detail \in RejectionDetails :
          Checkpoint(f, Outcome(f, "record", "rejected", detail))
    BY <1>2 DEF AfterSubmit, AfterResubmit
  <2>. QED BY <1>1, <2>1, OnwardFacts, KeptOutcome
<1>3. CASE AfterSubmit(f) /\ result = "ambiguous"
  <2>1. Checkpoint(f, GoTo(f, "resolveAmbiguous"))
    BY <1>3 DEF AfterSubmit
  <2>. QED BY <1>1, <2>1, OnwardFacts, KeptGoTo
<1>4. CASE \/ AfterSubmit(f) /\ result \notin {"ambiguous", "rejected"}
           \/ AfterResubmit(f) /\ result # "rejected"
  <2>1. Checkpoint(f, Accepted(f))
    BY <1>4 DEF AfterSubmit, AfterResubmit
  <2>. QED BY <1>1, <2>1, KeptAccepted
<1>. QED BY <1>2, <1>3, <1>4

LEMMA WaitingKept ==
  ASSUME IInv, Told, NEW f \in Filings,
         AfterMarkSubmitted(f) \/ Recv(f) \/ RecvTimeout(f) \/ AfterPollStatus(f)
  PROVE  \A g \in Filings : ToldKept(g)
<1>1. running[f] /\ wf[f].pc # "return"
  BY DEF AfterMarkSubmitted, Recv, RecvTimeout, AfterPollStatus, Succeeded, Active
<1>2. CASE AfterMarkSubmitted(f)
  BY <1>1, <1>2, OnwardFacts, KeptGoTo DEF AfterMarkSubmitted
<1>3. CASE RecvTimeout(f)
  BY <1>1, <1>3, OnwardFacts, KeptGoTo DEF RecvTimeout
<1>4. CASE Recv(f)
  <2>1. mailbox[f] \in Messages
    BY <1>4 DEF Recv, IInv, TypeOK
  <2>2. /\ mailbox[f].outcome \in FinalStates \cup {"needs_review"} \cup OperatorOutcomes
        /\ mailbox[f].detail \in WorkflowDetails
    BY <2>1 DEF Messages, FinalStates, WorkflowDetails
  <2>3. Checkpoint(f, Outcome(f, "recordFinal", mailbox[f].outcome, mailbox[f].detail))
    BY <1>4 DEF Recv
  <2>. QED BY <1>1, <2>2, <2>3, OnwardFacts, KeptOutcome
<1>5. CASE AfterPollStatus(f)
  <2> DEFINE status == call[f].answer
             polled == [wf[f] EXCEPT !.polls = @ + 1, !.pc = "recv"]
  <2>1. CASE status \in FinalStates
    <3>1. Checkpoint(f, Outcome(f, "recordFinal", status, "via status poll"))
      BY <1>5, <2>1 DEF AfterPollStatus
    <3>. QED BY <1>1, <2>1, <3>1, OnwardFacts, KeptOutcome
  <2>2. CASE status \notin FinalStates /\ polled.polls < StatusPolls
    <3>1. Checkpoint(f, polled)
      BY <1>5, <2>2 DEF AfterPollStatus
    <3>2. polled.status = wf[f].status /\ polled.pc = "recv" /\ polled.outcome = wf[f].outcome
      BY DEF IInv, TypeOK, Runs
    <3>3. wf[f].outcome # "already_final"
      BY <1>1 DEF Told, RunTold
    <3>. HIDE DEF polled
    <3>4. Onward(f, polled)
      BY <3>2, <3>3 DEF Onward
    <3>. QED BY <1>1, <3>1, <3>4, OnwardKept
  <2>3. CASE status \notin FinalStates /\ ~(polled.polls < StatusPolls)
    <3>1. Checkpoint(f, Outcome(f, "recordFinal", "needs_review",
                                "no callback and authority still processing"))
      BY <1>5, <2>3 DEF AfterPollStatus
    <3>. QED BY <1>1, <3>1, OnwardFacts, KeptOutcome
  <2>. QED BY <2>1, <2>2, <2>3
<1>. QED BY <1>2, <1>3, <1>4, <1>5

LEMMA FailKept ==
  ASSUME IInv, Told, NEW f \in Filings, FailStep(f)
  PROVE  \A g \in Filings : ToldKept(g)
<1>1. running[f] /\ call[f].phase = "answered"
  BY DEF FailStep, Failed
<1>2. wf[f].pc # "return"
  BY <1>1 DEF IInv, CallsFit, Steps, ReadSteps, StatusSteps, PostSteps, CommandSteps
<1>3. CASE wf[f].pc = "submit"
  <2>1. Checkpoint(f, Outcome(f, "record", "needs_review", "submit retries exhausted"))
    BY <1>3 DEF FailStep
  <2>. QED BY <1>1, <2>1, OnwardFacts, KeptOutcome
<1>4. CASE wf[f].pc # "submit"
  <2>1. Checkpoint(f, GoTo(f, "raise"))
    BY <1>4 DEF FailStep
  <2>. QED BY <1>1, <1>2, <2>1, OnwardFacts, KeptGoTo
<1>. QED BY <1>3, <1>4

(* The outcome is booked, so the run may return. *)
LEMMA BookedKept ==
  ASSUME IInv, Told, NEW f \in Filings, running[f], wf[f].pc # "return",
         NEW pc \in {"return", "reconcileFinal", "raise"}, Checkpoint(f, GoTo(f, pc)),
         BookedAs(f, wf[f].outcome)
  PROVE  \A g \in Filings : ToldKept(g)
<1>1. PICK run : run = GoTo(f, pc)
  OBVIOUS
<1>2. pc \in Pcs
  BY PcFacts
<1>3. run.status = wf[f].status /\ run.pc = pc /\ run.outcome = wf[f].outcome
  BY <1>1, <1>2, GoToType DEF IInv
<1>4. wf[f].status # "SUCCESS" /\ wf[f].outcome # "already_final"
  BY DEF Told, RunTold
<1>5. RunTold(f, run)
  BY <1>3, <1>4 DEF RunTold
<1>. QED BY <1>1, <1>3, <1>5, CheckpointKept

LEMMA EndingsKept ==
  ASSUME IInv, Told, NEW f \in Filings, AfterRecordOutcome(f) \/ AfterReconcileFinal(f)
  PROVE  \A g \in Filings : ToldKept(g)
<1>1. CASE AfterRecordOutcome(f)
  <2>1. PICK pc \in {"return", "reconcileFinal"} : Checkpoint(f, GoTo(f, pc))
    BY <1>1 DEF AfterRecordOutcome
  <2>2. /\ running[f] /\ wf[f].pc \in {"record", "recordFinal"}
        /\ call[f].phase = "answered" /\ call[f].answer \notin {"error", "retryable"}
    BY <1>1 DEF AfterRecordOutcome, Succeeded
  <2>3. call[f].answer = "ok"
    <3>1. call[f].answer \in AnswersTo(wf[f].pc)
      BY <2>2 DEF IInv, CallsFit
    <3>2. AnswersTo("record") = {"ok", "error"} /\ AnswersTo("recordFinal") = {"ok", "error"}
      BY DEF AnswersTo, ReadSteps, StatusSteps, PostSteps, CommandSteps
    <3>. QED BY <2>2, <3>1, <3>2
  <2>4. BookedAs(f, wf[f].outcome)
    BY <2>2, <2>3 DEF Told, AnswerBooked, Answered
  <2>. QED BY <2>1, <2>2, <2>4, BookedKept
<1>2. CASE AfterReconcileFinal(f)
  <2>1. PICK pc \in {"return", "raise"} : Checkpoint(f, GoTo(f, pc))
    BY <1>2 DEF AfterReconcileFinal
  <2>2. running[f] /\ wf[f].pc = "reconcileFinal"
    BY <1>2 DEF AfterReconcileFinal, Succeeded
  <2>3. BookedAs(f, wf[f].outcome)
    BY <2>2 DEF Told, RunTold
  <2>. QED BY <2>1, <2>2, <2>3, BookedKept
<1>. QED BY <1>1, <1>2

-----------------------------------------------------------------------------
(* Answers. *)

(* Only the call of f moves, and if it is answered then with what is booked. *)
LEMMA CallKept ==
  ASSUME Told, NEW f \in Filings, UNCHANGED <<wf, running>>,
         \A g \in Filings : g # f => call'[g] = call[g],
         call'[f].phase # "answered" \/ AnswerBooked(f)'
  PROVE  \A g \in Filings : ToldKept(g)
<1>1. SUFFICES ASSUME NEW g \in Filings
               PROVE  ToldKept(g)
  OBVIOUS
<1>2. /\ running'[g] => wf'[g].status # "SUCCESS"
      /\ wf'[g] = wf[g]
  BY DEF Told
<1>3. RunTold(g, wf'[g])
  <2>1. PICK run : run = wf[g]
    OBVIOUS
  <2>2. RunTold(g, run)
    BY <2>1 DEF Told, RunTold
  <2>. QED BY <1>2, <2>1, <2>2 DEF RunTold
<1>. QED BY <1>2, <1>3 DEF ToldKept

LEMMA QuietCallKept ==
  ASSUME IInv, Told, NEW f \in Filings, Send(f) \/ RetryStep(f)
  PROVE  \A g \in Filings : ToldKept(g)
<1>1. UNCHANGED <<wf, running>>
  BY DEF Send, RetryStep
<1>2. PICK c : call' = [call EXCEPT ![f] = c] /\ c.phase = "sent"
  <2>1. CASE Send(f)
    <3>1. PICK c : c = [call[f] EXCEPT !.phase = "sent"]
      OBVIOUS
    <3>2. call[f] \in Calls
      BY DEF IInv, TypeOK
    <3>3. c.phase = "sent"
      BY <3>1, <3>2 DEF Calls
    <3>4. call' = [call EXCEPT ![f] = c]
      BY <2>1, <3>1 DEF Send
    <3>. QED BY <3>3, <3>4
  <2>2. CASE RetryStep(f)
    <3>1. PICK c : c = [phase |-> "sent", answer |-> "", tries |-> call[f].tries + 1]
      OBVIOUS
    <3>2. call' = [call EXCEPT ![f] = c] /\ c.phase = "sent"
      BY <2>2, <3>1 DEF RetryStep
    <3>. QED BY <3>2
  <2>. QED BY <2>1, <2>2
<1>3. /\ call'[f].phase # "answered"
      /\ \A g \in Filings : g # f => call'[g] = call[g]
  BY <1>2 DEF IInv, TypeOK
<1>4. call'[f].phase # "answered" \/ AnswerBooked(f)'
  BY <1>3
<1>. QED BY <1>1, <1>3, <1>4, CallKept

(* An answer that says nothing about what is booked. *)
LEMMA PlainAnswerKept ==
  ASSUME IInv, Told, NEW f \in Filings, NEW a,
         UNCHANGED <<wf, running>>,
         call' = [call EXCEPT ![f].phase = "answered", ![f].answer = a],
         wf[f].pc \notin {"validate"} \/ a \notin FinalStates,
         wf[f].pc \notin {"record", "recordFinal"} \/ a # "ok",
         wf[f].pc # "reconcileFinal" \/ a \notin FilingStates
  PROVE  \A g \in Filings : ToldKept(g)
<1>1. /\ call'[f].answer = a
      /\ \A g \in Filings : g # f => call'[g] = call[g]
  BY DEF IInv, TypeOK, Calls
<1>2. AnswerBooked(f)'
  BY <1>1 DEF AnswerBooked, Answered
<1>. QED BY <1>1, <1>2, CallKept

LEMMA RepliesKept ==
  ASSUME IInv, Told, NEW f \in Filings, HandleStatus(f) \/ HandleSubmit(f) \/ GiveUp(f)
  PROVE  \A g \in Filings : ToldKept(g)
<1>1. PICK a : /\ call' = [call EXCEPT ![f].phase = "answered", ![f].answer = a]
               /\ \/ wf[f].pc \in StatusSteps \cup PostSteps
                  \/ a = "error"
               /\ UNCHANGED <<wf, running>>
  BY DEF HandleStatus, HandleSubmit, GiveUp, Answer
<1>2. /\ wf[f].pc \notin {"validate"} \/ a \notin FinalStates
      /\ wf[f].pc \notin {"record", "recordFinal"} \/ a # "ok"
      /\ wf[f].pc # "reconcileFinal" \/ a \notin FilingStates
  BY <1>1 DEF StatusSteps, PostSteps, FinalStates, FilingStates
<1>. QED BY <1>1, <1>2, PlainAnswerKept

LEMMA ReadKept ==
  ASSUME IInv, Told, NEW f \in Filings, HandleGetFiling(f)
  PROVE  \A g \in Filings : ToldKept(g)
<1>1. PICK a : a = IF filings[f].state = "absent" THEN "error" ELSE filings[f].state
  OBVIOUS
<1>2. /\ call' = [call EXCEPT ![f].phase = "answered", ![f].answer = a]
      /\ UNCHANGED <<filings, wf, running>>
      /\ wf[f].pc \in ReadSteps
  BY <1>1 DEF HandleGetFiling, Answer, accountableVars
<1>3. /\ call'[f].answer = a
      /\ \A g \in Filings : g # f => call'[g] = call[g]
  BY <1>2 DEF IInv, TypeOK, Calls
<1>4. a \in FinalStates => filings[f].state \in FinalStates
  BY <1>1 DEF FinalStates
<1>5. ASSUME wf[f].pc = "reconcileFinal", a \in FilingStates
      PROVE  ReadBooked(f, wf[f].outcome, a)
  <2>1. PICK outcome : outcome = wf[f].outcome
    OBVIOUS
  <2>2. BookedAs(f, outcome) /\ outcome # "already_final"
    BY <1>5, <2>1 DEF Told, RunTold
  <2>3. filings[f].state = a
    BY <1>1, <1>5 DEF FilingStates, FinalStates
  <2>4. CASE outcome \in FinalStates
    <3>1. filings[f].state = outcome /\ mapOutcome(outcome) = outcome
      BY <2>2, <2>4 DEF BookedAs, mapOutcome
    <3>. QED BY <2>1, <2>3, <3>1 DEF ReadBooked
  <2>5. CASE outcome \notin FinalStates
    <3>1. a \in FinalStates \cup {"needs_review"} /\ mapOutcome(outcome) = "needs_review"
      BY <2>2, <2>3, <2>5 DEF BookedAs, mapOutcome
    <3>. QED BY <2>1, <2>3, <3>1 DEF ReadBooked, FinalStates
  <2>. QED BY <2>4, <2>5
<1>6. AnswerBooked(f)'
  BY <1>2, <1>3, <1>4, <1>5 DEF AnswerBooked, Answered, ReadSteps, ReadBooked
<1>. QED BY <1>2, <1>3, <1>6, CallKept

(* The answer "ok" to an outcome command is true, whether the command took  *)
(* effect now or had done so before.                                        *)
LEMMA RecordedIsBooked ==
  ASSUME IInv, Explained, NEW f \in Filings, wf[f].pc \in {"record", "recordFinal"},
         NEW outcome, outcome = wf[f].outcome, outcome # "already_final",
         ApplyCommand(Command(f))
  PROVE  BookedAs(f, outcome)'
<1>1. PICK state : state = mapOutcome(outcome)
  OBVIOUS
<1>2. /\ state \in FinalStates \cup {"needs_review"}
      /\ outcome \in FinalStates => state = outcome
      /\ outcome \notin FinalStates => state = "needs_review"
  BY <1>1 DEF mapOutcome
<1>3. PICK req : req = OutcomeRequest(f, state, wf[f].detail) /\ ApplyCommand(req)
  BY <1>1 DEF Command
<1>4. /\ req.filing = f /\ commandTransitions[req.type] = state
      /\ req.key = IF state = "needs_review" THEN ReviewCommandKey(WorkflowID(f))
                                             ELSE OutcomeCommandKey(WorkflowID(f))
  BY <1>2, <1>3 DEF OutcomeRequest, commandTransitions, FinalStates
<1>5. /\ filings'[f].state \in FinalStates \cup {"needs_review"}
      /\ state \in FinalStates => filings'[f].state = state
  <2>1. CASE TakeEffect(req)
    <3>1. filings'[f].state = state
      BY <1>4, <2>1 DEF TakeEffect, BookedRow, IInv, TypeOK, AccountableTypeOK
    <3>. QED BY <1>2, <3>1
  <2>2. CASE Replays(req) /\ UNCHANGED accountableVars
    <3>1. AccountableTypeOK /\ filings' = filings /\ commands[req.key] = req
      BY <2>2 DEF IInv, TypeOK, Replays, accountableVars
    <3>2. req # NoCommand
      <4>1. req \in Requests
        BY <1>3, CommandIsRequest, <1>1 DEF IInv, CommandSteps, Command
      <4>. QED BY <4>1, AccountableAssumption
    <3>3. Logged(f, req.key)
      BY <3>1, <3>2 DEF Logged
    <3>4. Prepared(f)
      <4>1. Logged(f, SubmissionIntentCommandKey(WorkflowID(f)))
        BY <1>4, <3>3 DEF Explained, IntentLoggedFirst
      <4>. QED BY <4>1 DEF IInv, IntentCarried, KnownPrepared
    <3>5. filings[f].state \notin {"absent", "ready"}
      BY <3>4, IInvWorld, DomainAssumption DEF WorldTrue, Prepared, OperationIDs
    <3>6. filings[f].state = LoggedState(f)
      BY <3>5 DEF Explained, StateExplainedByCommands
    <3>7. CASE state \in FinalStates
      <4>1. req.key = OutcomeCommandKey(WorkflowID(f))
        BY <1>4, <3>7 DEF FinalStates
      <4>2. LoggedState(f) = commandTransitions[commands[req.key].type]
        BY <3>1, <3>3, <4>1, LoggedStateCases
      <4>. QED BY <1>4, <3>1, <3>6, <3>7, <4>2
    <3>8. CASE state = "needs_review"
      <4>1. LoggedState(f) \in FinalStates \cup {"needs_review"}
        BY <1>4, <3>1, <3>3, <3>8, LoggedStateCases
      <4>2. state \notin FinalStates
        BY <3>8 DEF FinalStates
      <4>. QED BY <3>1, <3>6, <4>1, <4>2
    <3>. QED BY <1>2, <3>7, <3>8
  <2>. QED BY <1>3, <2>1, <2>2 DEF ApplyCommand
<1>6. outcome \in FinalStates => filings'[f].state = outcome
  BY <1>2, <1>5
<1>. QED BY <1>5, <1>6 DEF BookedAs

LEMMA CommandKept ==
  ASSUME IInv, Told, Explained, NEW f \in Filings, HandleCommand(f)
  PROVE  \A g \in Filings : ToldKept(g)
<1>1. PICK a \in {"ok", "error"} :
        /\ a = "ok" => ApplyCommand(Command(f))
        /\ call' = [call EXCEPT ![f].phase = "answered", ![f].answer = a]
  BY DEF HandleCommand, Answer
<1>2. UNCHANGED <<wf, running>> /\ wf[f].pc \in CommandSteps
  BY DEF HandleCommand, Answer
<1>3. CASE a = "ok" /\ wf[f].pc \in {"record", "recordFinal"}
  <2>1. PICK outcome : outcome = wf[f].outcome
    OBVIOUS
  <2>2. outcome # "already_final"
    BY <1>3, <2>1 DEF Told, RunTold
  <2>3. BookedAs(f, outcome)'
    BY <1>1, <1>3, <2>1, <2>2, RecordedIsBooked
  <2>4. /\ call'[f].answer = "ok"
        /\ \A g \in Filings : g # f => call'[g] = call[g]
    BY <1>1, <1>3 DEF IInv, TypeOK, Calls
  <2>5. wf'[f].outcome = outcome /\ wf'[f].pc # "validate"
    BY <1>2, <1>3, <2>1
  <2>6. AnswerBooked(f)'
    BY <1>2, <1>3, <2>3, <2>5 DEF AnswerBooked, Answered, BookedAs
  <2>. QED BY <1>2, <2>4, <2>6, CallKept
<1>4. CASE ~(a = "ok" /\ wf[f].pc \in {"record", "recordFinal"})
  <2>1. /\ wf[f].pc \notin {"validate"} \/ a \notin FinalStates
        /\ wf[f].pc \notin {"record", "recordFinal"} \/ a # "ok"
        /\ wf[f].pc # "reconcileFinal" \/ a \notin FilingStates
    BY <1>2, <1>4 DEF FinalStates, CommandSteps
  <2>. QED BY <1>1, <1>2, <2>1, PlainAnswerKept
<1>. QED BY <1>3, <1>4

-----------------------------------------------------------------------------
(* The life of an execution. *)

(* Nothing that the runtime keeps is touched. *)
LEMMA QuietKept ==
  ASSUME Told, UNCHANGED <<wf, running, call>>
  PROVE  \A g \in Filings : ToldKept(g)
BY SameKept

(* Only the status of f moves, to SUCCESS only after a return. *)
LEMMA StatusKept ==
  ASSUME IInv, Told, NEW f \in Filings, NEW run, wf' = [wf EXCEPT ![f] = run],
         run.pc = wf[f].pc, run.outcome = wf[f].outcome,
         \A g \in Filings : g # f => running'[g] = running[g],
         running'[f] => run.status # "SUCCESS",
         run.status = "SUCCESS" => wf[f].pc = "return",
         \A g \in Filings : call'[g] = call[g] \/ call'[g].phase # "answered"
  PROVE  \A g \in Filings : ToldKept(g)
<1>1. wf \in [Filings -> Runs]
  BY DEF IInv, TypeOK
<1>2. wf'[f] = run /\ \A g \in Filings : g # f => wf'[g] = wf[g]
  BY <1>1
<1>3. RunTold(f, run)
  <2>1. PICK old : old = wf[f]
    OBVIOUS
  <2>2. RunTold(f, old)
    BY <2>1 DEF Told, RunTold
  <2>. QED BY <2>1, <2>2 DEF RunTold
<1>4. ToldKept(f)
  <2>1. running'[f] => wf'[f].status # "SUCCESS"
    BY <1>2
  <2>2. RunTold(f, wf'[f])
    BY <1>2, <1>3 DEF RunTold
  <2>3. \/ call'[f].phase # "answered"
        \/ /\ call'[f] = call[f]
           /\ wf'[f].pc = wf[f].pc /\ wf'[f].outcome = wf[f].outcome
    BY <1>2
  <2>. QED BY <2>1, <2>2, <2>3 DEF ToldKept
<1>5. \A g \in Filings : g # f => ToldKept(g)
  BY <1>2, SameKept
<1>. QED BY <1>4, <1>5

LEMMA LifeKept ==
  ASSUME IInv, Told, NEW f \in Filings,
         Begin(f) \/ StopCancelled(f) \/ Cancel(f) \/ Resume(f) \/ Return(f)
  PROVE  \A g \in Filings : ToldKept(g)
<1>1. wf \in [Filings -> Runs] /\ running \in [Filings -> BOOLEAN]
  BY DEF IInv, TypeOK
<1>2. UNCHANGED call
  BY DEF Begin, StopCancelled, Cancel, Resume, Return
<1>3. wf[f] \in Runs
  BY <1>1
<1>4. CASE StopCancelled(f)
  BY <1>1, <1>2, <1>4, SameKept DEF StopCancelled
<1>5. CASE Begin(f)
  <2>1. PICK run : run = IF wf[f].attempts <= MaxRecovery
                         THEN [wf[f] EXCEPT !.status = "PENDING",
                                            !.attempts = wf[f].attempts + 1]
                         ELSE [wf[f] EXCEPT !.status = "MAX_RECOVERY_ATTEMPTS_EXCEEDED"]
    OBVIOUS
  <2>2. /\ run.pc = wf[f].pc /\ run.outcome = wf[f].outcome
        /\ run.status # "SUCCESS"
    BY <1>3, <2>1 DEF Runs
  <2>3. wf' = [wf EXCEPT ![f] = run]
    BY <1>5, <2>1 DEF Begin
  <2>4. \A g \in Filings : g # f => running'[g] = running[g]
    BY <1>1, <1>5 DEF Begin
  <2>. QED BY <1>2, <2>2, <2>3, <2>4, StatusKept
<1>6. CASE Cancel(f)
  <2>1. PICK run : run = [wf[f] EXCEPT !.status = "CANCELLED"]
    OBVIOUS
  <2>2. /\ run.pc = wf[f].pc /\ run.outcome = wf[f].outcome
        /\ run.status # "SUCCESS"
    BY <1>3, <2>1 DEF Runs
  <2>3. wf' = [wf EXCEPT ![f] = run] /\ running' = running
    BY <1>6, <2>1 DEF Cancel
  <2>. QED BY <1>2, <2>2, <2>3, StatusKept
<1>7. CASE Resume(f)
  <2>1. PICK run : run = [wf[f] EXCEPT !.status = "ENQUEUED", !.attempts = 0]
    OBVIOUS
  <2>2. /\ run.pc = wf[f].pc /\ run.outcome = wf[f].outcome
        /\ run.status # "SUCCESS"
    BY <1>3, <2>1 DEF Runs
  <2>3. wf' = [wf EXCEPT ![f] = run] /\ running' = running
    BY <1>7, <2>1 DEF Resume
  <2>. QED BY <1>2, <2>2, <2>3, StatusKept
<1>8. CASE Return(f)
  <2>1. PICK run : run = [wf[f] EXCEPT !.status =
                            IF wf[f].status = "CANCELLED" THEN wf[f].status
                            ELSE IF wf[f].pc = "return" THEN "SUCCESS" ELSE "ERROR"]
    OBVIOUS
  <2>2. /\ run.pc = wf[f].pc /\ run.outcome = wf[f].outcome
        /\ run.status = "SUCCESS" => wf[f].pc = "return"
    BY <1>3, <2>1 DEF Runs
  <2>3. wf' = [wf EXCEPT ![f] = run]
    BY <1>8, <2>1 DEF Return
  <2>4. /\ ~running'[f]
        /\ \A g \in Filings : g # f => running'[g] = running[g]
    BY <1>1, <1>8 DEF Return
  <2>. QED BY <1>2, <2>2, <2>3, <2>4, StatusKept
<1>. QED BY <1>4, <1>5, <1>6, <1>7, <1>8

(* A workflow that has not begun tells nothing. *)
LEMMA FreshKept ==
  ASSUME NEW f \in Filings, NEW run, wf'[f] = run, run.pc = "validate",
         run.outcome = "", run.status # "SUCCESS", call'[f].phase # "answered"
  PROVE  ToldKept(f)
<1>1. RunTold(f, run)
  BY DEF RunTold
<1>2. RunTold(f, wf'[f])
  BY <1>1 DEF RunTold
<1>. QED BY <1>2 DEF ToldKept

LEMMA EnqueuedKept ==
  ASSUME IInv, Told, NEW f \in Filings, NEW s, wf[f].status = "absent",
         wf' = [wf EXCEPT ![f] = [NoRun EXCEPT !.status = "ENQUEUED", !.scenario = s]],
         UNCHANGED <<running, call>>
  PROVE  \A g \in Filings : ToldKept(g)
<1>1. PICK run : run = [NoRun EXCEPT !.status = "ENQUEUED", !.scenario = s]
  OBVIOUS
<1>2. run.pc = "validate" /\ run.outcome = "" /\ run.status = "ENQUEUED"
  BY <1>1 DEF NoRun
<1>3. wf'[f] = run /\ \A g \in Filings : g # f => wf'[g] = wf[g]
  BY <1>1 DEF IInv, TypeOK
<1>4. call[f].phase # "answered"
  BY DEF IInv, CallsFit
<1>5. ToldKept(f)
  BY <1>2, <1>3, <1>4, FreshKept
<1>6. \A g \in Filings : g # f => ToldKept(g)
  BY <1>3, SameKept
<1>. QED BY <1>5, <1>6

LEMMA GoneKept ==
  ASSUME NEW f \in Filings, wf'[f] = NoRun, call'[f].phase # "answered"
  PROVE  ToldKept(f)
<1>1. NoRun.pc = "validate" /\ NoRun.outcome = "" /\ NoRun.status # "SUCCESS"
  BY DEF NoRun
<1>. QED BY <1>1, FreshKept

LEMMA CrashKept ==
  ASSUME Told, Crash \/ LoseRuntime
  PROVE  \A g \in Filings : ToldKept(g)
<1>1. Idle.phase # "answered"
  BY DEF Idle
<1>2. \A g \in Filings : call'[g].phase # "answered" /\ ~running'[g]
  BY <1>1 DEF Crash, LoseRuntime
<1>3. CASE Crash
  BY <1>2, <1>3, SameKept DEF Crash
<1>4. CASE LoseRuntime
  BY <1>2, <1>4, GoneKept DEF LoseRuntime
<1>. QED BY <1>3, <1>4

-----------------------------------------------------------------------------
(* The workflow alone. *)

LEMMA ProgressKept ==
  ASSUME IInv, Told, Explained, NEW f \in Filings, Progress(f)
  PROVE  \A g \in Filings : ToldKept(g)
<1>1. CASE \/ Begin(f) \/ StopCancelled(f) \/ Return(f)
  BY <1>1, LifeKept
<1>2. CASE Send(f) \/ RetryStep(f) \/ HandleGetFiling(f) \/ HandleCommand(f)
  BY <1>2, QuietCallKept, ReadKept, CommandKept
<1>3. CASE HandleStatus(f) \/ HandleSubmit(f) \/ GiveUp(f)
  BY <1>3, RepliesKept
<1>4. CASE FailStep(f) \/ AfterValidate(f)
  BY <1>4, FailKept, ValidateKept
<1>5. CASE \/ AfterPrepare(f) \/ AfterFindExisting(f) \/ AfterResolveAmbiguous(f)
           \/ AfterSubmit(f) \/ AfterResubmit(f)
  BY <1>5, LookupsKept, SubmissionsKept
<1>6. CASE AfterMarkSubmitted(f) \/ Recv(f) \/ RecvTimeout(f) \/ AfterPollStatus(f)
  BY <1>6, WaitingKept
<1>7. CASE AfterRecordOutcome(f) \/ AfterReconcileFinal(f)
  BY <1>7, EndingsKept
<1>. QED BY <1>1, <1>2, <1>3, <1>4, <1>5, <1>6, <1>7 DEF Progress

LEMMA EnvironmentKept ==
  ASSUME IInv, Told, NEW f \in Filings, Environment(f)
  PROVE  \A g \in Filings : ToldKept(g)
<1>1. ASSUME NEW s \in Scenarios, Enqueue(f, s)
      PROVE  \A g \in Filings : ToldKept(g)
  BY <1>1, EnqueuedKept DEF Enqueue
<1>2. CASE Cancel(f) \/ Resume(f)
  BY <1>2, LifeKept
<1>3. CASE \/ \E s \in Scenarios : SeedFiling(f, s)
           \/ CompleteOperation(f) \/ DeliverCallback(f)
           \/ \E outcome \in OperatorOutcomes : OperatorSend(f, outcome)
  <2>1. UNCHANGED <<wf, running, call>>
    BY <1>3 DEF SeedFiling, CompleteOperation, DeliverCallback, OperatorSend, runtimeVars
  <2>. QED BY <2>1, QuietKept
<1>. QED BY <1>1, <1>2, <1>3 DEF Environment

LEMMA NextKept ==
  ASSUME IInv, Told, Explained, [Next]_vars
  PROVE  \A g \in Filings : ToldKept(g)
<1>1. CASE \E f \in Filings : Progress(f) \/ Environment(f)
  BY <1>1, ProgressKept, EnvironmentKept
<1>2. CASE \/ \E p \in latePosts : HandleLatePost(p)
           \/ \E req \in lateCommands : HandleLateCommand(req)
           \/ UNCHANGED vars
  <2>1. UNCHANGED <<wf, running, call>>
    BY <1>2 DEF HandleLatePost, HandleLateCommand, runtimeVars, vars
  <2>. QED BY <2>1, QuietKept
<1>3. CASE Crash \/ LoseRuntime
  BY <1>3, CrashKept
<1>. QED BY <1>1, <1>2, <1>3 DEF Next

LEMMA InitTold == Init => Told
<1>. SUFFICES ASSUME Init
              PROVE  Told
  OBVIOUS
<1>1. SUFFICES ASSUME NEW f \in Filings
               PROVE  /\ running[f] => wf[f].status # "SUCCESS"
                      /\ RunTold(f, wf[f])
                      /\ AnswerBooked(f)
  BY DEF Told
<1>2. /\ NoRun.pc = "validate" /\ NoRun.outcome = "" /\ NoRun.status = "absent"
      /\ Idle.phase = "idle"
  BY DEF NoRun, Idle
<1>3. /\ wf[f].pc = "validate" /\ wf[f].outcome = "" /\ wf[f].status = "absent"
      /\ call[f].phase = "idle"
  BY <1>2 DEF Init
<1>4. wf[f].status # "SUCCESS"
  BY <1>3
<1>5. RunTold(f, wf[f])
  BY <1>3 DEF RunTold
<1>6. AnswerBooked(f)
  BY <1>3 DEF AnswerBooked, Answered
<1>. QED BY <1>4, <1>5, <1>6

LEMMA ToldIsSuccess ==
  ASSUME Told
  PROVE  SuccessMatchesBooks
BY DEF Told, RunTold, BookedAs, SuccessMatchesBooks

(* The outcome command of a prepared filing is refused only when the books  *)
(* hold a final outcome or a review.                                        *)
LEMMA OutcomeRefused ==
  ASSUME IInv, Explained, NEW f \in Filings, wf[f].pc \in {"record", "recordFinal"},
         Refused(Command(f))
  PROVE  filings[f].state \in FinalStates \cup {"needs_review"}
<1>1. PICK state : state = mapOutcome(wf[f].outcome)
  OBVIOUS
<1>2. state \in FinalStates \cup {"needs_review"}
  BY <1>1 DEF mapOutcome
<1>3. PICK req : req = OutcomeRequest(f, state, wf[f].detail) /\ Refused(req)
  BY <1>1 DEF Command
<1>4. /\ req.filing = f
      /\ req.type \in {"MarkFilingAccepted", "MarkFilingRejected", "MarkFilingNeedsReview"}
      /\ req.key \in {OutcomeCommandKey(WorkflowID(f)), ReviewCommandKey(WorkflowID(f))}
  BY <1>2, <1>3 DEF OutcomeRequest
<1>5. filings[f].state \notin {"absent", "ready"}
  <2>1. Prepared(f)
    BY PcFacts, HerePrepared
  <2>. QED BY <2>1, IInvWorld, DomainAssumption DEF WorldTrue, Prepared, OperationIDs
<1>6. AccountableTypeOK
  BY DEF IInv, TypeOK
<1>7. CASE Logged(f, req.key)
  <2>1. filings[f].state = LoggedState(f)
    BY <1>5 DEF Explained, StateExplainedByCommands
  <2>. QED BY <1>4, <1>6, <1>7, <2>1, LoggedStateCases
<1>8. CASE ~Logged(f, req.key)
  <2>1. ~CommandAllowsState(req.type, filings[f].state)
    BY <1>3, <1>4, <1>8 DEF Refused, Applies, Logged
  <2>2. filings[f].state \in FilingStates \cup {"absent"}
    BY <1>6 DEF AccountableTypeOK, Rows
  <2>. QED BY <1>4, <1>5, <2>1, <2>2 DEF CommandAllowsState, FilingStates
<1>. QED BY <1>7, <1>8

LEMMA ToldFails ==
  ASSUME IInv, Told, Explained
  PROVE  FailsOnlyWhenSettled
<1>1. SUFFICES ASSUME NEW f \in Filings, wf[f].pc = "reconcileFinal",
                      call[f].phase = "answered", call[f].answer \in FilingStates,
                      call[f].answer # mapOutcome(wf[f].outcome)
               PROVE  /\ mapOutcome(wf[f].outcome) = "needs_review"
                      /\ filings[f].state \in FinalStates
  BY OutcomeRefused DEF FailsOnlyWhenSettled
<1>2. ReadBooked(f, wf[f].outcome, call[f].answer)
  BY <1>1 DEF Told, AnswerBooked, Answered
<1>. QED BY <1>1, <1>2 DEF ReadBooked

(* A workflow that returned without an error tells what the books say       *)
(* (workflow/filing.go:302-320): its outcome is booked by then, and what is *)
(* booked is never taken back.                                              *)
THEOREM FilingSuccessIsBooked == Spec => []SuccessMatchesBooks
<1>1. IInv /\ Told /\ StateExplainedByCommands /\ IntentLoggedFirst /\ [Next]_vars => Told'
  <2>. SUFFICES ASSUME IInv, Told, Explained, [Next]_vars
                PROVE  Told'
    BY DEF Explained
  <2>1. \A f \in Filings : ToldKept(f)
    BY NextKept
  <2>. QED BY <2>1, NextContract, ToldFrame
<1>2. Told => SuccessMatchesBooks
  BY ToldIsSuccess
<1>. QED BY <1>1, <1>2, InitTold, Invariance, FilingUsesBooks, BooksMatchLog,
        IntentComesFirst, PTL DEF Spec
-----------------------------------------------------------------------------
(* The workflow with its reconcilers and its backups. *)

(* What a backup holds was told before it was taken. *)
BackupTold == \A f \in Filings : RunTold(f, backup.wf[f])

LEMMA DeleteKept ==
  ASSUME RInv, Told, NEW r \in Reconcilers, DeleteWorkflow(r)
  PROVE  \A g \in Filings : ToldKept(g)
<1>1. PICK f \in Filings : f = Filing(r)
  BY RowFacts DEF DeleteWorkflow, Stages
<1>2. /\ wf' = [wf EXCEPT ![f] = NoRun]
      /\ running' = [running EXCEPT ![f] = FALSE]
      /\ call' = [call EXCEPT ![f] = Idle]
  BY <1>1 DEF DeleteWorkflow
<1>3. /\ wf \in [Filings -> Runs] /\ running \in [Filings -> BOOLEAN]
      /\ DOMAIN call = Filings
  BY DEF RInv, IInv, TypeOK
<1>4. ToldKept(f)
  <2>1. Idle.phase # "answered"
    BY DEF Idle
  <2>. QED BY <1>2, <1>3, <2>1, GoneKept
<1>5. \A g \in Filings : g # f => ToldKept(g)
  BY <1>2, <1>3, SameKept
<1>. QED BY <1>4, <1>5

LEMMA StartKept ==
  ASSUME RInv, Told, NEW r \in Reconcilers, StartWorkflow(r)
  PROVE  \A g \in Filings : ToldKept(g)
<1>1. PICK f \in Filings : f = Filing(r)
  BY RowFacts DEF StartWorkflow, Stages
<1>2. PICK s : s = passes[r].row.scenario
  OBVIOUS
<1>3. IInv /\ UNCHANGED <<running, call>>
  BY DEF StartWorkflow, RInv
<1>4. CASE wf' = wf
  BY <1>3, <1>4, QuietKept
<1>5. CASE wf' # wf
  <2>1. /\ wf[f].status = "absent"
        /\ wf' = [wf EXCEPT ![f] = [NoRun EXCEPT !.status = "ENQUEUED", !.scenario = s]]
    BY <1>1, <1>2, <1>5 DEF StartWorkflow
  <2>. QED BY <1>3, <2>1, EnqueuedKept
<1>. QED BY <1>4, <1>5

LEMMA PassKept ==
  ASSUME RInv, Told, NEW r \in Reconcilers, Pass(r)
  PROVE  \A g \in Filings : ToldKept(g)
<1>1. CASE DeleteWorkflow(r) \/ StartWorkflow(r)
  BY <1>1, DeleteKept, StartKept
<1>2. CASE \/ FetchDueRecords(r) \/ LookAt(r) \/ AskProvider(r) \/ RecordOutcome(r)
           \/ PassEnds(r) \/ RecordAgain(r)
  <2>1. UNCHANGED <<wf, running, call>>
    BY <1>2 DEF FetchDueRecords, LookAt, AskProvider, RecordOutcome, PassEnds,
       RecordAgain, vars, runtimeVars
  <2>. QED BY <2>1, QuietKept DEF RInv
<1>. QED BY <1>1, <1>2 DEF Pass

LEMMA RestoreKept ==
  ASSUME RInv, Told, BackupTold, RestoreBackup
  PROVE  \A g \in Filings : ToldKept(g)
<1>1. SUFFICES ASSUME NEW g \in Filings
               PROVE  ToldKept(g)
  OBVIOUS
<1>2. ~running'[g] /\ call'[g] = Idle /\ wf' = backup.wf
  BY DEF RestoreBackup
<1>3. Idle.phase # "answered"
  BY DEF Idle
<1>4. PICK run : run = backup.wf[g]
  OBVIOUS
<1>5. RunTold(g, run)
  BY <1>4 DEF BackupTold, RunTold
<1>6. wf'[g] = run
  BY <1>2, <1>4
<1>7. RunTold(g, wf'[g])
  BY <1>5, <1>6 DEF RunTold
<1>. QED BY <1>2, <1>3, <1>7 DEF ToldKept

LEMMA RNextKept ==
  ASSUME RInv, Told, BackupTold, Explained, [RNext]_rvars
  PROVE  \A g \in Filings : ToldKept(g)
<1>1. CASE FilingStep
  BY <1>1, NextKept DEF FilingStep, RInv
<1>2. CASE TakeBackup \/ UNCHANGED rvars
  <2>1. UNCHANGED <<wf, running, call>>
    BY <1>2 DEF TakeBackup, vars, rvars
  <2>. QED BY <2>1, QuietKept DEF RInv
<1>. QED BY <1>1, <1>2, PassKept, RestoreKept DEF RNext

LEMMA RNextBackup ==
  ASSUME RInv, Told, BackupTold, [RNext]_rvars
  PROVE  BackupTold'
<1>1. SUFFICES ASSUME NEW f \in Filings, NEW run, run = backup'.wf[f]
               PROVE  RunTold(f, run)'
  BY DEF BackupTold, RunTold
<1>2. ContractStep /\ IInv
  BY RNextContract DEF RInv
<1>3. RunTold(f, run)
  <2>1. CASE TakeBackup
    <3>1. run = wf[f]
      BY <1>1, <2>1 DEF TakeBackup
    <3>. QED BY <3>1 DEF Told, RunTold
  <2>2. CASE ~TakeBackup
    <3>1. backup' = backup
      BY <2>2 DEF RNext, FilingStep, Pass, FetchDueRecords, LookAt, AskProvider,
         RecordOutcome, DeleteWorkflow, StartWorkflow, PassEnds, RecordAgain,
         RestoreBackup, reconciliationVars, backupVars, rvars
    <3>2. run = backup.wf[f]
      BY <1>1, <3>1
    <3>. QED BY <3>2 DEF BackupTold, RunTold
  <2>. QED BY <2>1, <2>2
<1>. QED BY <1>2, <1>3, RunStaysTold

LEMMA RInitTold ==
  ASSUME RInit
  PROVE  Told /\ BackupTold
<1>1. Told
  BY InitTold DEF RInit
<1>2. backup.wf = wf
  BY DEF RInit
<1>. QED BY <1>1, <1>2 DEF Told, BackupTold, RunTold

LEMMA RToldStep ==
  /\ RInv /\ Told /\ BackupTold /\ StateExplainedByCommands /\ IntentLoggedFirst
  /\ [RNext]_rvars
  => Told' /\ BackupTold'
<1>. SUFFICES ASSUME RInv, Told, BackupTold, Explained, [RNext]_rvars
              PROVE  Told' /\ BackupTold'
  BY DEF Explained
<1>1. \A f \in Filings : ToldKept(f)
  BY RNextKept
<1>2. ContractStep /\ IInv
  BY RNextContract DEF RInv
<1>. QED BY <1>1, <1>2, ToldFrame, RNextBackup

(* No reconciler and no restored backup makes a workflow tell anything but  *)
(* what the books say (workflow/filing.go:302-320, 392, cmd/opsctl): they   *)
(* take nothing back that is booked, so that what an old checkpoint or an   *)
(* old answer tells stays true.                                             *)
THEOREM SuccessIsBooked == RSpec => []SuccessMatchesBooks
<1>1. /\ RInv /\ Told /\ BackupTold /\ StateExplainedByCommands /\ IntentLoggedFirst
      /\ [RNext]_rvars
      => Told' /\ BackupTold'
  BY RToldStep
<1>2. Told => SuccessMatchesBooks
  BY ToldIsSuccess
<1>3. RInit => Told /\ BackupTold
  BY RInitTold
<1>. QED BY <1>1, <1>2, <1>3, ReconciliationInvariance, ReconciliationUsesBooks,
        BooksMatchLog, IntentComesFirst, PTL DEF RSpec

(* With reconcilers and restored backups at work, too, the last steps of a  *)
(* run (workflow/filing.go:302 and 314) fail only over a filing that is     *)
(* settled or under review, where a reconciler or an operator looks at it.  *)
THEOREM FailuresAreSettled == RSpec => []FailsOnlyWhenSettled
<1>1. /\ RInv /\ Told /\ BackupTold /\ StateExplainedByCommands /\ IntentLoggedFirst
      /\ [RNext]_rvars
      => Told' /\ BackupTold'
  BY RToldStep
<1>2. RInv /\ Told /\ StateExplainedByCommands /\ IntentLoggedFirst => FailsOnlyWhenSettled
  BY ToldFails DEF RInv, Explained
<1>3. RInit => Told /\ BackupTold
  BY RInitTold
<1>. QED BY <1>1, <1>2, <1>3, ReconciliationInvariance, ReconciliationUsesBooks,
        BooksMatchLog, IntentComesFirst, PTL DEF RSpec

-----------------------------------------------------------------------------
(* One operator alone.  Between the operator's look at a failed workflow    *)
(* and the deletion nobody else can bring the row back to life, because a   *)
(* failed workflow does not run and is not resumed.                         *)

FailedIsOver == \A f \in Filings : wf[f].status = "ERROR" => ~running[f]

(* What is true of the row that r is about to delete. *)
FailedWhenDeleted(r) == At(r, "delete") => wf[Filing(r)].status = "ERROR"

(* A row that has failed stays as it is, and none fails while it runs. *)
FailuresStay ==
  \A f \in Filings :
    /\ wf[f].status = "ERROR" => wf'[f].status = "ERROR"
    /\ wf'[f].status = "absent" => wf[f].status = "absent"
    /\ wf'[f].status = "ERROR" /\ running'[f] => wf[f].status = "ERROR" /\ running[f]

LEMMA SameStatus ==
  ASSUME UNCHANGED running, \A f \in Filings : wf'[f].status = wf[f].status
  PROVE  FailuresStay
BY DEF FailuresStay

LEMMA CheckpointStatus ==
  ASSUME IInv, NEW f \in Filings, NEW run, Checkpoint(f, run), run.status = wf[f].status
  PROVE  FailuresStay
<1>1. /\ running' = running /\ wf'[f] = run
      /\ \A g \in Filings : g # f => wf'[g] = wf[g]
  BY DEF IInv, TypeOK, Checkpoint
<1>. QED BY <1>1, SameStatus

LEMMA AfterStatus ==
  ASSUME IInv, NEW f \in Filings,
         \/ AfterValidate(f) \/ AfterPrepare(f) \/ AfterFindExisting(f)
         \/ AfterSubmit(f) \/ AfterResolveAmbiguous(f) \/ AfterResubmit(f)
         \/ AfterMarkSubmitted(f) \/ Recv(f) \/ RecvTimeout(f) \/ AfterPollStatus(f)
         \/ AfterRecordOutcome(f) \/ AfterReconcileFinal(f) \/ FailStep(f)
  PROVE  FailuresStay
<1>1. PICK run : Checkpoint(f, run) /\ run.status = wf[f].status
  BY AfterKeeps
<1>. QED BY <1>1, CheckpointStatus

LEMMA RowStatus ==
  ASSUME IInv, NEW f \in Filings, NEW run, wf' = [wf EXCEPT ![f] = run],
         wf[f].status # "ERROR", run.status # "absent",
         running'[f] => run.status # "ERROR",
         \A g \in Filings : g # f => running'[g] = running[g]
  PROVE  FailuresStay
<1>1. wf'[f] = run /\ \A g \in Filings : g # f => wf'[g] = wf[g]
  BY DEF IInv, TypeOK
<1>. QED BY <1>1 DEF FailuresStay

LEMMA LifeStatus ==
  ASSUME IInv, FailedIsOver, NEW f \in Filings,
         \/ Begin(f) \/ StopCancelled(f) \/ Cancel(f) \/ Resume(f) \/ Return(f)
         \/ \E s \in Scenarios : Enqueue(f, s)
  PROVE  FailuresStay
<1>1. wf[f] \in Runs /\ running \in [Filings -> BOOLEAN]
  BY DEF IInv, TypeOK
<1>2. CASE StopCancelled(f)
  BY <1>1, <1>2 DEF StopCancelled, FailuresStay
<1>3. CASE Begin(f)
  <2>1. PICK run : run = IF wf[f].attempts <= MaxRecovery
                         THEN [wf[f] EXCEPT !.status = "PENDING",
                                            !.attempts = wf[f].attempts + 1]
                         ELSE [wf[f] EXCEPT !.status = "MAX_RECOVERY_ATTEMPTS_EXCEEDED"]
    OBVIOUS
  <2>2. run.status \in {"PENDING", "MAX_RECOVERY_ATTEMPTS_EXCEEDED"}
    BY <1>1, <2>1 DEF Runs
  <2>3. wf' = [wf EXCEPT ![f] = run]
    BY <1>3, <2>1 DEF Begin
  <2>4. \A g \in Filings : g # f => running'[g] = running[g]
    BY <1>1, <1>3 DEF Begin
  <2>5. wf[f].status # "ERROR"
    BY <1>3 DEF Begin
  <2>. QED BY <2>2, <2>3, <2>4, <2>5, RowStatus
<1>4. CASE Cancel(f) \/ Resume(f)
  <2>1. PICK run : /\ wf' = [wf EXCEPT ![f] = run]
                   /\ \/ run = [wf[f] EXCEPT !.status = "CANCELLED"]
                      \/ run = [wf[f] EXCEPT !.status = "ENQUEUED", !.attempts = 0]
    BY <1>4 DEF Cancel, Resume
  <2>2. run.status \in {"CANCELLED", "ENQUEUED"}
    BY <1>1, <2>1 DEF Runs
  <2>3. wf[f].status # "ERROR" /\ running' = running
    BY <1>4 DEF Cancel, Resume
  <2>. QED BY <2>1, <2>2, <2>3, RowStatus
<1>5. CASE Return(f)
  <2>1. PICK run : run = [wf[f] EXCEPT !.status =
                            IF wf[f].status = "CANCELLED" THEN wf[f].status
                            ELSE IF wf[f].pc = "return" THEN "SUCCESS" ELSE "ERROR"]
    OBVIOUS
  <2>2. run.status \in {"CANCELLED", "SUCCESS", "ERROR"}
    BY <1>1, <2>1 DEF Runs
  <2>3. wf' = [wf EXCEPT ![f] = run]
    BY <1>5, <2>1 DEF Return
  <2>4. /\ ~running'[f]
        /\ \A g \in Filings : g # f => running'[g] = running[g]
    BY <1>1, <1>5 DEF Return
  <2>5. wf[f].status # "ERROR"
    BY <1>5 DEF Return, FailedIsOver
  <2>. QED BY <2>2, <2>3, <2>4, <2>5, RowStatus
<1>6. ASSUME NEW s \in Scenarios, Enqueue(f, s)
      PROVE  FailuresStay
  <2>1. PICK run : run = [NoRun EXCEPT !.status = "ENQUEUED", !.scenario = s]
    OBVIOUS
  <2>2. run.status = "ENQUEUED"
    BY <2>1 DEF NoRun
  <2>3. wf' = [wf EXCEPT ![f] = run] /\ wf[f].status # "ERROR" /\ running' = running
    BY <1>6, <2>1 DEF Enqueue
  <2>. QED BY <2>2, <2>3, RowStatus
<1>. QED BY <1>2, <1>3, <1>4, <1>5, <1>6

LEMMA NextStatus ==
  ASSUME IInv, FailedIsOver, [Next]_vars, MaxLosses = 0
  PROVE  FailuresStay
<1>0. running \in [Filings -> BOOLEAN] /\ losses \in Nat /\ losses = 0
  BY DEF IInv, TypeOK
<1>1. ASSUME UNCHANGED <<wf, running>>
      PROVE  FailuresStay
  BY <1>1, SameStatus
<1>2. ASSUME NEW f \in Filings, Progress(f)
      PROVE  FailuresStay
  <2>1. CASE \/ Send(f) \/ HandleGetFiling(f) \/ HandleStatus(f) \/ HandleSubmit(f)
             \/ HandleCommand(f) \/ GiveUp(f) \/ RetryStep(f)
    <3>1. UNCHANGED <<wf, running>>
      BY <2>1 DEF Send, HandleGetFiling, HandleStatus, HandleSubmit, HandleCommand,
         Answer, GiveUp, RetryStep
    <3>. QED BY <1>1, <3>1
  <2>2. CASE Begin(f) \/ StopCancelled(f) \/ Return(f)
    BY <2>2, LifeStatus
  <2>. QED BY <1>2, <2>1, <2>2, AfterStatus DEF Progress
<1>3. ASSUME NEW f \in Filings, Environment(f)
      PROVE  FailuresStay
  <2>1. CASE \/ \E s \in Scenarios : SeedFiling(f, s)
             \/ CompleteOperation(f) \/ DeliverCallback(f)
             \/ \E outcome \in OperatorOutcomes : OperatorSend(f, outcome)
    <3>1. UNCHANGED <<wf, running>>
      BY <2>1 DEF SeedFiling, CompleteOperation, DeliverCallback, OperatorSend, runtimeVars
    <3>. QED BY <1>1, <3>1
  <2>2. CASE Cancel(f) \/ Resume(f) \/ \E s \in Scenarios : Enqueue(f, s)
    BY <2>2, LifeStatus
  <2>. QED BY <1>3, <2>1, <2>2 DEF Environment
<1>4. CASE \/ \E p \in latePosts : HandleLatePost(p)
           \/ \E req \in lateCommands : HandleLateCommand(req)
           \/ UNCHANGED vars
  <2>1. UNCHANGED <<wf, running>>
    BY <1>4 DEF HandleLatePost, HandleLateCommand, runtimeVars, vars
  <2>. QED BY <1>1, <2>1
<1>5. CASE Crash
  BY <1>0, <1>5 DEF Crash, FailuresStay
<1>6. CASE LoseRuntime
  BY <1>0, <1>6 DEF LoseRuntime
<1>. QED BY <1>2, <1>3, <1>4, <1>5, <1>6 DEF Next

(* The part of the invariant that is about failed rows goes with them. *)
LEMMA OverStays ==
  ASSUME FailedIsOver, FailuresStay
  PROVE  FailedIsOver'
BY DEF FailedIsOver, FailuresStay

(* Everything but the deletion itself leaves failed rows alone. *)
LEMMA QuietPassStatus ==
  ASSUME RInv, FailedIsOver, NEW r \in Reconcilers, Pass(r), ~DeleteWorkflow(r)
  PROVE  FailuresStay
<1>1. CASE StartWorkflow(r)
  <2>1. PICK f \in Filings : f = Filing(r)
    BY <1>1, RowFacts DEF StartWorkflow, Stages
  <2>2. IInv /\ running' = running
    BY <1>1 DEF StartWorkflow, RInv
  <2>3. CASE wf' = wf
    BY <2>2, <2>3, SameStatus
  <2>4. CASE wf' # wf
    <3>1. PICK run : run = [NoRun EXCEPT !.status = "ENQUEUED",
                                         !.scenario = passes[r].row.scenario]
      OBVIOUS
    <3>2. run.status = "ENQUEUED"
      BY <3>1 DEF NoRun
    <3>3. wf' = [wf EXCEPT ![f] = run] /\ wf[f].status = "absent"
      BY <1>1, <2>1, <2>4, <3>1 DEF StartWorkflow
    <3>. QED BY <2>2, <3>2, <3>3, RowStatus
  <2>. QED BY <2>3, <2>4
<1>2. CASE \/ FetchDueRecords(r) \/ LookAt(r) \/ AskProvider(r) \/ RecordOutcome(r)
           \/ PassEnds(r) \/ RecordAgain(r)
  <2>1. UNCHANGED <<wf, running>>
    BY <1>2 DEF FetchDueRecords, LookAt, AskProvider, RecordOutcome, PassEnds,
       RecordAgain, vars, runtimeVars
  <2>. QED BY <2>1, SameStatus
<1>. QED BY <1>1, <1>2 DEF Pass

LEMMA PassGoesTo ==
  ASSUME RInv, NEW r \in Reconcilers, NEW pass, Goes(r, pass)
  PROVE  passes'[r] = pass
BY DEF RInv, PassesTypeOK, Goes

LEMMA StagesReached ==
  ASSUME RInv, NEW r \in Reconcilers
  PROVE  /\ NextRow(r).at = "next" /\ NoPass.at = "idle"
         /\ \A o : [Reached(r, "record") EXCEPT !.outcome = o].at = "record"
<1>1. NextRow(r).at = "next" /\ NoPass.at = "idle"
  BY DEF NextRow, BetweenRows, NoPass
<1>2. ASSUME NEW o
      PROVE  [Reached(r, "record") EXCEPT !.outcome = o].at = "record"
  <2>1. PICK pass \in [at : Stages, due : SUBSET Listed, row : Listed \cup {NoRow},
                       outcome : FinalStates \cup {""}] : pass = passes[r]
    BY DEF RInv, PassesTypeOK
  <2>2. [[pass EXCEPT !.at = "record"] EXCEPT !.outcome = o].at = "record"
    BY <2>1
  <2>. QED BY <2>1, <2>2 DEF Reached
<1>. QED BY <1>1, <1>2

(* A pass comes to a deletion only by looking at a failed row. *)
LEMMA DeletionsAreLookedAt ==
  ASSUME RInv, NEW r \in Reconcilers, Pass(r), ~DeleteWorkflow(r), passes'[r].at = "delete"
  PROVE  /\ wf' = wf
         /\ wf[passes'[r].row.filing].status = "ERROR"
<1>1. CASE LookAt(r)
  <2>0. PICK row \in passes[r].due :
          Goes(r, [at |-> StageFor(row), due |-> passes[r].due \ {row},
                   row |-> IF StageFor(row) = "next" THEN NoRow ELSE row,
                   outcome |-> ""])
    BY <1>1 DEF LookAt
  <2>1. PICK pass :
          /\ Goes(r, pass)
          /\ pass = [at |-> StageFor(row), due |-> passes[r].due \ {row},
                     row |-> IF StageFor(row) = "next" THEN NoRow ELSE row,
                     outcome |-> ""]
    BY <2>0
  <2>2. passes'[r] = pass
    BY <2>1, PassGoesTo
  <2>3. StageFor(row) = "delete" /\ passes'[r].row = row
    <3>1. PICK stage : stage = StageFor(row)
      OBVIOUS
    <3>2. pass.at = stage /\ pass.row = IF stage = "next" THEN NoRow ELSE row
      BY <2>1, <3>1
    <3>. QED BY <2>2, <3>1, <3>2
  <2>4. wf[row.filing].status = "ERROR"
    BY <2>3 DEF StageFor
  <2>. QED BY <1>1, <2>3, <2>4 DEF LookAt, vars
<1>2. CASE FetchDueRecords(r)
  <2>1. PICK due, pass : Goes(r, pass) /\ pass = BetweenRows(due)
    BY <1>2 DEF FetchDueRecords
  <2>2. pass.at = "next" /\ passes'[r] = pass
    BY <2>1, PassGoesTo DEF BetweenRows
  <2>. QED BY <2>2
<1>3. CASE AskProvider(r)
  <2>1. PICK pass : /\ Goes(r, pass)
                    /\ \/ pass = NextRow(r)
                       \/ \E o : pass = [Reached(r, "record") EXCEPT !.outcome = o]
    BY <1>3 DEF AskProvider
  <2>2. pass.at \in {"next", "record"}
    BY <2>1, StagesReached
  <2>. QED BY <2>1, <2>2, PassGoesTo
<1>4. CASE RecordOutcome(r) \/ StartWorkflow(r) \/ PassEnds(r) \/ RecordAgain(r)
  <2>1. \/ Goes(r, NextRow(r)) \/ Goes(r, NoPass)
        \/ passes' = passes /\ passes[r].at # "delete"
    BY <1>4 DEF RecordOutcome, StartWorkflow, PassEnds, RecordAgain, GoesOn, At,
       reconciliationVars
  <2>2. PICK next, none : next = NextRow(r) /\ none = NoPass
    OBVIOUS
  <2>3. next.at = "next" /\ none.at = "idle"
    BY <2>2, StagesReached
  <2>. QED BY <2>1, <2>2, <2>3, PassGoesTo
<1>. QED BY <1>1, <1>2, <1>3, <1>4 DEF Pass

(* One operator, and nobody beside: every row it removes had failed. *)
LEMMA OperatorStep ==
  ASSUME RInv, FailedIsOver, [RNext]_rvars, MaxLosses = 0,
         NEW r, Reconcilers = {r}, r # "scheduled", FailedWhenDeleted(r)
  PROVE  /\ FailedIsOver' /\ FailedWhenDeleted(r)'
         /\ \A f \in Filings :
              wf[f].status # "absent" /\ wf'[f].status = "absent" => wf[f].status = "ERROR"
<1>0. IInv /\ losses = 0
  BY DEF RInv, IInv, TypeOK
<1>1. ASSUME FailuresStay,
             passes'[r].at = "delete" =>
               \/ passes' = passes
               \/ wf' = wf /\ wf[passes'[r].row.filing].status = "ERROR"
      PROVE  /\ FailedIsOver' /\ FailedWhenDeleted(r)'
             /\ \A f \in Filings :
                  wf[f].status # "absent" /\ wf'[f].status = "absent"
                    => wf[f].status = "ERROR"
  <2>1. FailedWhenDeleted(r)'
    <3>1. SUFFICES ASSUME passes'[r].at = "delete", passes' = passes
                   PROVE  wf'[passes'[r].row.filing].status = "ERROR"
      BY <1>1 DEF FailedWhenDeleted, At, Filing
    <3>2. At(r, "delete")
      BY <3>1 DEF At
    <3>3. Filing(r) \in Filings
      BY <3>2, RowFacts DEF Stages
    <3>. QED BY <1>1, <3>1, <3>2, <3>3 DEF FailedWhenDeleted, FailuresStay, Filing
  <2>. QED BY <1>1, <2>1, OverStays DEF FailuresStay
<1>2. CASE FilingStep
  BY <1>0, <1>1, <1>2, NextStatus DEF FilingStep, reconciliationVars
<1>3. CASE TakeBackup \/ UNCHANGED rvars
  <2>1. UNCHANGED <<wf, running, passes>>
    BY <1>3 DEF TakeBackup, vars, rvars
  <2>. QED BY <1>1, <2>1, SameStatus
<1>4. CASE RestoreBackup
  BY <1>0, <1>4 DEF RestoreBackup
<1>5. CASE Pass(r) /\ ~DeleteWorkflow(r)
  BY <1>1, <1>5, QuietPassStatus, DeletionsAreLookedAt
<1>6. CASE DeleteWorkflow(r)
  <2>1. PICK f \in Filings : f = Filing(r)
    BY <1>6, RowFacts DEF DeleteWorkflow, Stages
  <2>2. /\ wf' = [wf EXCEPT ![f] = NoRun] /\ wf[f].status = "ERROR"
        /\ running' = [running EXCEPT ![f] = FALSE]
    BY <1>6, <2>1 DEF DeleteWorkflow, FailedWhenDeleted
  <2>3. /\ \A g \in Filings : g # f => wf'[g] = wf[g] /\ running'[g] = running[g]
        /\ ~running'[f]
    BY <1>0, <2>2 DEF IInv, TypeOK
  <2>4. PICK pass : pass = Reached(r, "start") /\ Goes(r, pass)
    BY <1>6 DEF DeleteWorkflow, GoesOn
  <2>5. passes'[r].at = "start"
    BY <2>4, ReachedShape, PassGoesTo DEF Stages
  <2>. QED BY <2>2, <2>3, <2>5 DEF FailedIsOver, FailedWhenDeleted, At
<1>. QED BY <1>2, <1>3, <1>4, <1>5, <1>6 DEF RNext

(* docs/PROOF_CONTRACT.md:36, as far as one reconciler and nobody beside it *)
(* keeps it: workflow/filing.go:437 and opsctl delete by id, on a list and  *)
(* a status read before, and yet nothing but a failed workflow goes away.   *)
THEOREM OneOperatorRemovesTheFailed ==
  ASSUME NEW r, Reconcilers = {r}, r # "scheduled", MaxLosses = 0
  PROVE  RSpec => OnlyFailedAreRecreated
<1>1. RInit => FailedIsOver /\ FailedWhenDeleted(r)
  <2>. SUFFICES ASSUME RInit
                PROVE  FailedIsOver /\ FailedWhenDeleted(r)
    OBVIOUS
  <2>1. \A f \in Filings : ~running[f]
    BY DEF RInit, Init
  <2>2. ~At(r, "delete")
    BY DEF RInit, At, NoPass
  <2>. QED BY <2>1, <2>2 DEF FailedIsOver, FailedWhenDeleted
<1>2. RInv /\ FailedIsOver /\ FailedWhenDeleted(r) /\ [RNext]_rvars
        => FailedIsOver' /\ FailedWhenDeleted(r)'
  BY OperatorStep
<1>3. RInv /\ FailedIsOver /\ FailedWhenDeleted(r) /\ [RNext]_rvars
        => [losses' = losses =>
              \A f \in Filings :
                wf[f].status # "absent" /\ wf'[f].status = "absent"
                  => wf[f].status = "ERROR"]_rvars
  BY OperatorStep
<1>. QED BY <1>1, <1>2, <1>3, ReconciliationInvariance, PTL
        DEF RSpec, OnlyFailedAreRecreated
=============================================================================
