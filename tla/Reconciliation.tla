---------------------------- MODULE Reconciliation ----------------------------
(***************************************************************************)
(* The two reconcilers beside the filing workflow: the scheduled workflow  *)
(* Reconcile (internal/workflow/filing.go) and opsctl reconcile -apply     *)
(* (cmd/opsctl), which follow the same policy over the due filings in      *)
(* Accountable; and the restore of a backup of the DBOS database, the      *)
(* disaster they repair.                                                   *)
(*                                                                         *)
(* A pass reads a list of filings, then for each of them the workflow row  *)
(* or the provider, and then acts on what it read: anything may happen     *)
(* between two of these steps.                                             *)
(***************************************************************************)
EXTENDS FilingWorkflow

CONSTANTS Reconcilers,   \* those at work: "scheduled", and operators
          MaxBackups,    \* bound: backups taken of the DBOS database
          MaxDeletes,    \* bound: rows deleted by reconcilers
          NoRow

VARIABLES passes,        \* reconciler -> the pass it is in
          backup,        \* the rows and messages in the last backup
          backups,       \* counters for the bounds
          deletes

reconciliationVars == <<passes, backup, backups, deletes>>
backupVars == <<backup, backups>>
rvars == <<filings, commands, reseeded, ledger, wf, mailbox, running, call,
           latePosts, lateCommands, asserted, resumes, losses,
           passes, backup, backups, deletes>>

ReconcilerDetail(r) ==
  IF r = "scheduled" THEN "resolved by scheduled reconciliation"
                     ELSE "resolved from completed provider operation"

ASSUME ReconciliationAssumption ==
  /\ \A r \in Reconcilers : ReconcilerDetail(r) \in Details
  /\ MaxBackups \in Nat /\ MaxDeletes \in Nat

Reconcilable == {"ready", "submitting", "submitted", "needs_review"}
Listed == [filing : Filings, state : Reconcilable, scenario : Scenarios \cup {"ok"}]

(* at is the next thing to do about row; due are the rows after it; outcome *)
(* is what the provider answered.                                           *)
NoPass == [at |-> "idle", due |-> {}, row |-> NoRow, outcome |-> ""]
Stages == {"idle", "next", "provider", "record", "delete", "start"}

RInit ==
  /\ Init
  /\ passes = [r \in Reconcilers |-> NoPass]
  /\ backup = [wf |-> wf, mailbox |-> mailbox]
  /\ backups = 0 /\ deletes = 0

Goes(r, pass) == passes' = [passes EXCEPT ![r] = pass]
Reached(r, stage) == [passes[r] EXCEPT !.at = stage]

(* Between two rows: what was read about the last one is dropped. *)
BetweenRows(due) == [at |-> "next", due |-> due, row |-> NoRow, outcome |-> ""]
NextRow(r) == BetweenRows(passes[r].due)

(* The scheduled pass is a workflow itself.  When the worker dies after a   *)
(* step and before its checkpoint, the recovered pass takes the step again; *)
(* a pass of an operator is gone with its process, see PassEnds.           *)
GoesOn(r, pass) == Goes(r, pass) \/ (r = "scheduled" /\ UNCHANGED passes)

At(r, stage) == passes[r].at = stage
Filing(r) == passes[r].row.filing
RecordRequest(r) == OutcomeRequest(Filing(r), passes[r].outcome, ReconcilerDetail(r))

-----------------------------------------------------------------------------
(* GET /filings?reconcilable=1: the rows that are not final.  The scheduled *)
(* pass asks only for those that have not changed for a while.              *)
Due == {[filing |-> f, state |-> filings[f].state, scenario |-> filings[f].scenario] :
          f \in {g \in Filings : filings[g].state \in Reconcilable}}

FetchDueRecords(r) ==
  /\ At(r, "idle")
  /\ \E rows \in SUBSET Due :
       /\ r # "scheduled" => rows = Due
       /\ Goes(r, BetweenRows(rows))
  /\ UNCHANGED <<vars, backupVars, deletes>>

(* Seeded faults: a cancelled workflow is taken for a failed one; reviews   *)
(* are left to the operator; only what has failed is started again.         *)
StageForUncancelled(row) ==
  CASE row.state = "needs_review" \/ wf[row.filing].status = "SUCCESS" -> "provider"
    [] row.state # "needs_review" /\ wf[row.filing].status \in {"ERROR", "CANCELLED"} -> "delete"
    [] row.state # "needs_review" /\ wf[row.filing].status = "absent" -> "start"
    [] OTHER -> "next"

StageForUnreviewed(row) ==
  CASE wf[row.filing].status = "SUCCESS" /\ row.state # "needs_review" -> "provider"
    [] wf[row.filing].status = "ERROR"   -> "delete"
    [] wf[row.filing].status = "absent"  -> "start"
    [] OTHER -> "next"

StageForUnstarted(row) ==
  CASE row.state = "needs_review" \/ wf[row.filing].status = "SUCCESS" -> "provider"
    [] row.state # "needs_review" /\ wf[row.filing].status = "ERROR" -> "delete"
    [] OTHER -> "next"

(* What the row of the list and the row of the workflow, read now, call     *)
(* for: a review or a successful history is settled by the provider, failed *)
(* or missing work is started, and everything else is only reported.        *)
StageFor(row) ==
  CASE row.state = "needs_review" -> "provider"
    [] row.state # "needs_review" /\ wf[row.filing].status = "SUCCESS" -> "provider"
    [] row.state # "needs_review" /\ wf[row.filing].status = "ERROR"   -> "delete"
    [] row.state # "needs_review" /\ wf[row.filing].status = "absent"  -> "start"
    [] OTHER -> "next"

LookAt(r) ==
  /\ At(r, "next")
  /\ \E row \in passes[r].due :
       Goes(r, [at |-> StageFor(row), due |-> passes[r].due \ {row},
                row |-> IF StageFor(row) = "next" THEN NoRow ELSE row,
                outcome |-> ""])
  /\ UNCHANGED <<vars, backupVars, deletes>>

(* Seeded fault: an unfinished operation is taken to be accepted. *)
AskProviderPresumed(r) ==
  /\ At(r, "provider")
  /\ Goes(r, [Reached(r, "record") EXCEPT
                !.outcome = IF ledger[ProviderOperationID(Filing(r))].status = "rejected"
                              THEN "rejected" ELSE "accepted"])
  /\ UNCHANGED <<vars, backupVars, deletes>>

(* GET /submissions/{id}: only a completed operation settles anything. *)
AskProvider(r) ==
  LET status == ledger[ProviderOperationID(Filing(r))].status IN
  /\ At(r, "provider")
  /\ Goes(r, IF status \in FinalStates
               THEN [Reached(r, "record") EXCEPT !.outcome = status]
               ELSE NextRow(r))
  /\ UNCHANGED <<vars, backupVars, deletes>>

(* POST /commands.  A refusal fails the whole pass: the rows after this one *)
(* are not looked at.                                                       *)
RecordOutcome(r) ==
  /\ At(r, "record")
  /\ \/ ApplyCommand(RecordRequest(r)) /\ GoesOn(r, NextRow(r))
     \/ Refused(RecordRequest(r)) /\ Goes(r, NoPass) /\ UNCHANGED accountableVars
  /\ UNCHANGED <<ledger, runtimeVars, lateVars, operatorVars, backupVars, deletes>>

(* DeleteWorkflows removes the row with its checkpoints and messages,       *)
(* whatever its status is by now.  An execution of it ends with its step.   *)
DeleteWorkflow(r) ==
  LET f == Filing(r) IN
  /\ At(r, "delete") /\ deletes < MaxDeletes
  /\ Abandon({f})
  /\ wf' = [wf EXCEPT ![f] = NoRun]
  /\ mailbox' = [mailbox EXCEPT ![f] = NoMessage]
  /\ running' = [running EXCEPT ![f] = FALSE]
  /\ call' = [call EXCEPT ![f] = Idle]
  /\ GoesOn(r, Reached(r, "start"))
  /\ deletes' = deletes + 1
  /\ UNCHANGED <<accountableVars, ledger, operatorVars, backupVars>>

(* RunWorkflow or Enqueue under the filing's id.  Where there is a row      *)
(* already this does nothing; an operator's pass may end with the conflict. *)
StartWorkflow(r) ==
  LET f == Filing(r) IN
  /\ At(r, "start")
  /\ \/ /\ wf[f].status = "absent"
        /\ wf' = [wf EXCEPT ![f] = [NoRun EXCEPT !.status = "ENQUEUED",
                                                 !.scenario = passes[r].row.scenario]]
        /\ GoesOn(r, NextRow(r))
     \/ /\ wf[f].status # "absent"
        /\ UNCHANGED wf
        /\ Goes(r, NextRow(r)) \/ (r # "scheduled" /\ Goes(r, NoPass))
  /\ UNCHANGED <<accountableVars, ledger, mailbox, running, call, lateVars,
                 operatorVars, backupVars, deletes>>

(* The list is done; or the process died, or a call failed once too often.  *)
(* A command under way may then still be served.                            *)
PassEnds(r) ==
  /\ ~At(r, "idle")
  /\ lateCommands' = lateCommands \cup
       (IF At(r, "record") THEN {RecordRequest(r)} ELSE {})
  /\ Goes(r, NoPass)
  /\ UNCHANGED <<accountableVars, ledger, runtimeVars, latePosts, operatorVars,
                 backupVars, deletes>>

(* The reply is lost and the scheduled pass sends its command again. *)
RecordAgain(r) ==
  /\ At(r, "record") /\ r = "scheduled"
  /\ lateCommands' = lateCommands \cup {RecordRequest(r)}
  /\ UNCHANGED <<accountableVars, ledger, runtimeVars, latePosts, operatorVars,
                 reconciliationVars>>

-----------------------------------------------------------------------------
(* The pass of the scheduler is a row of the DBOS database and is lost with *)
(* it: PassEnds comes first.                                                *)
SchedulerAtRest == \A r \in Reconcilers \cap {"scheduled"} : At(r, "idle")

TakeBackup ==
  /\ backups < MaxBackups
  /\ backup' = [wf |-> wf, mailbox |-> mailbox]
  /\ backups' = backups + 1
  /\ UNCHANGED <<vars, passes, deletes>>

(* The database is replaced by its last backup (dbos-database-loss.sh):     *)
(* what ran then is pending again, what came later never happened.          *)
RestoreBackup ==
  /\ losses < MaxLosses /\ backups > 0 /\ SchedulerAtRest
  /\ Abandon(Filings)
  /\ wf' = backup.wf
  /\ mailbox' = backup.mailbox
  /\ running' = [f \in Filings |-> FALSE]
  /\ call' = [f \in Filings |-> Idle]
  /\ losses' = losses + 1
  /\ UNCHANGED <<accountableVars, ledger, asserted, resumes, reconciliationVars>>

-----------------------------------------------------------------------------
FilingStep ==
  /\ Next
  /\ losses' # losses => SchedulerAtRest
  /\ UNCHANGED reconciliationVars

Pass(r) ==
  \/ FetchDueRecords(r) \/ LookAt(r) \/ AskProvider(r) \/ RecordOutcome(r)
  \/ DeleteWorkflow(r) \/ StartWorkflow(r) \/ PassEnds(r) \/ RecordAgain(r)

RNext ==
  \/ FilingStep
  \/ \E r \in Reconcilers : Pass(r)
  \/ TakeBackup
  \/ RestoreBackup

RSpec == RInit /\ [][RNext]_rvars
(* The scheduler comes back for ever (RECONCILE_CRON), and again and again  *)
(* its list has the filing, its calls get through and its checkpoints stay. *)
(* Nothing is assumed of the workflows or of the operator.                  *)
PassReaches(f) ==
  /\ SF_rvars(FetchDueRecords("scheduled")
                /\ \E row \in passes'["scheduled"].due : row.filing = f)
  /\ SF_rvars(LookAt("scheduled") /\ passes'["scheduled"].row # NoRow
                                 /\ passes'["scheduled"].row.filing = f)

PassSettles(f) ==
  /\ SF_rvars(AskProvider("scheduled") /\ Filing("scheduled") = f)
  /\ SF_rvars(RecordOutcome("scheduled") /\ Filing("scheduled") = f)

PassStarts(f) == SF_rvars(StartWorkflow("scheduled") /\ Filing("scheduled") = f)

ReconcilingSpec ==
  RSpec /\ WF_rvars(Pass("scheduled"))
        /\ \A f \in Filings : PassReaches(f) /\ PassSettles(f) /\ PassStarts(f)

-----------------------------------------------------------------------------
(* Properties *)

PassesTypeOK ==
  /\ passes \in [Reconcilers ->
       [at : Stages, due : SUBSET Listed, row : Listed \cup {NoRow},
        outcome : FinalStates \cup {""}]]
  /\ \A r \in Reconcilers :
       /\ passes[r].at \in Stages \ {"idle", "next"} => passes[r].row \in Listed
       /\ At(r, "record") => passes[r].outcome \in FinalStates
  /\ backup \in [wf      : [Filings -> Runs],
                 mailbox : [Filings -> Messages \cup {NoMessage}]]
  /\ backups \in 0..MaxBackups /\ deletes \in 0..MaxDeletes

(* What the provider answered to a pass is still what it would answer. *)
PassCarried ==
  \A r \in Reconcilers :
    At(r, "record") =>
      ledger[ProviderOperationID(Filing(r))].status = passes[r].outcome

(* Old as it is, a backup holds nothing untrue: the intents its checkpoints *)
(* rely on are booked and the outcomes it carries are vouched for.          *)
BackupCarried ==
  \A f \in Filings :
    /\ backup.wf[f].pc \in PreparedPcs => Prepared(f)
    /\ backup.wf[f].outcome \in FinalStates => Vouched(f, backup.wf[f].outcome)
    /\ backup.mailbox[f] # NoMessage /\ backup.mailbox[f].outcome \in FinalStates
         => Vouched(f, backup.mailbox[f].outcome)

(* The inductive invariant of the workflow with its reconcilers and its     *)
(* backups: the invariant of the workflow alone, and what passes and        *)
(* backups carry.                                                           *)
RInv == IInv /\ PassesTypeOK /\ PassCarried /\ BackupCarried

(* One refused command fails the whole pass (filing.go:392, opsctl          *)
(* main.go:237) and the filings after it are not looked at.  It is never a  *)
(* lasting state of affairs that does so: the filing has been finalised by  *)
(* somebody since it was listed, and is not listed again.                   *)
RefusedOnlyWhenSettled ==
  \A r \in Reconcilers :
    At(r, "record") /\ Refused(RecordRequest(r))
      => filings[Filing(r)].state \in FinalStates

(* What one reconciler, and nobody beside it, guarantees of                 *)
(* docs/PROOF_CONTRACT.md:36 ("recreate repairable ERROR histories, preserve *)
(* and escalate CANCELLED or stale active histories"): a workflow row goes  *)
(* away only when it had failed, although it was read some time before, or  *)
(* with the whole database.                                                 *)
OnlyFailedAreRecreated ==
  [][losses' = losses =>
       \A f \in Filings :
         wf[f].status # "absent" /\ wf'[f].status = "absent"
           => wf[f].status = "ERROR"]_rvars

(* Refuted, see the README.  docs/PROOF_CONTRACT.md:36: reconcilers         *)
(* "preserve and escalate CANCELLED" histories, whoever else starts         *)
(* workflows or reconciles at the time.                                     *)
CancellationIsPreserved ==
  [][losses' = losses =>
       \A f \in Filings :
         wf[f].status = "CANCELLED" => wf'[f].status # "absent"]_rvars

(* docs/PROOF_CONTRACT.md:35: a filing under review whose operation is      *)
(* decided is finalised, whatever died or failed meanwhile.                 *)
ReviewIsResolved ==
  \A f \in Filings :
    (/\ filings[f].state = "needs_review"
     /\ ledger[ProviderOperationID(f)].status \in FinalStates)
      ~> filings[f].state \in FinalStates

(* docs/PROOF_CONTRACT.md:34: work that the loss of the DBOS database took  *)
(* away is started again, or its filing is final or under review.           *)
LostWorkIsRecreated ==
  \A f \in Filings :
    (filings[f].state \in Reconcilable /\ wf[f].status = "absent")
      ~> \/ wf[f].status # "absent"
         \/ filings[f].state \in FinalStates \cup {"needs_review"}
=============================================================================
