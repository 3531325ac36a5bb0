---------------------------- MODULE SecondExecution ----------------------------
(***************************************************************************)
(* Two executions of one workflow.  opsctl resume (cmd/opsctl/main.go:96)  *)
(* puts a cancelled workflow back into the queue while the execution that  *)
(* was cancelled is still inside a step: a worker dequeues it and both go  *)
(* on from the same checkpoints.                                           *)
(*                                                                         *)
(* DBOS keeps one history.  Of two executions at a step, the first to      *)
(* checkpoint it goes on; in FilingWorkflow, running and call are those of *)
(* the one that wins the step at hand.  The other one follows: it may send *)
(* the request of the step too, and then DBOS refuses its checkpoint.      *)
(* Most steps return that error and the execution is over.  Two do not:    *)
(* filing.go:189 takes it for exhausted submit retries and books a review, *)
(* filing.go:278 takes it for a timeout of dbos.Recv and polls on.  Such   *)
(* an execution has gone astray: it goes on by itself, and its checkpoints *)
(* get into the history of the other one.                                  *)
(*                                                                         *)
(* The history itself is not modelled.  Where it may be mixed, an          *)
(* execution may find at any step a result of the other one, be refused or *)
(* go on as usual, which allows more than any one history does.            *)
(***************************************************************************)
EXTENDS FilingWorkflow

VARIABLES other,    \* filing -> where the execution beside the winner is
          mixed     \* filing -> the history may hold steps of a stray one

svars == <<filings, commands, reseeded, ledger, wf, mailbox, running, call,
           latePosts, lateCommands, asserted, resumes, losses, other, mixed>>

(* There is no other execution, or it follows the winner, has gone astray   *)
(* at one of the two steps, or has recorded an outcome after that.          *)
Astray == {"submit", "recv"}
Others == {"none", "follows", "recorded"} \cup Astray

SInit == /\ Init
         /\ other = [f \in Filings |-> "none"]
         /\ mixed = [f \in Filings |-> FALSE]

-----------------------------------------------------------------------------
(* An execution that follows ends with the winner's; nothing is left beside *)
(* a row that is lost.                                                      *)
Beside ==
  /\ other' = [f \in Filings |->
       IF \/ other[f] = "follows" /\ ~running'[f]
          \/ wf'[f].status = "absent"
         THEN "none" ELSE other[f]]
  /\ mixed' = [f \in Filings |-> mixed[f] /\ wf'[f].status # "absent"]

-----------------------------------------------------------------------------
(* A worker dequeues the resumed workflow.  Either execution may be the one *)
(* that wins the step at hand: if it is the new one, the call of the old    *)
(* one has lost its listener.                                               *)
SecondBegin(f) ==
  /\ running[f] /\ wf[f].status = "ENQUEUED" /\ other[f] = "none"
  /\ wf[f].attempts <= MaxRecovery
  /\ wf' = [wf EXCEPT ![f].status = "PENDING", ![f].attempts = @ + 1]
  /\ \/ Abandon({f}) /\ call' = [call EXCEPT ![f] = Idle]
     \/ UNCHANGED <<lateVars, call>>
  /\ other' = [other EXCEPT ![f] = "follows"]
  /\ UNCHANGED <<accountableVars, ledger, mailbox, running, operatorVars, mixed>>

(* The loser of the step at hand sends its request too. *)
SecondSends(f) ==
  /\ other[f] = "follows" /\ Active(f)
  /\ \/ wf[f].pc \in PostSteps /\ latePosts' = latePosts \cup {Post(f)}
        /\ UNCHANGED lateCommands
     \/ wf[f].pc \in CommandSteps /\ lateCommands' = lateCommands \cup {Command(f)}
        /\ UNCHANGED latePosts
  /\ UNCHANGED <<accountableVars, ledger, runtimeVars, operatorVars, other, mixed>>

GoAstray(f) ==
  /\ wf[f].pc \in Astray
  /\ other' = [other EXCEPT ![f] = wf[f].pc]
  /\ mixed' = [mixed EXCEPT ![f] = TRUE]

(* The loser is refused its checkpoint and does not stop. *)
SecondStrays(f) ==
  /\ other[f] = "follows" /\ Active(f)
  /\ GoAstray(f)
  /\ UNCHANGED vars

(* A cancelled execution was refused the step (StopCancelled), did not stop *)
(* and comes to its next step when the workflow has been resumed.           *)
ResumeAstray(f) ==
  /\ running[f] /\ wf[f].status = "CANCELLED" /\ call[f].phase = "idle"
  /\ other[f] = "none" /\ GoAstray(f)
  /\ resumes < MaxResumes
  /\ wf' = [wf EXCEPT ![f].status = "ENQUEUED", ![f].attempts = 0]
  /\ running' = [running EXCEPT ![f] = FALSE]
  /\ resumes' = resumes + 1
  /\ UNCHANGED <<accountableVars, ledger, mailbox, call, lateVars, asserted, losses>>

(* The messages sent for a filing so far, consumed or not. *)
Sent(f) ==
  {[outcome |-> o, detail |-> "via operator"] : o \in asserted[f]} \cup
  {[outcome |-> o, detail |-> "via callback"] :
     o \in {"accepted"} \cap {ledger[ProviderOperationID(f)].status}}

(* Seeded fault: what the authority has not decided yet counts as accepted. *)
FoundPresumed(f) ==
  IF other[f] = "submit"
    THEN {[outcome |-> "needs_review", detail |-> "submit refused by DBOS"]}
    ELSE {[outcome |-> "accepted", detail |-> "via status poll"]}

(* What an execution that has gone astray records: a review at once, or     *)
(* what it finds by receiving and polling until it has polled enough.  The  *)
(* rounds that find nothing have no effect and are not counted.             *)
Found(f) ==
  IF other[f] = "submit"
    THEN {[outcome |-> "needs_review", detail |-> "submit refused by DBOS"]}
    ELSE Sent(f) \cup
         {[outcome |-> o, detail |-> "via status poll"] :
            o \in FinalStates \cap {ledger[ProviderOperationID(f)].status}} \cup
         {[outcome |-> "needs_review",
           detail |-> "no callback and authority still processing"]}

(* It does so by a command of its own, or it finds the step in the history. *)
StrayRecords(f) ==
  /\ other[f] \in Astray
  /\ \/ \E found \in Found(f) :
          ApplyCommand(OutcomeRequest(f, mapOutcome(found.outcome), found.detail))
     \/ UNCHANGED accountableVars
  /\ other' = [other EXCEPT ![f] = "recorded"]
  /\ UNCHANGED <<ledger, runtimeVars, lateVars, operatorVars, mixed>>

(* The other execution ends: a step of it failed, it noticed the conflict,  *)
(* it died, or it returned.  One that has gone astray then ends the row,    *)
(* with SUCCESS only after it recorded its outcome.                         *)
SecondEnds(f) ==
  /\ other[f] # "none"
  /\ \/ UNCHANGED wf
     \/ /\ other[f] # "follows" /\ wf[f].status # "CANCELLED"
        /\ \E status \in {"SUCCESS", "ERROR"} :
             /\ status = "SUCCESS" => other[f] = "recorded"
             /\ wf' = [wf EXCEPT ![f].status = status]
  /\ other' = [other EXCEPT ![f] = "none"]
  /\ UNCHANGED <<accountableVars, ledger, mailbox, running, call, lateVars,
                 operatorVars, mixed>>

-----------------------------------------------------------------------------
(* What a mixed history may make of the winner's step: it finds a result of *)
(* the other execution there, or is refused as that one was.                *)
Diversions(f) ==
  CASE wf[f].pc = "submit" ->
         {Outcome(f, "record", "needs_review", "submit refused by DBOS")}
    [] wf[f].pc = "recv" ->
         {GoTo(f, "pollStatus")} \cup
         {Outcome(f, "recordFinal", m.outcome, m.detail) : m \in Sent(f)}
    [] wf[f].pc = "pollStatus" ->
         {GoTo(f, "raise"),
          IF wf[f].polls + 1 < StatusPolls
            THEN [wf[f] EXCEPT !.polls = @ + 1, !.pc = "recv"]
            ELSE Outcome(f, "recordFinal", "needs_review",
                         "no callback and authority still processing")}
    [] wf[f].pc = "recordFinal" -> {GoTo(f, "raise"), GoTo(f, "reconcileFinal")}
    [] wf[f].pc \in {"record", "reconcileFinal"} -> {GoTo(f, "raise"), GoTo(f, "return")}
    [] OTHER -> {GoTo(f, "raise")}

Divert(f) ==
  /\ Active(f) /\ mixed[f] /\ wf[f].pc \notin {"return", "raise"}
  /\ \E run \in Diversions(f) : wf' = [wf EXCEPT ![f] = run]
  /\ Abandon({f})
  /\ call' = [call EXCEPT ![f] = Idle]
  /\ UNCHANGED <<accountableVars, ledger, mailbox, running, operatorVars, other, mixed>>

(* Refused a checkpoint, it waits for the result of the other execution. *)
Yield(f) ==
  /\ Active(f) /\ mixed[f]
  /\ Abandon({f})
  /\ running' = [running EXCEPT ![f] = FALSE]
  /\ call' = [call EXCEPT ![f] = Idle]
  /\ UNCHANGED <<accountableVars, ledger, wf, mailbox, operatorVars>>

-----------------------------------------------------------------------------
SNext ==
  \/ (Next \/ \E f \in Filings : Yield(f)) /\ Beside
  \/ \E f \in Filings :
       \/ SecondBegin(f) \/ SecondSends(f) \/ SecondStrays(f) \/ ResumeAstray(f)
       \/ StrayRecords(f) \/ SecondEnds(f) \/ Divert(f)

SSpec == SInit /\ [][SNext]_svars

(* The winner goes on, as an execution alone does; nothing is assumed of    *)
(* the other one.                                                           *)
SFairSpec ==
  SSpec /\ \A f \in Filings : WF_svars((Progress(f) /\ Beside) \/ Divert(f))

-----------------------------------------------------------------------------
(* Another execution has a row, and one that follows has a winner.          *)
SecondFits ==
  /\ other \in [Filings -> Others]
  /\ mixed \in [Filings -> BOOLEAN]
  /\ \A f \in Filings :
       /\ other[f] = "follows" => running[f]
       /\ other[f] # "none" => wf[f].status # "absent"

(* The inductive invariant of the workflow survives a second execution.     *)
SInv == IInv /\ SecondFits

(* What the other execution has left to do. *)
OtherLeft(f) ==
  CASE other[f] = "follows" -> 3 [] other[f] \in Astray -> 2
    [] other[f] = "recorded" -> 1 [] OTHER -> 0

BothRun(f) ==
  \/ RunsDown(f) /\ other'[f] = other[f]
  \/ Less(WorkLeft(f)', WorkLeft(f))
  \/ WorkLeft(f)' = WorkLeft(f) /\ OtherLeft(f)' < OtherLeft(f)

(* Two executions of a workflow do not keep each other going: whatever      *)
(* happens to either takes from what the two have left to do, so that a     *)
(* resumed workflow, too, does only so much between two interventions.      *)
BothRunDown == [][\A f \in Filings : BothRun(f)]_svars
=============================================================================
