---------------------------- MODULE Accountable ----------------------------
(***************************************************************************)
(* Accountable, the authoritative books (internal/accountable/server.go):  *)
(* the filings table and the log of idempotent commands.  A command and    *)
(* the transition it causes commit in one serializable transaction, so     *)
(* each is one atomic action here.                                         *)
(***************************************************************************)
EXTENDS Domain

CONSTANTS Details,      \* the free-text Detail of a command
          NoCommand     \* no command is stored under a key

VARIABLES filings,      \* filing -> its row, "absent" when there is none
          commands,     \* idempotency key -> the request stored under it
          reseeded      \* history: filings whose row was reset while it existed

accountableVars == <<filings, commands, reseeded>>

-----------------------------------------------------------------------------
(* Requests, as the clients in the repository build them. *)

commandTransitions ==
  [PrepareFilingSubmission |-> "submitting",
   MarkFilingSubmitted     |-> "submitted",
   MarkFilingAccepted      |-> "accepted",
   MarkFilingRejected      |-> "rejected",
   MarkFilingNeedsReview   |-> "needs_review"]

PrepareRequest(f, o) ==
  [key |-> SubmissionIntentCommandKey(WorkflowID(f)),
   type |-> "PrepareFilingSubmission", filing |-> f, op |-> o, detail |-> ""]

SubmittedRequest(f) ==
  [key |-> SubmittedCommandKey(WorkflowID(f)),
   type |-> "MarkFilingSubmitted", filing |-> f, op |-> NoOperation, detail |-> ""]

(* Seeded fault: a review uses up the key of the outcome. *)
OutcomeRequestOneKey(f, state, detail) ==
  [key |-> OutcomeCommandKey(WorkflowID(f)),
   type |-> CASE state = "accepted" -> "MarkFilingAccepted"
              [] state = "rejected" -> "MarkFilingRejected"
              [] OTHER              -> "MarkFilingNeedsReview",
   filing |-> f, op |-> NoOperation, detail |-> detail]

(* A final outcome and a review have different keys: a filing under review  *)
(* can still be finalised.                                                  *)
OutcomeRequest(f, state, detail) ==
  [key |-> IF state = "needs_review" THEN ReviewCommandKey(WorkflowID(f))
                                     ELSE OutcomeCommandKey(WorkflowID(f)),
   type |-> CASE state = "accepted" -> "MarkFilingAccepted"
              [] state = "rejected" -> "MarkFilingRejected"
              [] OTHER              -> "MarkFilingNeedsReview",
   filing |-> f, op |-> NoOperation, detail |-> detail]

Requests ==
  {PrepareRequest(f, o) : f \in Filings, o \in OperationIDs}
    \cup {SubmittedRequest(f) : f \in Filings}
    \cup {OutcomeRequest(f, s, d) :
            f \in Filings, s \in FinalStates \cup {"needs_review"}, d \in Details}

ASSUME AccountableAssumption == NoCommand \notin Requests

-----------------------------------------------------------------------------
AbsentRow == [state |-> "absent", scenario |-> "ok", op |-> NoOperation]

Rows == [state    : FilingStates \cup {"absent"},
         scenario : Scenarios \cup {"ok"},
         op       : OperationIDs \cup {NoOperation}]

AccountableInit ==
  /\ filings = [f \in Filings |-> AbsentRow]
  /\ commands = [k \in CommandKeys |-> NoCommand]
  /\ reseeded = {}

(* Seeded faults, one line away from the code: each run shows that its      *)
(* properties notice them.  Nothing uses these definitions.                 *)
CommandAllowsStateTooEarly(type, state) ==
  CASE type \in {"PrepareFilingSubmission", "MarkFilingSubmitted"} ->
         state \in {"ready", "submitting"}
    [] OTHER -> state \in {"submitting", "submitted", "needs_review"}

CommandAllowsStateReopened(type, state) ==
  CASE type = "PrepareFilingSubmission" -> state \in {"ready", "submitting"}
    [] type = "MarkFilingSubmitted"     -> state = "submitting"
    [] OTHER -> state \notin {"absent", "ready"}

CommandAllowsState(type, state) ==
  CASE type = "PrepareFilingSubmission" -> state \in {"ready", "submitting"}
    [] type = "MarkFilingSubmitted"     -> state = "submitting"
    [] OTHER -> state \in {"submitting", "submitted", "needs_review"}

(* Seeded fault: no unique index. *)
OperationFreeHere(f, o) == filings[f].op \in {NoOperation, o}

(* The UPDATE of a PrepareFilingSubmission sets the provider operation only *)
(* where there is none or the same one, and a unique index keeps two        *)
(* filings from holding one operation.                                      *)
OperationFree(f, o) ==
  /\ filings[f].op \in {NoOperation, o}
  /\ \A g \in Filings \ {f} : filings[g].op # o

(* The key is new, the filing exists and its state admits the command. *)
Applies(req) ==
  /\ commands[req.key] = NoCommand
  /\ CommandAllowsState(req.type, filings[req.filing].state)
  /\ req.type = "PrepareFilingSubmission" => OperationFree(req.filing, req.op)

(* The key holds this very request, field by field: the stored result is    *)
(* returned and only duplicate_attempts, which nothing reads back, moves.   *)
Replays(req) == commands[req.key] = req

(* The transition, and for an intent the operation, are booked with the     *)
(* command in one transaction.                                              *)
BookedRow(req) ==
  [state    |-> commandTransitions[req.type],
   scenario |-> filings[req.filing].scenario,
   op       |-> IF req.type = "PrepareFilingSubmission"
                  THEN req.op ELSE filings[req.filing].op]

(* Seeded faults: the command is not logged, or under one key per filing. *)
TakeEffectUnlogged(req) ==
  /\ Applies(req)
  /\ filings' = [filings EXCEPT ![req.filing] = BookedRow(req)]
  /\ UNCHANGED <<commands, reseeded>>

TakeEffectOneKey(req) ==
  /\ Applies(req)
  /\ filings' = [filings EXCEPT ![req.filing] = BookedRow(req)]
  /\ commands' = [commands EXCEPT
                    ![SubmissionIntentCommandKey(WorkflowID(req.filing))] = req]
  /\ UNCHANGED reseeded

TakeEffect(req) ==
  /\ Applies(req)
  /\ filings' = [filings EXCEPT ![req.filing] = BookedRow(req)]
  /\ commands' = [commands EXCEPT ![req.key] = req]
  /\ UNCHANGED reseeded

(* A new effect, or a replay.  Every other request is an error that leaves  *)
(* the tables alone: see Refused.                                           *)
ApplyCommand(req) ==
  \/ TakeEffect(req)
  \/ Replays(req) /\ UNCHANGED accountableVars

(* 409 for a key used for something else or a state that does not admit the *)
(* command, 500 for a missing filing or a taken operation.                  *)
Refused(req) == ~Applies(req) /\ ~Replays(req)

(* PUT /filings/{id} and each row of POST /seed: an upsert that puts an     *)
(* existing row back to ready and forgets its operation.  The command log   *)
(* is not touched.                                                          *)
PutFiling(f, s) ==
  /\ filings' = [filings EXCEPT ![f] =
                   [state |-> "ready", scenario |-> s, op |-> NoOperation]]
  /\ reseeded' = IF filings[f].state = "absent" THEN reseeded ELSE reseeded \cup {f}
  /\ UNCHANGED commands

AccountableNext ==
  \/ \E f \in Filings, s \in Scenarios : PutFiling(f, s)
  \/ \E req \in Requests : ApplyCommand(req)

AccountableSpec == AccountableInit /\ [][AccountableNext]_accountableVars

-----------------------------------------------------------------------------
(* Every variable has its type: rows of the filings table, and under each   *)
(* key of domain_commands a request that carries that key.                  *)
AccountableTypeOK ==
  /\ filings \in [Filings -> Rows]
  /\ commands \in [CommandKeys -> Requests \cup {NoCommand}]
  /\ \A k \in CommandKeys : commands[k] # NoCommand => commands[k].key = k
  /\ reseeded \subseteq Filings

(* No two filings ever hold the same provider operation, whatever operation *)
(* ids PrepareFilingSubmission commands ask for in whatever order: one      *)
(* external effect is never booked on two filings.                          *)
OperationOwnedOnce ==
  \A f, g \in Filings :
    (f # g /\ filings[f].op # NoOperation) => filings[f].op # filings[g].op

Logged(f, key) == commands[key] # NoCommand

(* What the log of commands says the state of a seeded filing must be. *)
LoggedState(f) ==
  LET w == WorkflowID(f)
  IN  CASE Logged(f, OutcomeCommandKey(w)) ->
             commandTransitions[commands[OutcomeCommandKey(w)].type]
        [] ~Logged(f, OutcomeCommandKey(w)) /\ Logged(f, ReviewCommandKey(w)) ->
             "needs_review"
        [] /\ ~Logged(f, OutcomeCommandKey(w))
           /\ ~Logged(f, ReviewCommandKey(w))
           /\ Logged(f, SubmittedCommandKey(w)) ->
             "submitted"
        [] /\ ~Logged(f, OutcomeCommandKey(w))
           /\ ~Logged(f, ReviewCommandKey(w))
           /\ ~Logged(f, SubmittedCommandKey(w))
           /\ Logged(f, SubmissionIntentCommandKey(w)) ->
             "submitting"
        [] OTHER -> "ready"

(* Nothing is ever logged for a filing before its submission intent.  So a  *)
(* filing that was reset after its intent stays ready: the replay of the    *)
(* intent has no effect, and no other command is allowed.                   *)
IntentLoggedFirst ==
  \A f \in Filings :
    LET w == WorkflowID(f) IN
    (\E key \in {SubmittedCommandKey(w), OutcomeCommandKey(w), ReviewCommandKey(w)} :
       Logged(f, key)) => Logged(f, SubmissionIntentCommandKey(w))

(* The books and the command log agree: the state of a filing is the one    *)
(* its applied commands lead to.  The one exception is a filing that was    *)
(* reset, which is then ready whatever its log says.                        *)
StateExplainedByCommands ==
  \A f \in Filings :
    \/ filings[f].state = LoggedState(f)
    \/ filings[f].state = "absent" /\ LoggedState(f) = "ready"
    \/ filings[f].state = "ready" /\ f \in reseeded

Rank ==
  [absent |-> 0, ready |-> 1, submitting |-> 2, submitted |-> 3,
   needs_review |-> 4, accepted |-> 5, rejected |-> 5]

(* A row changes in one of two ways only: PUT or seed makes it ready, or a  *)
(* command logged in the same step, under a key that was free, moves it     *)
(* strictly forward.  A final state is therefore never left or swapped for  *)
(* the other one, a replay has no effect, and no logged command is ever     *)
(* rewritten.                                                               *)
EffectsAreLoggedAndForward ==
  [][/\ \A k \in CommandKeys :
          commands[k] # NoCommand => commands'[k] = commands[k]
     /\ \A f \in Filings :
          filings'[f] # filings[f] =>
            \/ /\ filings'[f].state = "ready"
               /\ filings[f].state = "absent" \/ f \in reseeded'
            \/ /\ Rank[filings'[f].state] > Rank[filings[f].state]
               /\ \E k \in CommandKeys :
                    /\ commands[k] = NoCommand
                    /\ commands'[k] # NoCommand
                    /\ commands'[k].filing = f
    ]_accountableVars
=============================================================================
