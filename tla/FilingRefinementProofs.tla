----------------------- MODULE FilingRefinementProofs -----------------------
(***************************************************************************)
(* What the filing workflow implements: the filing contract, the books by  *)
(* themselves and the provider's ledger by itself, for every set of        *)
(* filings and every bound.                                                *)
(***************************************************************************)
EXTENDS FilingWorkflowProofs

Book == [f \in Filings |-> filings[f].state]
Effect == [f \in Filings |-> ledger[ProviderOperationID(f)].status]

ContractStep == [Contract!ContractNext]_(Contract!contractVars)

-----------------------------------------------------------------------------
(* Steps of the contract, told by what they do to book and effect. *)

LEMMA BookStep ==
  ASSUME NEW f \in Filings, NEW s, Book' = [Book EXCEPT ![f] = s],
         UNCHANGED <<ledger, asserted>>,
         \/ Book[f] = s
         \/ Book[f] = "absent" /\ s = "ready"
         \/ Book[f] = "ready" /\ s = "submitting"
         \/ Book[f] = "submitting" /\ s = "submitted"
         \/ Book[f] \in {"submitting", "submitted"} /\ s = "needs_review"
         \/ /\ Book[f] \in {"submitting", "submitted", "needs_review"}
            /\ s \in FinalStates /\ Vouched(f, s)
  PROVE  ContractStep
<1>1. Effect' = Effect
  BY DEF Effect
<1>2. CASE Book[f] = s
  <2>1. Book' = Book
    BY <1>2 DEF Book
  <2>. QED BY <1>1, <2>1 DEF ContractStep, Contract!contractVars, Book, Effect
<1>3. CASE Book[f] = "absent" /\ s = "ready"
  BY <1>1, <1>3 DEF ContractStep, Contract!ContractNext, Contract!Enter, Book, Effect
<1>4. CASE Book[f] = "ready" /\ s = "submitting"
  BY <1>1, <1>4 DEF ContractStep, Contract!ContractNext, Contract!Intend, Book, Effect
<1>5. CASE Book[f] = "submitting" /\ s = "submitted"
  BY <1>1, <1>5 DEF ContractStep, Contract!ContractNext, Contract!MarkSubmitted, Book, Effect
<1>6. CASE Book[f] \in {"submitting", "submitted"} /\ s = "needs_review"
  BY <1>1, <1>6 DEF ContractStep, Contract!ContractNext, Contract!Review, Book, Effect
<1>7. CASE /\ Book[f] \in {"submitting", "submitted", "needs_review"}
           /\ s \in FinalStates /\ Vouched(f, s)
  <2>1. Effect[f] = s \/ s \in asserted[f]
    BY <1>7 DEF Vouched, Effect
  <2>2. Contract!Finalise(f, s)
    BY <1>1, <1>7, <2>1 DEF Contract!Finalise, Contract!Final, FinalStates, Book, Effect
  <2>3. s \in Contract!Final
    BY <1>7 DEF Contract!Final, FinalStates
  <2>. QED BY <2>2, <2>3 DEF ContractStep, Contract!ContractNext
<1>. QED BY <1>2, <1>3, <1>4, <1>5, <1>6, <1>7

LEMMA EffectStep ==
  ASSUME NEW f \in Filings, NEW s, Effect' = [Effect EXCEPT ![f] = s],
         UNCHANGED <<filings, asserted>>,
         \/ /\ Book[f] \notin {"absent", "ready"}
            /\ Effect[f] = "not_found" /\ s \in {"processing", "rejected"}
         \/ Effect[f] = "processing" /\ s = "accepted"
  PROVE  ContractStep
<1>1. Book' = Book
  BY DEF Book
<1>2. CASE /\ Book[f] \notin {"absent", "ready"}
           /\ Effect[f] = "not_found" /\ s \in {"processing", "rejected"}
  BY <1>1, <1>2 DEF ContractStep, Contract!ContractNext, Contract!File, Book, Effect
<1>3. CASE Effect[f] = "processing" /\ s = "accepted"
  BY <1>1, <1>3 DEF ContractStep, Contract!ContractNext, Contract!Decide, Book, Effect
<1>. QED BY <1>2, <1>3

LEMMA QuietStep ==
  ASSUME UNCHANGED <<filings, ledger, asserted>>
  PROVE  ContractStep
BY DEF ContractStep, Contract!contractVars

-----------------------------------------------------------------------------
(* The actions that move the books or the ledger. *)

(* A row that changes is a move of the book of its filing. *)
LEMMA RowStep ==
  ASSUME TypeOK, NEW f \in Filings, NEW row, filings' = [filings EXCEPT ![f] = row],
         NEW s, row.state = s
  PROVE  Book' = [Book EXCEPT ![f] = s] /\ Book[f] = filings[f].state
BY DEF TypeOK, AccountableTypeOK, Book

LEMMA SeedContract ==
  ASSUME IInv, NEW f \in Filings, NEW s \in Scenarios, SeedFiling(f, s)
  PROVE  ContractStep
<1>1. PICK row : row = [state |-> "ready", scenario |-> s, op |-> NoOperation]
  OBVIOUS
<1>2. PICK st : st = "ready"
  OBVIOUS
<1>3. /\ filings' = [filings EXCEPT ![f] = row] /\ row.state = st
      /\ filings[f].state = "absent" /\ UNCHANGED <<ledger, asserted>>
  BY <1>1, <1>2 DEF SeedFiling, PutFiling, operatorVars
<1>4. Book' = [Book EXCEPT ![f] = st] /\ Book[f] = filings[f].state
  <2>1. TypeOK
    BY DEF IInv
  <2>2. filings' = [filings EXCEPT ![f] = row] /\ row.state = st
    BY <1>3
  <2>. QED BY <2>1, <2>2, RowStep
<1>. QED BY <1>2, <1>3, <1>4, BookStep

(* A command moves the book as the contract allows, in the state it is      *)
(* allowed in, and a final one only with an outcome somebody vouches for.   *)
LEMMA ApplyContract ==
  ASSUME IInv, NEW req \in Requests, CommandTrue(req), ApplyCommand(req),
         UNCHANGED <<ledger, asserted>>
  PROVE  ContractStep
<1> DEFINE f == req.filing
           row == BookedRow(req)
           s == commandTransitions[req.type]
<1>1. CASE TakeEffect(req)
  <2>1. f \in Filings
    BY RequestShape
  <2>2. /\ filings' = [filings EXCEPT ![f] = row]
        /\ CommandAllowsState(req.type, filings[f].state)
    BY <1>1 DEF TakeEffect, Applies
  <2>3. row.state = s
    BY DEF BookedRow
  <2>4. Book' = [Book EXCEPT ![f] = s] /\ Book[f] = filings[f].state
    <3>. HIDE DEF row, s, f
    <3>. QED BY <2>1, <2>2, <2>3, RowStep DEF IInv
  <2>5. s \in FinalStates => Vouched(f, s)
    BY DEF CommandTrue
  <2>6. \/ Book[f] = s
        \/ Book[f] = "ready" /\ s = "submitting"
        \/ Book[f] = "submitting" /\ s = "submitted"
        \/ Book[f] \in {"submitting", "submitted"} /\ s = "needs_review"
        \/ /\ Book[f] \in {"submitting", "submitted", "needs_review"}
           /\ s \in FinalStates
    BY <2>2, <2>4, RequestShape DEF CommandAllowsState, commandTransitions, FinalStates
  <2>. QED BY <2>1, <2>4, <2>5, <2>6, BookStep
<1>2. CASE UNCHANGED accountableVars
  BY <1>2, QuietStep DEF accountableVars
<1>. QED BY <1>1, <1>2 DEF ApplyCommand

LEMMA CommandContract ==
  ASSUME IInv, NEW f \in Filings, HandleCommand(f)
  PROVE  ContractStep
<1>1. UNCHANGED <<ledger, asserted>> /\ wf[f].pc \in CommandSteps
  BY DEF HandleCommand, Answer, operatorVars
<1>2. CASE ApplyCommand(Command(f))
  <2>1. PICK req : req = Command(f)
    OBVIOUS
  <2>2. /\ req \in Requests /\ req.filing = f
        /\ req.type = "PrepareFilingSubmission" => req.op = ProviderOperationID(f)
        /\ commandTransitions[req.type] \in FinalStates
             => commandTransitions[req.type] = wf[f].outcome
    BY <1>1, <2>1, CommandIsRequest DEF IInv
  <2>3. CommandTrue(req)
    BY <2>2, IInvWorld DEF CommandTrue
  <2>4. ApplyCommand(req)
    BY <1>2, <2>1
  <2>. QED BY <1>1, <2>2, <2>3, <2>4, ApplyContract
<1>3. CASE UNCHANGED accountableVars
  BY <1>1, <1>3, QuietStep DEF accountableVars
<1>. QED BY <1>2, <1>3 DEF HandleCommand

(* An entry that changes is a move of the effect of its filing. *)
LEMMA EntryStep ==
  ASSUME TypeOK, NEW f \in Filings, NEW entry,
         ledger' = [ledger EXCEPT ![ProviderOperationID(f)] = entry],
         NEW s, entry.status = s
  PROVE  /\ Effect' = [Effect EXCEPT ![f] = s]
         /\ Effect[f] = ledger[ProviderOperationID(f)].status
<1>1. /\ \A g \in Filings : g # f =>
           ledger'[ProviderOperationID(g)] = ledger[ProviderOperationID(g)]
      /\ ledger'[ProviderOperationID(f)] = entry
  BY OperationInjective DEF TypeOK, LedgerTypeOK, OperationIDs
<1>2. \A g \in Filings :
        ledger'[ProviderOperationID(g)].status = [Effect EXCEPT ![f] = s][g]
  BY <1>1 DEF Effect
<1>. QED BY <1>2 DEF Effect

(* A submission is only served for a prepared filing, and then its book has *)
(* left ready.                                                              *)
LEMMA SubmitContract ==
  ASSUME IInv, NEW f \in Filings, Prepared(f), NEW s \in Scenarios \cup {"ok"}, NEW reply,
         Submit(ProviderOperationID(f), s, reply), UNCHANGED <<filings, asserted>>
  PROVE  ContractStep
<1> DEFINE o == ProviderOperationID(f)
<1>1. o \in OperationIDs
  BY DEF OperationIDs
<1>2. CASE ledger' = ledger
  BY <1>2, QuietStep
<1>3. CASE /\ ~Known(o)
           /\ \E status \in {"processing", "rejected"} :
                ledger' = [ledger EXCEPT ![o] = [status |-> status, scenario |-> s]]
  <2>1. PICK status \in {"processing", "rejected"} :
          ledger' = [ledger EXCEPT ![o] = [status |-> status, scenario |-> s]]
    BY <1>3
  <2>2. PICK entry : entry = [status |-> status, scenario |-> s]
    OBVIOUS
  <2>3. entry.status = status
    BY <2>2
  <2>4. Effect' = [Effect EXCEPT ![f] = status] /\ Effect[f] = "not_found"
    <3>1. ledger' = [ledger EXCEPT ![ProviderOperationID(f)] = entry]
      BY <2>1, <2>2
    <3>2. Effect' = [Effect EXCEPT ![f] = status] /\ Effect[f] = ledger[o].status
      BY <2>3, <3>1, EntryStep DEF IInv
    <3>. QED BY <1>3, <3>2 DEF Known
  <2>5. Book[f] \notin {"absent", "ready"}
    BY IInvWorld, DomainAssumption, <1>1 DEF WorldTrue, Prepared, Book
  <2>. QED BY <2>4, <2>5, EffectStep
<1>. QED BY <1>1, <1>2, <1>3, SubmitEffect DEF IInv, TypeOK

LEMMA SubmissionsContract ==
  ASSUME IInv, \/ \E f \in Filings : HandleSubmit(f)
               \/ \E p \in latePosts : HandleLatePost(p)
  PROVE  ContractStep
<1>1. ASSUME NEW f \in Filings, HandleSubmit(f)
      PROVE  ContractStep
  <2>1. /\ \E reply : Submit(ProviderOperationID(f), wf[f].scenario, reply)
        /\ UNCHANGED <<filings, asserted>> /\ wf[f].pc \in PostSteps
    BY <1>1 DEF HandleSubmit, Answer, accountableVars, operatorVars
  <2>2. Prepared(f)
    BY <2>1, IInvWorld, PcFacts DEF PostSteps
  <2>3. wf[f].scenario \in Scenarios \cup {"ok"}
    BY DEF IInv, TypeOK, Runs
  <2>. QED BY <2>1, <2>2, <2>3, SubmitContract
<1>2. ASSUME NEW p \in latePosts, HandleLatePost(p)
      PROVE  ContractStep
  <2>1. /\ \E reply : Submit(ProviderOperationID(p.filing), p.scenario, reply)
        /\ UNCHANGED <<filings, asserted>>
    BY <1>2 DEF HandleLatePost, accountableVars, operatorVars
  <2>2. p.filing \in Filings /\ Prepared(p.filing) /\ p.scenario \in Scenarios \cup {"ok"}
    BY IInvWorld DEF IInv, TypeOK, Posts
  <2>. QED BY <2>1, <2>2, SubmitContract
<1>. QED BY <1>1, <1>2

LEMMA CompleteContract ==
  ASSUME IInv, NEW f \in Filings, CompleteOperation(f)
  PROVE  ContractStep
<1> DEFINE o == ProviderOperationID(f)
<1>1. PICK entry : entry = [ledger[o] EXCEPT !.status = "accepted"]
  OBVIOUS
<1>2. PICK st : st = "accepted"
  OBVIOUS
<1>3. /\ ledger[o].status = "processing" /\ ledger' = [ledger EXCEPT ![o] = entry]
      /\ UNCHANGED <<filings, asserted>>
  BY <1>1 DEF CompleteOperation, Complete, accountableVars, operatorVars
<1>4. entry.status = st
  BY <1>1, <1>2 DEF IInv, TypeOK, LedgerTypeOK, OperationIDs
<1>5. Effect' = [Effect EXCEPT ![f] = st] /\ Effect[f] = ledger[o].status
  <2>1. TypeOK
    BY DEF IInv
  <2>2. ledger' = [ledger EXCEPT ![ProviderOperationID(f)] = entry]
    BY <1>3
  <2>. QED BY <1>4, <2>1, <2>2, EntryStep
<1>. QED BY <1>2, <1>3, <1>5, EffectStep

LEMMA SendContract ==
  ASSUME NEW f \in Filings, NEW outcome \in OperatorOutcomes, OperatorSend(f, outcome)
  PROVE  ContractStep
<1>1. /\ asserted' = [asserted EXCEPT ![f] = @ \cup {outcome}]
      /\ UNCHANGED <<filings, ledger>>
  BY DEF OperatorSend, accountableVars
<1>. QED BY <1>1 DEF ContractStep, Contract!ContractNext, Contract!Assert

-----------------------------------------------------------------------------
(* Every other action leaves books, ledger and assertions alone. *)

Quiet == UNCHANGED <<filings, ledger, asserted>>

LEMMA CheckpointQuiet ==
  ASSUME NEW f, NEW run, Checkpoint(f, run)
  PROVE  Quiet
BY DEF Checkpoint, Quiet, accountableVars, operatorVars

LEMMA AfterQuiet ==
  ASSUME NEW f \in Filings,
         \/ FailStep(f) \/ AfterValidate(f) \/ AfterPrepare(f) \/ AfterFindExisting(f)
         \/ AfterSubmit(f) \/ AfterResolveAmbiguous(f) \/ AfterResubmit(f)
         \/ AfterMarkSubmitted(f) \/ Recv(f) \/ RecvTimeout(f) \/ AfterPollStatus(f)
         \/ AfterRecordOutcome(f) \/ AfterReconcileFinal(f)
  PROVE  Quiet
<1>1. \E run : Checkpoint(f, run)
  BY DEF FailStep, AfterValidate, AfterPrepare, AfterFindExisting, AfterSubmit,
     AfterResolveAmbiguous, AfterResubmit, AfterMarkSubmitted, Recv, RecvTimeout,
     AfterPollStatus, AfterRecordOutcome, AfterReconcileFinal
<1>. QED BY <1>1, CheckpointQuiet

LEMMA ProgressContract ==
  ASSUME IInv, NEW f \in Filings, Progress(f)
  PROVE  ContractStep
<1>1. CASE HandleSubmit(f)
  BY <1>1, SubmissionsContract
<1>2. CASE HandleCommand(f)
  BY <1>2, CommandContract
<1>3. CASE \/ Begin(f) \/ StopCancelled(f) \/ Send(f) \/ HandleGetFiling(f)
           \/ HandleStatus(f) \/ GiveUp(f) \/ RetryStep(f) \/ Return(f)
  BY <1>3, QuietStep
     DEF Begin, StopCancelled, Send, HandleGetFiling, HandleStatus, GiveUp, RetryStep,
         Return, Answer, accountableVars, operatorVars
<1>4. CASE \/ FailStep(f) \/ AfterValidate(f) \/ AfterPrepare(f) \/ AfterFindExisting(f)
           \/ AfterSubmit(f) \/ AfterResolveAmbiguous(f) \/ AfterResubmit(f)
           \/ AfterMarkSubmitted(f) \/ Recv(f) \/ RecvTimeout(f) \/ AfterPollStatus(f)
           \/ AfterRecordOutcome(f) \/ AfterReconcileFinal(f)
  BY <1>4, AfterQuiet, QuietStep DEF Quiet
<1>. QED BY <1>1, <1>2, <1>3, <1>4 DEF Progress

LEMMA EnvironmentContract ==
  ASSUME IInv, NEW f \in Filings, Environment(f)
  PROVE  ContractStep
<1>1. CASE \E s \in Scenarios : SeedFiling(f, s)
  BY <1>1, SeedContract
<1>2. CASE CompleteOperation(f)
  BY <1>2, CompleteContract
<1>3. CASE \E outcome \in OperatorOutcomes : OperatorSend(f, outcome)
  BY <1>3, SendContract
<1>4. CASE (\E s \in Scenarios : Enqueue(f, s)) \/ Cancel(f) \/ Resume(f) \/ DeliverCallback(f)
  BY <1>4, QuietStep
     DEF Enqueue, Cancel, Resume, DeliverCallback, Deliver, accountableVars, operatorVars
<1>. QED BY <1>1, <1>2, <1>3, <1>4 DEF Environment

-----------------------------------------------------------------------------
LEMMA NextContract ==
  ASSUME IInv, [Next]_vars
  PROVE  ContractStep
<1>1. CASE \E f \in Filings : Progress(f) \/ Environment(f)
  BY <1>1, ProgressContract, EnvironmentContract
<1>2. CASE \E p \in latePosts : HandleLatePost(p)
  BY <1>2, SubmissionsContract
<1>3. CASE \E req \in lateCommands : HandleLateCommand(req)
  <2>1. PICK req \in lateCommands : HandleLateCommand(req)
    BY <1>3
  <2>2. ApplyCommand(req) /\ UNCHANGED <<ledger, asserted>>
    BY <2>1 DEF HandleLateCommand, operatorVars
  <2>. QED BY <2>2, IInvWorld, ApplyContract
<1>4. CASE Crash \/ LoseRuntime
  BY <1>4, QuietStep DEF Crash, LoseRuntime, accountableVars, operatorVars
<1>5. CASE UNCHANGED vars
  BY <1>5, QuietStep DEF vars
<1>. QED BY <1>1, <1>2, <1>3, <1>4, <1>5 DEF Next

LEMMA InitContract == Init => Contract!ContractInit
<1>. SUFFICES ASSUME Init
              PROVE  Contract!ContractInit
  OBVIOUS
<1>1. \A f \in Filings : filings[f].state = "absent"
  BY DEF Init, AccountableInit, AbsentRow
<1>2. \A f \in Filings : ledger[ProviderOperationID(f)].status = "not_found"
  BY DEF Init, ProviderInit, NoEntry, OperationIDs
<1>. QED BY <1>1, <1>2 DEF Init, Contract!ContractInit

(* What the contract never takes back. *)
ContractForward(f) ==
  /\ Book[f] \notin {"absent", "ready"} => Book'[f] \notin {"absent", "ready"}
  /\ Book[f] \in FinalStates => Book'[f] = Book[f]
  /\ Book[f] = "needs_review" => Book'[f] \in FinalStates \cup {"needs_review"}
  /\ Effect[f] \in FinalStates => Effect'[f] = Effect[f]
  /\ asserted[f] \subseteq asserted'[f]

LEMMA ContractMovesForward ==
  ASSUME asserted \in [Filings -> SUBSET OperatorOutcomes], ContractStep, NEW f \in Filings
  PROVE  ContractForward(f)
<1>1. CASE UNCHANGED Contract!contractVars
  BY <1>1 DEF ContractForward, Contract!contractVars, Book, Effect
<1>2. CASE Contract!ContractNext
  <2>1. PICK g \in Filings :
          \/ Contract!Enter(g) \/ Contract!Intend(g) \/ Contract!MarkSubmitted(g)
          \/ Contract!Review(g)
          \/ \E outcome \in Contract!Final : Contract!Finalise(g, outcome)
          \/ Contract!File(g) \/ Contract!Decide(g)
          \/ \E outcome \in OperatorOutcomes : Contract!Assert(g, outcome)
    BY <1>2 DEF Contract!ContractNext
  <2>2. ASSUME NEW b, Book' = [Book EXCEPT ![g] = b], Effect' = Effect, asserted' = asserted,
               b = "ready" => Book[g] = "absent", b # "absent",
               Book[g] \notin FinalStates, Book[g] = "needs_review" => b \in FinalStates
        PROVE  ContractForward(f)
    <3>1. f # g => Book'[f] = Book[f]
      BY <2>2 DEF Book
    <3>2. Book'[g] = b
      BY <2>2 DEF Book
    <3>. QED BY <2>2, <3>1, <3>2 DEF ContractForward
  <2>3. CASE Contract!Enter(g)
    BY <2>2, <2>3 DEF Contract!Enter, Book, Effect, FinalStates
  <2>4. CASE Contract!Intend(g)
    BY <2>2, <2>4 DEF Contract!Intend, Book, Effect, FinalStates
  <2>5. CASE Contract!MarkSubmitted(g)
    BY <2>2, <2>5 DEF Contract!MarkSubmitted, Book, Effect, FinalStates
  <2>6. CASE Contract!Review(g)
    BY <2>2, <2>6 DEF Contract!Review, Book, Effect, FinalStates
  <2>7. CASE \E outcome \in Contract!Final : Contract!Finalise(g, outcome)
    BY <2>2, <2>7 DEF Contract!Finalise, Contract!Final, Book, Effect, FinalStates
  <2>8. CASE Contract!File(g) \/ Contract!Decide(g)
    <3>1. /\ Book' = Book /\ asserted' = asserted /\ Effect[g] \notin FinalStates
          /\ \E e : Effect' = [Effect EXCEPT ![g] = e]
      BY <2>8 DEF Contract!File, Contract!Decide, Book, Effect, FinalStates
    <3>2. f # g => Effect'[f] = Effect[f]
      BY <3>1 DEF Effect
    <3>. QED BY <3>1, <3>2 DEF ContractForward
  <2>9. CASE \E outcome \in OperatorOutcomes : Contract!Assert(g, outcome)
    <3>1. PICK outcome : asserted' = [asserted EXCEPT ![g] = @ \cup {outcome}]
      BY <2>9 DEF Contract!Assert
    <3>2. Book' = Book /\ Effect' = Effect
      BY <2>9 DEF Contract!Assert, Book, Effect
    <3>. QED BY <3>1, <3>2 DEF ContractForward
  <2>. QED BY <2>1, <2>3, <2>4, <2>5, <2>6, <2>7, <2>8, <2>9
<1>. QED BY <1>1, <1>2 DEF ContractStep

(* The workflow, with its steps, retries, crashes, lost requests and lost   *)
(* databases, implements the filing contract (docs/PROOF_CONTRACT.md as     *)
(* workflow/filing.go keeps it): one effect at most and only after the      *)
(* intent, one outcome at most and only one that somebody vouches for.      *)
THEOREM FilingImplementsContract == Spec => ImplementsContract
<1>1. IInv /\ [Next]_vars => ContractStep
  BY NextContract
<1>. QED BY InitContract, <1>1, Invariance, PTL
        DEF Spec, ImplementsContract, Contract!ContractSpec, ContractStep

-----------------------------------------------------------------------------
(* What the workflow does to the books are commands and upserts that        *)
(* Accountable knows, so all that is proved of Accountable holds here.      *)

BooksStep == [AccountableNext]_accountableVars

LEMMA CommandBooks ==
  ASSUME IInv, NEW f \in Filings, HandleCommand(f)
  PROVE  BooksStep
<1>1. CASE ApplyCommand(Command(f))
  <2>1. wf[f].pc \in CommandSteps
    BY DEF HandleCommand
  <2>2. Command(f) \in Requests
    BY <2>1, CommandIsRequest DEF IInv
  <2>. QED BY <1>1, <2>2 DEF BooksStep, AccountableNext
<1>2. CASE UNCHANGED accountableVars
  BY <1>2 DEF BooksStep
<1>. QED BY <1>1, <1>2 DEF HandleCommand

LEMMA ProgressBooks ==
  ASSUME IInv, NEW f \in Filings, Progress(f)
  PROVE  BooksStep
<1>1. CASE HandleCommand(f)
  BY <1>1, CommandBooks
<1>2. CASE \/ Begin(f) \/ StopCancelled(f) \/ Send(f) \/ HandleGetFiling(f)
           \/ HandleStatus(f) \/ HandleSubmit(f) \/ GiveUp(f) \/ RetryStep(f) \/ Return(f)
  BY <1>2
     DEF BooksStep, Begin, StopCancelled, Send, HandleGetFiling, HandleStatus,
         HandleSubmit, GiveUp, RetryStep, Return
<1>3. CASE \/ FailStep(f) \/ AfterValidate(f) \/ AfterPrepare(f) \/ AfterFindExisting(f)
           \/ AfterSubmit(f) \/ AfterResolveAmbiguous(f) \/ AfterResubmit(f)
           \/ AfterMarkSubmitted(f) \/ Recv(f) \/ RecvTimeout(f) \/ AfterPollStatus(f)
           \/ AfterRecordOutcome(f) \/ AfterReconcileFinal(f)
  <2>1. \E run : Checkpoint(f, run)
    BY <1>3
       DEF FailStep, AfterValidate, AfterPrepare, AfterFindExisting, AfterSubmit,
           AfterResolveAmbiguous, AfterResubmit, AfterMarkSubmitted, Recv, RecvTimeout,
           AfterPollStatus, AfterRecordOutcome, AfterReconcileFinal
  <2>. QED BY <2>1 DEF BooksStep, Checkpoint
<1>. QED BY <1>1, <1>2, <1>3 DEF Progress

LEMMA NextBooks ==
  ASSUME IInv, [Next]_vars
  PROVE  BooksStep
<1>1. CASE \E f \in Filings : Progress(f)
  BY <1>1, ProgressBooks
<1>2. CASE \E f \in Filings, s \in Scenarios : SeedFiling(f, s)
  BY <1>2 DEF BooksStep, AccountableNext, SeedFiling
<1>3. CASE \E f \in Filings :
             \/ \E s \in Scenarios : Enqueue(f, s)
             \/ Cancel(f) \/ Resume(f) \/ CompleteOperation(f) \/ DeliverCallback(f)
             \/ \E outcome \in OperatorOutcomes : OperatorSend(f, outcome)
  BY <1>3 DEF BooksStep, Enqueue, Cancel, Resume, CompleteOperation, DeliverCallback,
     OperatorSend
<1>4. CASE \E p \in latePosts : HandleLatePost(p)
  BY <1>4 DEF BooksStep, HandleLatePost
<1>5. CASE \E req \in lateCommands : HandleLateCommand(req)
  BY <1>5, IInvWorld DEF BooksStep, AccountableNext, HandleLateCommand
<1>6. CASE Crash \/ LoseRuntime
  BY <1>6 DEF BooksStep, Crash, LoseRuntime
<1>7. CASE UNCHANGED vars
  BY <1>7 DEF BooksStep, vars, accountableVars
<1>. QED BY <1>1, <1>2, <1>3, <1>4, <1>5, <1>6, <1>7 DEF Next, Environment

(* The books under the filing workflow are books of Accountable             *)
(* (accountable/server.go): every request of every execution, alive or      *)
(* abandoned, is one of its commands.                                       *)
THEOREM FilingUsesBooks == Spec => AccountableSpec
<1>1. Init => AccountableInit
  BY DEF Init
<1>2. IInv /\ [Next]_vars => BooksStep
  BY NextBooks
<1>. QED BY <1>1, <1>2, Invariance, PTL DEF Spec, AccountableSpec, BooksStep

(* Under the workflow, too, the state of a filing is the one its logged     *)
(* commands lead to (accountable/server.go, applyCommand).                  *)
THEOREM FilingBooksMatchLog == Spec => []StateExplainedByCommands
  BY FilingUsesBooks, BooksMatchLog, PTL

(* Under the workflow, too, effects on the books are logged in the same     *)
(* step, move a filing forward and are never rewritten.                     *)
THEOREM FilingBooksMoveForward == Spec => EffectsAreLoggedAndForward
  BY FilingUsesBooks, EffectsLoggedAndForward, PTL

-----------------------------------------------------------------------------
(* What the workflow does to the ledger are submissions of scenarios that   *)
(* the provider knows, and completions, so that the ledger of the workflow  *)
(* is the one that the authority is proved to implement (AuthorityProofs).  *)

LedgerStep == [ProviderNext]_ledger

(* A started workflow and an abandoned submission have the scenario they    *)
(* were started with.                                                       *)
RunKnown(f) == wf[f].status # "absent" => wf[f].scenario \in Scenarios
PostsKnown == \A p \in latePosts : p.scenario \in Scenarios
ScenariosKnown == PostsKnown /\ \A f \in Filings : RunKnown(f)

LEMMA RunKeeps ==
  ASSUME IInv, NEW f \in Filings, NEW run,
         \/ \E pc : run = GoTo(f, pc)
         \/ \E pc, snap : run = [GoTo(f, pc) EXCEPT !.snap = snap]
         \/ \E pc, o, d : run = Outcome(f, pc, o, d)
         \/ \E n, pc : run = [wf[f] EXCEPT !.polls = n, !.pc = pc]
  PROVE  run.status = wf[f].status /\ run.scenario = wf[f].scenario
<1>1. wf[f] \in Runs
  BY DEF IInv, TypeOK
<1>. QED BY <1>1 DEF Runs, GoTo, Outcome

(* What a checkpoint does not touch. *)
LEMMA AfterKeeps ==
  ASSUME IInv, NEW f \in Filings,
         \/ AfterValidate(f) \/ AfterPrepare(f) \/ AfterFindExisting(f)
         \/ AfterSubmit(f) \/ AfterResolveAmbiguous(f) \/ AfterResubmit(f)
         \/ AfterMarkSubmitted(f) \/ Recv(f) \/ RecvTimeout(f) \/ AfterPollStatus(f)
         \/ AfterRecordOutcome(f) \/ AfterReconcileFinal(f) \/ FailStep(f)
  PROVE  \E run : /\ Checkpoint(f, run)
                  /\ run.status = wf[f].status /\ run.scenario = wf[f].scenario
<1>1. \/ \E pc : Checkpoint(f, GoTo(f, pc))
      \/ \E pc, snap : Checkpoint(f, [GoTo(f, pc) EXCEPT !.snap = snap])
      \/ \E pc, o, d : Checkpoint(f, Outcome(f, pc, o, d))
      \/ \E n, pc : Checkpoint(f, [wf[f] EXCEPT !.polls = n, !.pc = pc])
  <2>1. CASE AfterValidate(f) \/ AfterPrepare(f)
    BY <2>1 DEF AfterValidate, AfterPrepare
  <2>2. CASE AfterFindExisting(f) \/ AfterResolveAmbiguous(f)
    BY <2>2 DEF AfterFindExisting, AfterResolveAmbiguous, Accepted
  <2>3. CASE AfterSubmit(f) \/ AfterResubmit(f)
    BY <2>3 DEF AfterSubmit, AfterResubmit, Accepted
  <2>4. CASE AfterMarkSubmitted(f) \/ Recv(f) \/ RecvTimeout(f)
    BY <2>4 DEF AfterMarkSubmitted, Recv, RecvTimeout
  <2>5. CASE AfterPollStatus(f)
    BY <2>5 DEF AfterPollStatus
  <2>6. CASE AfterRecordOutcome(f) \/ AfterReconcileFinal(f)
    BY <2>6 DEF AfterRecordOutcome, AfterReconcileFinal
  <2>7. CASE FailStep(f)
    BY <2>7 DEF FailStep
  <2>. QED BY <2>1, <2>2, <2>3, <2>4, <2>5, <2>6, <2>7
<1>2. CASE \E pc : Checkpoint(f, GoTo(f, pc))
  <2>1. PICK pc, run : run = GoTo(f, pc) /\ Checkpoint(f, run)
    BY <1>2
  <2>. QED BY <2>1, RunKeeps
<1>3. CASE \E pc, snap : Checkpoint(f, [GoTo(f, pc) EXCEPT !.snap = snap])
  <2>1. PICK pc, snap, run : run = [GoTo(f, pc) EXCEPT !.snap = snap] /\ Checkpoint(f, run)
    BY <1>3
  <2>. QED BY <2>1, RunKeeps
<1>4. CASE \E pc, o, d : Checkpoint(f, Outcome(f, pc, o, d))
  <2>1. PICK pc, o, d, run : run = Outcome(f, pc, o, d) /\ Checkpoint(f, run)
    BY <1>4
  <2>. QED BY <2>1, RunKeeps
<1>5. CASE \E n, pc : Checkpoint(f, [wf[f] EXCEPT !.polls = n, !.pc = pc])
  <2>1. PICK n, pc, run : run = [wf[f] EXCEPT !.polls = n, !.pc = pc] /\ Checkpoint(f, run)
    BY <1>5
  <2>. QED BY <2>1, RunKeeps
<1>. QED BY <1>1, <1>2, <1>3, <1>4, <1>5

(* Rows that keep their scenario, where they had a status before. *)
RowsKeep ==
  \A f \in Filings :
    wf'[f].status # "absent" =>
      \/ wf'[f].scenario \in Scenarios
      \/ wf'[f].scenario = wf[f].scenario /\ wf[f].status # "absent"

LEMMA RowsKept ==
  ASSUME ScenariosKnown, RowsKeep
  PROVE  \A f \in Filings : RunKnown(f)'
BY DEF ScenariosKnown, RunKnown, RowsKeep

LEMMA RowKept ==
  ASSUME IInv, NEW f \in Filings, NEW run, wf' = [wf EXCEPT ![f] = run],
         \/ run.scenario \in Scenarios
         \/ run.scenario = wf[f].scenario /\ wf[f].status # "absent"
         \/ run.status = wf[f].status /\ run.scenario = wf[f].scenario
  PROVE  RowsKeep
<1>1. wf'[f] = run /\ \A g \in Filings : g # f => wf'[g] = wf[g]
  BY DEF IInv, TypeOK
<1>. QED BY <1>1 DEF RowsKeep

(* Only running executions have requests under way. *)
LEMMA AbandonKnown ==
  ASSUME IInv, ScenariosKnown, NEW F, F \subseteq Filings, Abandon(F)
  PROVE  PostsKnown'
<1>1. \A p \in latePosts' : p \in latePosts \/ \E f \in F : InFlight(f) /\ p = Post(f)
  BY DEF Abandon
<1>2. ASSUME NEW f \in F, InFlight(f)
      PROVE  Post(f).scenario \in Scenarios
  <2>1. Post(f).scenario = wf[f].scenario
    BY DEF Post
  <2>2. wf[f].status # "absent"
    BY <1>2 DEF InFlight, IInv, CallsFit
  <2>. QED BY <2>1, <2>2 DEF ScenariosKnown, RunKnown
<1>. QED BY <1>1, <1>2 DEF ScenariosKnown, PostsKnown

LEMMA LifeKeeps ==
  ASSUME IInv, ScenariosKnown, NEW f \in Filings,
         Begin(f) \/ Return(f) \/ Cancel(f) \/ Resume(f)
  PROVE  RowsKeep
<1>1. wf[f] \in Runs
  BY DEF IInv, TypeOK
<1>2. wf[f].status # "absent"
  BY DEF Begin, Return, Cancel, Resume, IInv, CallsFit
<1>3. ASSUME NEW run, wf' = [wf EXCEPT ![f] = run], run.scenario = wf[f].scenario
      PROVE  RowsKeep
  BY <1>2, <1>3, RowKept
<1>4. ASSUME NEW status, wf' = [wf EXCEPT ![f].status = status]
      PROVE  RowsKeep
  <2>1. PICK run : run = [wf[f] EXCEPT !.status = status]
    OBVIOUS
  <2>2. run.scenario = wf[f].scenario
    BY <1>1, <2>1 DEF Runs
  <2>3. wf' = [wf EXCEPT ![f] = run]
    BY <1>4, <2>1
  <2>. QED BY <1>3, <2>2, <2>3
<1>5. ASSUME NEW status, NEW n, wf' = [wf EXCEPT ![f].status = status, ![f].attempts = n]
      PROVE  RowsKeep
  <2>1. PICK run : run = [wf[f] EXCEPT !.status = status, !.attempts = n]
    OBVIOUS
  <2>2. run.scenario = wf[f].scenario
    BY <1>1, <2>1 DEF Runs
  <2>3. wf' = [wf EXCEPT ![f] = run]
    BY <1>5, <2>1
  <2>. QED BY <1>3, <2>2, <2>3
<1>6. \/ \E status : wf' = [wf EXCEPT ![f].status = status]
      \/ \E status, n : wf' = [wf EXCEPT ![f].status = status, ![f].attempts = n]
  <2>1. CASE Begin(f)
    BY <2>1 DEF Begin
  <2>2. CASE Return(f)
    BY <2>2 DEF Return
  <2>3. CASE Cancel(f) \/ Resume(f)
    BY <2>3 DEF Cancel, Resume
  <2>. QED BY <2>1, <2>2, <2>3
<1>. QED BY <1>4, <1>5, <1>6

LEMMA ProgressKnown ==
  ASSUME IInv, ScenariosKnown, NEW f \in Filings, Progress(f)
  PROVE  ScenariosKnown'
<1>1. CASE \/ AfterValidate(f) \/ AfterPrepare(f) \/ AfterFindExisting(f)
           \/ AfterSubmit(f) \/ AfterResolveAmbiguous(f) \/ AfterResubmit(f)
           \/ AfterMarkSubmitted(f) \/ Recv(f) \/ RecvTimeout(f) \/ AfterPollStatus(f)
           \/ AfterRecordOutcome(f) \/ AfterReconcileFinal(f) \/ FailStep(f)
  <2>1. PICK run : /\ Checkpoint(f, run)
                   /\ run.status = wf[f].status /\ run.scenario = wf[f].scenario
    BY <1>1, AfterKeeps
  <2>2. wf' = [wf EXCEPT ![f] = run] /\ latePosts' = latePosts
    BY <2>1 DEF Checkpoint, lateVars
  <2>. QED BY <2>1, <2>2, RowKept, RowsKept DEF ScenariosKnown, PostsKnown
<1>2. CASE Begin(f) \/ Return(f)
  <2>1. latePosts' = latePosts
    BY <1>2 DEF Begin, Return, lateVars
  <2>. QED BY <1>2, <2>1, LifeKeeps, RowsKept DEF ScenariosKnown, PostsKnown
<1>3. CASE GiveUp(f)
  <2>1. wf' = wf /\ PostsKnown'
    BY <1>3, AbandonKnown DEF GiveUp
  <2>. QED BY <2>1 DEF ScenariosKnown, RunKnown
<1>4. CASE \/ StopCancelled(f) \/ Send(f) \/ RetryStep(f) \/ HandleGetFiling(f)
           \/ HandleStatus(f) \/ HandleSubmit(f) \/ HandleCommand(f)
  <2>1. UNCHANGED <<wf, latePosts>>
    BY <1>4 DEF StopCancelled, Send, RetryStep, HandleGetFiling, HandleStatus,
       HandleSubmit, HandleCommand, Answer, lateVars
  <2>. QED BY <2>1 DEF ScenariosKnown, RunKnown, PostsKnown
<1>. QED BY <1>1, <1>2, <1>3, <1>4 DEF Progress

LEMMA EnvironmentKnown ==
  ASSUME IInv, ScenariosKnown, NEW f \in Filings, Environment(f)
  PROVE  ScenariosKnown'
<1>1. latePosts' = latePosts
  BY DEF Environment, SeedFiling, Enqueue, Cancel, Resume, CompleteOperation,
     DeliverCallback, OperatorSend, lateVars
<1>2. CASE Cancel(f) \/ Resume(f)
  BY <1>1, <1>2, LifeKeeps, RowsKept DEF ScenariosKnown, PostsKnown
<1>3. CASE \E s \in Scenarios : Enqueue(f, s)
  <2>1. PICK s \in Scenarios : Enqueue(f, s)
    BY <1>3
  <2>2. PICK run : run = [NoRun EXCEPT !.status = "ENQUEUED", !.scenario = s]
    OBVIOUS
  <2>3. run.scenario \in Scenarios
    BY <2>2 DEF NoRun
  <2>4. wf' = [wf EXCEPT ![f] = run]
    BY <2>1, <2>2 DEF Enqueue
  <2>. QED BY <1>1, <2>3, <2>4, RowKept, RowsKept DEF ScenariosKnown, PostsKnown
<1>4. CASE \/ \E s \in Scenarios : SeedFiling(f, s)
           \/ CompleteOperation(f) \/ DeliverCallback(f)
           \/ \E outcome \in OperatorOutcomes : OperatorSend(f, outcome)
  <2>1. wf' = wf
    BY <1>4 DEF SeedFiling, CompleteOperation, DeliverCallback, OperatorSend, runtimeVars
  <2>. QED BY <1>1, <2>1 DEF ScenariosKnown, RunKnown, PostsKnown
<1>. QED BY <1>2, <1>3, <1>4 DEF Environment

LEMMA NextKnown ==
  ASSUME IInv, ScenariosKnown, [Next]_vars
  PROVE  ScenariosKnown'
<1>1. CASE \E f \in Filings : Progress(f) \/ Environment(f)
  BY <1>1, ProgressKnown, EnvironmentKnown
<1>2. CASE Crash
  <2>1. wf' = wf /\ PostsKnown'
    BY <1>2, AbandonKnown DEF Crash
  <2>. QED BY <2>1 DEF ScenariosKnown, RunKnown
<1>3. CASE LoseRuntime
  <2>1. PostsKnown' /\ \A f \in Filings : wf'[f].status = "absent"
    BY <1>3, AbandonKnown DEF LoseRuntime, NoRun
  <2>. QED BY <2>1 DEF ScenariosKnown, RunKnown
<1>4. CASE \/ \E p \in latePosts : HandleLatePost(p)
           \/ \E req \in lateCommands : HandleLateCommand(req)
           \/ UNCHANGED vars
  <2>1. UNCHANGED <<wf, latePosts>>
    BY <1>4 DEF HandleLatePost, HandleLateCommand, runtimeVars, lateVars, vars
  <2>. QED BY <2>1 DEF ScenariosKnown, RunKnown, PostsKnown
<1>. QED BY <1>1, <1>2, <1>3, <1>4 DEF Next

LEMMA SubmitsKnown ==
  ASSUME NEW f \in Filings, NEW s \in Scenarios,
         NEW reply \in {"accepted", "rejected", "ambiguous", "retryable"},
         Submit(ProviderOperationID(f), s, reply)
  PROVE  LedgerStep
<1>1. ProviderOperationID(f) \in OperationIDs
  BY DEF OperationIDs
<1>2. ProviderNext
  BY <1>1 DEF ProviderNext
<1>. QED BY <1>2 DEF LedgerStep

LEMMA NextLedger ==
  ASSUME IInv, ScenariosKnown, [Next]_vars
  PROVE  LedgerStep
<1>1. ASSUME NEW f \in Filings, HandleSubmit(f)
      PROVE  LedgerStep
  <2>1. wf[f].scenario \in Scenarios
    BY <1>1 DEF HandleSubmit, InFlight, IInv, CallsFit, ScenariosKnown, RunKnown
  <2>. QED BY <1>1, <2>1, SubmitsKnown DEF HandleSubmit
<1>2. ASSUME NEW p \in latePosts, HandleLatePost(p)
      PROVE  LedgerStep
  <2>1. p.scenario \in Scenarios /\ p.filing \in Filings
    BY DEF ScenariosKnown, PostsKnown, IInv, TypeOK, Posts
  <2>. QED BY <1>2, <2>1, SubmitsKnown DEF HandleLatePost
<1>3. ASSUME NEW f \in Filings, CompleteOperation(f)
      PROVE  LedgerStep
  <2>1. ProviderOperationID(f) \in OperationIDs
    BY DEF OperationIDs
  <2>. QED BY <1>3, <2>1 DEF CompleteOperation, ProviderNext, LedgerStep
<1>4. ASSUME NEW f \in Filings, Progress(f), ~HandleSubmit(f)
      PROVE  LedgerStep
  <2>1. \/ Begin(f) \/ StopCancelled(f) \/ Send(f) \/ HandleGetFiling(f) \/ HandleStatus(f)
        \/ HandleCommand(f) \/ GiveUp(f) \/ RetryStep(f) \/ Return(f)
        \/ \E run : Checkpoint(f, run)
    BY <1>4
       DEF Progress, FailStep, AfterValidate, AfterPrepare, AfterFindExisting, AfterSubmit,
           AfterResolveAmbiguous, AfterResubmit, AfterMarkSubmitted, Recv, RecvTimeout,
           AfterPollStatus, AfterRecordOutcome, AfterReconcileFinal
  <2>2. ledger' = ledger
    BY <2>1 DEF Begin, StopCancelled, Send, HandleGetFiling, HandleStatus, HandleCommand,
       GiveUp, RetryStep, Return, Checkpoint
  <2>. QED BY <2>2 DEF LedgerStep
<1>5. ASSUME NEW f \in Filings, Environment(f), ~CompleteOperation(f)
      PROVE  LedgerStep
  <2>1. ledger' = ledger
    BY <1>5 DEF Environment, SeedFiling, Enqueue, Cancel, Resume, DeliverCallback,
       OperatorSend
  <2>. QED BY <2>1 DEF LedgerStep
<1>6. CASE Crash \/ LoseRuntime \/ UNCHANGED vars \/ \E req \in lateCommands : HandleLateCommand(req)
  <2>1. ledger' = ledger
    BY <1>6 DEF Crash, LoseRuntime, HandleLateCommand, vars
  <2>. QED BY <2>1 DEF LedgerStep
<1>. QED BY <1>1, <1>2, <1>3, <1>4, <1>5, <1>6 DEF Next

LEMMA InitKnown == Init => ScenariosKnown
<1>. SUFFICES ASSUME Init
              PROVE  ScenariosKnown
  OBVIOUS
<1>1. latePosts = {} /\ \A f \in Filings : wf[f].status = "absent"
  BY DEF Init, NoRun
<1>. QED BY <1>1 DEF ScenariosKnown, PostsKnown, RunKnown

(* The workflow uses the authority as the ledger of ProviderContract lets   *)
(* it be used (authority/server.go, handleSubmit): AuthorityProofs shows    *)
(* that the authority is that ledger, so the two proofs fit together.       *)
THEOREM FilingUsesProvider == Spec => ProviderSpec
<1>1. Init => ProviderInit
  BY DEF Init
<1>2. IInv /\ ScenariosKnown /\ [Next]_vars => ScenariosKnown' /\ LedgerStep
  BY NextKnown, NextLedger
<1>. QED BY InitKnown, <1>1, <1>2, Invariance, PTL DEF Spec, ProviderSpec, LedgerStep
=============================================================================
