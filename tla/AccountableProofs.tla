-------------------------- MODULE AccountableProofs --------------------------
(***************************************************************************)
(* Proofs about Accountable, for every set of filings, scenarios and       *)
(* details.                                                                *)
(***************************************************************************)
EXTENDS Accountable, TLAPS

-----------------------------------------------------------------------------
(* The keys of a filing are keys of the log. *)
LEMMA KeysTyped ==
  ASSUME NEW f \in Filings
  PROVE  /\ SubmittedCommandKey(WorkflowID(f)) \in CommandKeys
         /\ OutcomeCommandKey(WorkflowID(f)) \in CommandKeys
         /\ ReviewCommandKey(WorkflowID(f)) \in CommandKeys
         /\ SubmissionIntentCommandKey(WorkflowID(f)) \in CommandKeys
BY DEF WorkflowID, SubmittedCommandKey, OutcomeCommandKey, ReviewCommandKey,
   SubmissionIntentCommandKey, CommandKeys, OperationIDs, ProviderOperationID

(* A request belongs to one filing, and its key is the one of its type. *)
LEMMA RequestShape ==
  ASSUME NEW req \in Requests
  PROVE  /\ req.filing \in Filings
         /\ req.key \in CommandKeys
         /\ req # NoCommand
         /\ \/ /\ req.type = "PrepareFilingSubmission"
               /\ req.key = SubmissionIntentCommandKey(WorkflowID(req.filing))
               /\ req.op \in OperationIDs
            \/ /\ req.type = "MarkFilingSubmitted"
               /\ req.key = SubmittedCommandKey(WorkflowID(req.filing))
            \/ /\ req.type \in {"MarkFilingAccepted", "MarkFilingRejected"}
               /\ req.key = OutcomeCommandKey(WorkflowID(req.filing))
            \/ /\ req.type = "MarkFilingNeedsReview"
               /\ req.key = ReviewCommandKey(WorkflowID(req.filing))
<1>0. req # NoCommand
  BY AccountableAssumption
<1>1. CASE \E f \in Filings, o \in OperationIDs : req = PrepareRequest(f, o)
  <2>. PICK f \in Filings, o \in OperationIDs : req = PrepareRequest(f, o)
    BY <1>1
  <2>1. SubmissionIntentCommandKey(WorkflowID(f)) \in CommandKeys
    BY KeysTyped
  <2>. QED BY <1>0, <2>1 DEF PrepareRequest
<1>2. CASE \E f \in Filings : req = SubmittedRequest(f)
  <2>. PICK f \in Filings : req = SubmittedRequest(f)
    BY <1>2
  <2>1. SubmittedCommandKey(WorkflowID(f)) \in CommandKeys
    BY KeysTyped
  <2>. QED BY <1>0, <2>1 DEF SubmittedRequest
<1>3. CASE \E f \in Filings, s \in FinalStates \cup {"needs_review"}, d \in Details :
             req = OutcomeRequest(f, s, d)
  <2>. PICK f \in Filings, s \in FinalStates \cup {"needs_review"}, d \in Details :
              req = OutcomeRequest(f, s, d)
    BY <1>3
  <2>1. s \in {"accepted", "rejected", "needs_review"}
    BY DEF FinalStates
  <2>2. CASE s = "needs_review"
    <3>1. ReviewCommandKey(WorkflowID(f)) \in CommandKeys
      BY KeysTyped
    <3>. QED BY <1>0, <2>2, <3>1 DEF OutcomeRequest
  <2>3. CASE s \in {"accepted", "rejected"}
    <3>1. OutcomeCommandKey(WorkflowID(f)) \in CommandKeys
      BY KeysTyped
    <3>. QED BY <1>0, <2>3, <3>1 DEF OutcomeRequest
  <2>. QED BY <2>1, <2>2, <2>3
<1>. QED BY <1>1, <1>2, <1>3 DEF Requests

(* The four keys of a filing are distinct, and no two filings share one. *)
LEMMA KeysDistinct ==
  ASSUME NEW f \in Filings, NEW g \in Filings
  PROVE  LET w == WorkflowID(f)
             v == WorkflowID(g) IN
         /\ SubmittedCommandKey(w) # OutcomeCommandKey(v)
         /\ SubmittedCommandKey(w) # ReviewCommandKey(v)
         /\ SubmittedCommandKey(w) # SubmissionIntentCommandKey(v)
         /\ OutcomeCommandKey(w) # ReviewCommandKey(v)
         /\ OutcomeCommandKey(w) # SubmissionIntentCommandKey(v)
         /\ ReviewCommandKey(w) # SubmissionIntentCommandKey(v)
         /\ f # g => /\ SubmittedCommandKey(w) # SubmittedCommandKey(v)
                     /\ OutcomeCommandKey(w) # OutcomeCommandKey(v)
                     /\ ReviewCommandKey(w) # ReviewCommandKey(v)
                     /\ SubmissionIntentCommandKey(w) # SubmissionIntentCommandKey(v)
BY DEF WorkflowID, SubmittedCommandKey, OutcomeCommandKey, ReviewCommandKey,
   SubmissionIntentCommandKey

-----------------------------------------------------------------------------
(* Type correctness. *)

LEMMA InitType == AccountableInit => AccountableTypeOK
BY DEF AccountableInit, AccountableTypeOK, AbsentRow, Rows

LEMMA PutFilingType ==
  ASSUME AccountableTypeOK, NEW f \in Filings, NEW s \in Scenarios, PutFiling(f, s)
  PROVE  AccountableTypeOK'
BY DEF AccountableTypeOK, PutFiling, Rows, FilingStates

LEMMA BookedRowType ==
  ASSUME AccountableTypeOK, NEW req \in Requests
  PROVE  BookedRow(req) \in Rows
<1>1. commandTransitions[req.type] \in FilingStates
  BY RequestShape DEF commandTransitions, FilingStates, FinalStates
<1>2. filings[req.filing] \in Rows
  BY RequestShape DEF AccountableTypeOK
<1>3. req.type = "PrepareFilingSubmission" => req.op \in OperationIDs
  BY RequestShape
<1>. QED BY <1>1, <1>2, <1>3 DEF BookedRow, Rows

LEMMA TakeEffectType ==
  ASSUME AccountableTypeOK, NEW req \in Requests, TakeEffect(req)
  PROVE  AccountableTypeOK'
<1>1. filings' \in [Filings -> Rows]
  BY BookedRowType, RequestShape DEF AccountableTypeOK, TakeEffect
<1>2. /\ commands' \in [CommandKeys -> Requests \cup {NoCommand}]
      /\ \A k \in CommandKeys : commands'[k] # NoCommand => commands'[k].key = k
  BY RequestShape DEF AccountableTypeOK, TakeEffect
<1>. QED BY <1>1, <1>2 DEF AccountableTypeOK, TakeEffect

LEMMA ApplyCommandType ==
  ASSUME AccountableTypeOK, NEW req \in Requests, ApplyCommand(req)
  PROVE  AccountableTypeOK'
BY TakeEffectType DEF ApplyCommand, AccountableTypeOK, accountableVars

(* Type correctness of the tables under every sequence of commands and      *)
(* upserts (accountable/server.go).                                         *)
THEOREM AccountableTypeCorrect == AccountableSpec => []AccountableTypeOK
<1>1. AccountableTypeOK /\ [AccountableNext]_accountableVars => AccountableTypeOK'
  <2>. SUFFICES ASSUME AccountableTypeOK, [AccountableNext]_accountableVars
                PROVE  AccountableTypeOK'
    OBVIOUS
  <2>1. CASE \E f \in Filings, s \in Scenarios : PutFiling(f, s)
    BY <2>1, PutFilingType
  <2>2. CASE \E req \in Requests : ApplyCommand(req)
    BY <2>2, ApplyCommandType
  <2>3. CASE UNCHANGED accountableVars
    BY <2>3 DEF AccountableTypeOK, accountableVars
  <2>. QED BY <2>1, <2>2, <2>3 DEF AccountableNext
<1>. QED BY <1>1, InitType, PTL DEF AccountableSpec

-----------------------------------------------------------------------------
(* One operation, one filing. *)

(* No two filings hold the same provider operation: the guarded UPDATE and  *)
(* the unique index of accountable/server.go:32 and :191 are enough for     *)
(* every number of filings and every order of commands.                     *)
THEOREM OperationsOwnedOnce == AccountableSpec => []OperationOwnedOnce
<1>1. AccountableInit => OperationOwnedOnce
  BY DEF AccountableInit, OperationOwnedOnce, AbsentRow
<1>2. AccountableTypeOK /\ OperationOwnedOnce /\ [AccountableNext]_accountableVars
        => OperationOwnedOnce'
  <2>. SUFFICES ASSUME AccountableTypeOK, OperationOwnedOnce,
                       [AccountableNext]_accountableVars
                PROVE  OperationOwnedOnce'
    OBVIOUS
  <2>1. ASSUME NEW f \in Filings, NEW s \in Scenarios, PutFiling(f, s)
        PROVE  OperationOwnedOnce'
    BY <2>1 DEF AccountableTypeOK, OperationOwnedOnce, PutFiling
  <2>2. ASSUME NEW req \in Requests, TakeEffect(req)
        PROVE  OperationOwnedOnce'
    <3>1. CASE req.type = "PrepareFilingSubmission"
      <4>1. OperationFree(req.filing, req.op)
        BY <2>2, <3>1 DEF TakeEffect, Applies
      <4>2. /\ \A g \in Filings \ {req.filing} : filings'[g] = filings[g]
            /\ filings'[req.filing].op = req.op
        BY <2>2, <3>1, RequestShape DEF TakeEffect, BookedRow, AccountableTypeOK
      <4>. QED BY <4>1, <4>2 DEF OperationFree, OperationOwnedOnce
    <3>2. CASE req.type # "PrepareFilingSubmission"
      <4>1. \A g \in Filings : filings'[g].op = filings[g].op
        BY <2>2, <3>2, RequestShape DEF TakeEffect, BookedRow, AccountableTypeOK
      <4>. QED BY <4>1 DEF OperationOwnedOnce
    <3>. QED BY <3>1, <3>2
  <2>3. CASE UNCHANGED accountableVars
    BY <2>3 DEF OperationOwnedOnce, accountableVars
  <2>. QED BY <2>1, <2>2, <2>3 DEF AccountableNext, ApplyCommand
<1>. QED BY <1>1, <1>2, AccountableTypeCorrect, PTL DEF AccountableSpec

-----------------------------------------------------------------------------
(* The books and the log. *)

(* The outcome key of a filing only ever holds an outcome. *)
LEMMA OutcomeKeyHoldsOutcome ==
  ASSUME AccountableTypeOK, NEW f \in Filings,
         Logged(f, OutcomeCommandKey(WorkflowID(f)))
  PROVE  commands[OutcomeCommandKey(WorkflowID(f))].type
           \in {"MarkFilingAccepted", "MarkFilingRejected"}
<1> DEFINE key == OutcomeCommandKey(WorkflowID(f))
           req == commands[key]
<1>1. req \in Requests /\ req.key = key
  BY KeysTyped DEF AccountableTypeOK, Logged
<1>2. req.filing \in Filings
  BY <1>1, RequestShape
<1>. QED BY <1>1, <1>2, RequestShape, KeysDistinct

(* What LoggedState says, as implications. *)
LEMMA LoggedStateCases ==
  ASSUME AccountableTypeOK, NEW f \in Filings
  PROVE  LET w == WorkflowID(f)
             O == Logged(f, OutcomeCommandKey(w))
             R == Logged(f, ReviewCommandKey(w))
             S == Logged(f, SubmittedCommandKey(w))
             I == Logged(f, SubmissionIntentCommandKey(w)) IN
         /\ O => /\ LoggedState(f) =
                       commandTransitions[commands[OutcomeCommandKey(w)].type]
                 /\ LoggedState(f) \in FinalStates
         /\ ~O /\ R => LoggedState(f) = "needs_review"
         /\ ~O /\ ~R /\ S => LoggedState(f) = "submitted"
         /\ ~O /\ ~R /\ ~S /\ I => LoggedState(f) = "submitting"
         /\ ~O /\ ~R /\ ~S /\ ~I => LoggedState(f) = "ready"
<1> DEFINE w == WorkflowID(f)
<1>1. Logged(f, OutcomeCommandKey(w)) =>
        commandTransitions[commands[OutcomeCommandKey(w)].type] \in FinalStates
  BY OutcomeKeyHoldsOutcome DEF commandTransitions, FinalStates
<1>. HIDE DEF w
<1>. QED BY <1>1 DEF LoggedState, w

(* The inductive strengthening of StateExplainedByCommands: without         *)
(* IntentLoggedFirst a reset filing could be prepared again.                *)
Explained == StateExplainedByCommands /\ IntentLoggedFirst

LEMMA ExplainedStep ==
  ASSUME AccountableTypeOK, Explained, NEW req \in Requests, TakeEffect(req)
  PROVE  /\ Explained'
         /\ filings[req.filing].state = LoggedState(req.filing)
         /\ filings'[req.filing].state = LoggedState(req.filing)'
<1> DEFINE g == req.filing
           w == WorkflowID(g)
<1>0. AccountableTypeOK' /\ g \in Filings
  BY TakeEffectType, RequestShape
<1>1. ASSUME NEW f \in Filings, f # g
      PROVE  /\ filings'[f].state = filings[f].state
             /\ LoggedState(f)' = LoggedState(f)
             /\ \A k \in {OutcomeCommandKey(WorkflowID(f)), ReviewCommandKey(WorkflowID(f)),
                          SubmittedCommandKey(WorkflowID(f)),
                          SubmissionIntentCommandKey(WorkflowID(f))} :
                  Logged(f, k)' = Logged(f, k)
  <2>1. filings'[f] = filings[f]
    BY <1>1 DEF TakeEffect, AccountableTypeOK
  <2>2. \A k \in {OutcomeCommandKey(WorkflowID(f)), ReviewCommandKey(WorkflowID(f)),
                  SubmittedCommandKey(WorkflowID(f)),
                  SubmissionIntentCommandKey(WorkflowID(f))} :
          commands'[k] = commands[k]
    BY <1>0, <1>1, KeysTyped, KeysDistinct, RequestShape DEF TakeEffect, AccountableTypeOK
  <2>. QED BY <2>1, <2>2 DEF LoggedState, Logged
<1>2. /\ commands[req.key] = NoCommand
      /\ CommandAllowsState(req.type, filings[g].state)
      /\ filings'[g].state = commandTransitions[req.type]
      /\ commands' = [commands EXCEPT ![req.key] = req]
      /\ req.key \in CommandKeys /\ req # NoCommand
  BY <1>0, RequestShape DEF TakeEffect, Applies, BookedRow, AccountableTypeOK
<1>3. filings[g].state # "absent" /\ filings[g].state = LoggedState(g)
  <2>1. filings[g].state # "absent"
    BY <1>2, RequestShape DEF CommandAllowsState
  <2>2. CASE filings[g].state = "ready"
    <3>1. ~Logged(g, SubmissionIntentCommandKey(w))
      BY <1>2, <2>2, RequestShape DEF CommandAllowsState, Logged
    <3>2. LoggedState(g) = "ready"
      BY <1>0, <3>1, LoggedStateCases DEF Explained, IntentLoggedFirst
    <3>. QED BY <2>2, <3>2
  <2>3. CASE filings[g].state # "ready"
    BY <1>0, <2>1, <2>3 DEF Explained, StateExplainedByCommands
  <2>. QED BY <2>1, <2>2, <2>3
<1>4. Logged(g, SubmissionIntentCommandKey(w))'
  <2>1. CASE req.type = "PrepareFilingSubmission"
    BY <1>0, <1>2, <2>1, RequestShape DEF Logged, AccountableTypeOK
  <2>2. CASE req.type # "PrepareFilingSubmission"
    <3>1. LoggedState(g) # "ready"
      BY <1>2, <1>3, <2>2, RequestShape DEF CommandAllowsState
    <3>2. Logged(g, SubmissionIntentCommandKey(w))
      BY <1>0, <3>1, LoggedStateCases DEF Explained, IntentLoggedFirst
    <3>. QED BY <1>0, <1>2, <3>2, KeysTyped DEF Logged, AccountableTypeOK
  <2>. QED BY <2>1, <2>2
<1>5. filings'[g].state = LoggedState(g)'
  <2>2. \A k \in CommandKeys : commands'[k] = IF k = req.key THEN req ELSE commands[k]
    BY <1>2 DEF AccountableTypeOK
  <2>3. CASE req.type \in {"MarkFilingAccepted", "MarkFilingRejected"}
    <3>1. commands'[OutcomeCommandKey(w)] = req /\ Logged(g, OutcomeCommandKey(w))'
      BY <1>0, <1>2, <2>2, <2>3, RequestShape DEF Logged
    <3>. QED BY <1>0, <1>2, <3>1 DEF LoggedState
  <2>4. CASE req.type = "MarkFilingNeedsReview"
    <3>1. filings[g].state \notin FinalStates
      BY <1>2, <2>4 DEF CommandAllowsState, FinalStates
    <3>2. ~Logged(g, OutcomeCommandKey(w))
      BY <1>0, <1>3, <3>1, LoggedStateCases
    <3>3. ~Logged(g, OutcomeCommandKey(w))' /\ Logged(g, ReviewCommandKey(w))'
      BY <1>0, <1>2, <2>2, <2>4, <3>2, RequestShape, KeysTyped, KeysDistinct DEF Logged
    <3>. QED BY <1>0, <1>2, <2>4, <3>3 DEF LoggedState, commandTransitions
  <2>5. CASE req.type = "MarkFilingSubmitted"
    <3>1. filings[g].state = "submitting"
      BY <1>2, <2>5 DEF CommandAllowsState
    <3>2. ~Logged(g, OutcomeCommandKey(w)) /\ ~Logged(g, ReviewCommandKey(w))
      BY <1>0, <1>3, <3>1, LoggedStateCases DEF FinalStates
    <3>3. /\ ~Logged(g, OutcomeCommandKey(w))' /\ ~Logged(g, ReviewCommandKey(w))'
          /\ Logged(g, SubmittedCommandKey(w))'
      BY <1>0, <1>2, <2>2, <2>5, <3>2, RequestShape, KeysTyped, KeysDistinct DEF Logged
    <3>. QED BY <1>0, <1>2, <2>5, <3>3 DEF LoggedState, commandTransitions
  <2>6. CASE req.type = "PrepareFilingSubmission"
    <3>1. filings[g].state \in {"ready", "submitting"}
      BY <1>2, <2>6 DEF CommandAllowsState
    <3>2. /\ ~Logged(g, OutcomeCommandKey(w)) /\ ~Logged(g, ReviewCommandKey(w))
          /\ ~Logged(g, SubmittedCommandKey(w))
      BY <1>0, <1>3, <3>1, LoggedStateCases DEF FinalStates
    <3>3. /\ ~Logged(g, OutcomeCommandKey(w))' /\ ~Logged(g, ReviewCommandKey(w))'
          /\ ~Logged(g, SubmittedCommandKey(w))'
      BY <1>0, <1>2, <2>2, <2>6, <3>2, RequestShape, KeysTyped, KeysDistinct DEF Logged
    <3>. QED BY <1>0, <1>2, <1>4, <2>6, <3>3 DEF LoggedState, commandTransitions
  <2>. QED BY <2>3, <2>4, <2>5, <2>6, RequestShape
<1>6. reseeded' = reseeded
  BY DEF TakeEffect
<1>7. StateExplainedByCommands'
  BY <1>1, <1>5, <1>6 DEF Explained, StateExplainedByCommands
<1>8. IntentLoggedFirst'
  BY <1>1, <1>4 DEF Explained, IntentLoggedFirst
<1>. QED BY <1>3, <1>5, <1>7, <1>8 DEF Explained

LEMMA ExplainedPut ==
  ASSUME AccountableTypeOK, Explained, NEW f \in Filings, NEW s \in Scenarios,
         PutFiling(f, s)
  PROVE  Explained'
<1>1. \A h \in Filings : LoggedState(h)' = LoggedState(h)
  BY DEF PutFiling, LoggedState, Logged
<1>2. \A h \in Filings \ {f} : filings'[h] = filings[h]
  BY DEF PutFiling, AccountableTypeOK
<1>3. reseeded \subseteq reseeded' /\ filings'[f].state = "ready"
  BY DEF PutFiling, AccountableTypeOK
<1>4. filings[f].state # "absent" => f \in reseeded'
  BY DEF PutFiling
<1>5. filings[f].state = "absent" => LoggedState(f) = "ready"
  <2>1. LoggedState(f) # "absent"
    BY LoggedStateCases DEF FinalStates
  <2>. QED BY <2>1 DEF Explained, StateExplainedByCommands
<1>6. IntentLoggedFirst'
  BY DEF PutFiling, Explained, IntentLoggedFirst, Logged
<1>. QED BY <1>1, <1>2, <1>3, <1>4, <1>5, <1>6 DEF Explained, StateExplainedByCommands

LEMMA ExplainedInit == AccountableInit => Explained
<1>. SUFFICES ASSUME AccountableInit
              PROVE  Explained
  OBVIOUS
<1>1. AccountableTypeOK
  BY InitType
<1>2. \A f \in Filings, k \in CommandKeys : ~Logged(f, k)
  BY DEF AccountableInit, Logged
<1>3. \A f \in Filings : filings[f].state = "absent" /\ LoggedState(f) = "ready"
  BY <1>1, <1>2, LoggedStateCases, KeysTyped DEF AccountableInit, AbsentRow
<1>. QED BY <1>2, <1>3, KeysTyped DEF Explained, StateExplainedByCommands, IntentLoggedFirst

LEMMA AlwaysExplained == AccountableSpec => []Explained
<1>1. AccountableTypeOK /\ Explained /\ [AccountableNext]_accountableVars => Explained'
  <2>. SUFFICES ASSUME AccountableTypeOK, Explained, [AccountableNext]_accountableVars
                PROVE  Explained'
    OBVIOUS
  <2>1. CASE \E f \in Filings, s \in Scenarios : PutFiling(f, s)
    BY <2>1, ExplainedPut
  <2>2. CASE \E req \in Requests : TakeEffect(req)
    BY <2>2, ExplainedStep
  <2>3. CASE UNCHANGED accountableVars
    BY <2>3 DEF Explained, StateExplainedByCommands, IntentLoggedFirst,
       LoggedState, Logged, accountableVars
  <2>. QED BY <2>1, <2>2, <2>3 DEF AccountableNext, ApplyCommand
<1>. QED BY <1>1, ExplainedInit, AccountableTypeCorrect, PTL DEF AccountableSpec

(* The books always say what the command log says, or the row was reset by  *)
(* PUT or seed and is ready: what lets a replay answer with the stored      *)
(* result (accountable/server.go:120).                                      *)
THEOREM BooksMatchLog == AccountableSpec => []StateExplainedByCommands
<1>1. Explained => StateExplainedByCommands
  BY DEF Explained
<1>. QED BY <1>1, AlwaysExplained, PTL

(* The intent is the first command of a filing (accountable/server.go:107). *)
THEOREM IntentComesFirst == AccountableSpec => []IntentLoggedFirst
<1>1. Explained => IntentLoggedFirst
  BY DEF Explained
<1>. QED BY <1>1, AlwaysExplained, PTL

(* Each effect is logged when it happens, moves a filing forward, and is    *)
(* never taken back or rewritten, except by PUT and seed                    *)
(* (accountable/server.go:122, applyCommand).                               *)
THEOREM EffectsLoggedAndForward == AccountableSpec => EffectsAreLoggedAndForward
<1> DEFINE Good ==
      /\ \A k \in CommandKeys :
           commands[k] # NoCommand => commands'[k] = commands[k]
      /\ \A f \in Filings :
           filings'[f] # filings[f] =>
             \/ /\ filings'[f].state = "ready"
                /\ filings[f].state = "absent" \/ f \in reseeded'
             \/ /\ Rank[filings'[f].state] > Rank[filings[f].state]
                /\ \E k \in CommandKeys :
                     /\ commands[k] = NoCommand
                     /\ commands'[k] # NoCommand
                     /\ commands'[k].filing = f
<1>1. ASSUME AccountableTypeOK, NEW f \in Filings, NEW s \in Scenarios, PutFiling(f, s)
      PROVE  Good
  BY <1>1 DEF PutFiling, AccountableTypeOK
<1>2. ASSUME AccountableTypeOK, Explained, NEW req \in Requests, TakeEffect(req)
      PROVE  Good
  <2> DEFINE g == req.filing
  <2>1. /\ g \in Filings /\ req.key \in CommandKeys /\ req # NoCommand
        /\ commands[req.key] = NoCommand
        /\ CommandAllowsState(req.type, filings[g].state)
        /\ filings' = [filings EXCEPT ![g] = BookedRow(req)]
        /\ commands' = [commands EXCEPT ![req.key] = req]
    BY <1>2, RequestShape DEF TakeEffect, Applies
  <2>2. \A k \in CommandKeys : commands'[k] = IF k = req.key THEN req ELSE commands[k]
    BY <1>2, <2>1 DEF AccountableTypeOK
  <2>3. \A h \in Filings : filings'[h] = IF h = g THEN BookedRow(req) ELSE filings[h]
    BY <1>2, <2>1 DEF AccountableTypeOK
  <2>4. filings[g].state # commandTransitions[req.type]
    <3>1. /\ filings[g].state = LoggedState(g)
          /\ req.key \in CommandKeys /\ ~Logged(g, req.key)
      BY <1>2, <2>1, ExplainedStep DEF Logged
    <3>2. \A k \in {SubmittedCommandKey(WorkflowID(g)), OutcomeCommandKey(WorkflowID(g)),
                    ReviewCommandKey(WorkflowID(g))} :
            Logged(g, k) => Logged(g, SubmissionIntentCommandKey(WorkflowID(g)))
      BY <1>2, <2>1 DEF Explained, IntentLoggedFirst
    <3>3. CASE req.type = "PrepareFilingSubmission"
      <4>1. LoggedState(g) = "ready"
        BY <1>2, <2>1, <3>1, <3>2, <3>3, RequestShape, LoggedStateCases
      <4>. QED BY <3>1, <3>3, <4>1 DEF commandTransitions
    <3>4. CASE req.type = "MarkFilingSubmitted"
      BY <2>1, <3>4 DEF CommandAllowsState, commandTransitions
    <3>5. CASE req.type \in {"MarkFilingAccepted", "MarkFilingRejected"}
      BY <2>1, <3>5 DEF CommandAllowsState, commandTransitions
    <3>6. CASE req.type = "MarkFilingNeedsReview"
      <4>1. LoggedState(g) # "needs_review"
        BY <1>2, <2>1, <3>1, <3>6, RequestShape, LoggedStateCases DEF FinalStates
      <4>. QED BY <3>1, <3>6, <4>1 DEF commandTransitions
    <3>. QED BY <2>1, <3>3, <3>4, <3>5, <3>6, RequestShape
  <2>5. Rank[BookedRow(req).state] > Rank[filings[g].state]
    <3>1. BookedRow(req).state = commandTransitions[req.type]
      BY DEF BookedRow
    <3>. QED BY <2>1, <2>4, <3>1, RequestShape DEF CommandAllowsState, commandTransitions, Rank
  <2>. QED BY <2>1, <2>2, <2>3, <2>5
<1>3. ASSUME UNCHANGED accountableVars
      PROVE  Good
  BY <1>3 DEF accountableVars
<1>. HIDE DEF Good
<1>4. AccountableTypeOK /\ Explained /\ [AccountableNext]_accountableVars
        => [Good]_accountableVars
  BY <1>1, <1>2, <1>3 DEF AccountableNext, ApplyCommand
<1>5. AccountableSpec => [][Good]_accountableVars
  BY <1>4, AlwaysExplained, AccountableTypeCorrect, PTL DEF AccountableSpec
<1>. QED BY <1>5 DEF Good, EffectsAreLoggedAndForward
=============================================================================
