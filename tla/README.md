# Verification of the filing lab

This directory is a TLA+ development of the program in `src/`: modules that
model it, TLC configurations that check them on small instances, and theorems
about them that the TLAPS proof system checks for every value of the constants.

The program files tax filings with an external authority. Its claim
(`docs/PROOF_CONTRACT.md`) is that a filing has at most one external effect and
ends with the outcome the authority decided, whatever crashes, lost replies,
duplicate starts, cancellations and losses of the workflow database happen on
the way. Nothing in the program is transactional across components: what makes
the claim hold is that every identity is derived from the filing, that intent is
booked before the effect, that the authority deduplicates by operation id, and
that the books accept each command once. The models are about exactly that.

## 1. Inventory

| Component | State | Operations | Talks to |
|---|---|---|---|
| **Identities** (`internal/domain`) | none | workflow id, operation id and command keys of a (filing, year); `DecodeFilingInput` | everybody |
| **Accountable** (`internal/accountable`, `cmd/accountable`), the books | PostgreSQL: `filings`, `domain_commands`, `workflow_start_conflicts` | `POST /commands`, `PUT /filings`, `POST /seed`, `GET /filings` (also the reconcilable list), record a start conflict, metrics | called by workflow, worker, operator |
| **Authority** (`internal/authority`, `cmd/authority`) | maps under one mutex, saved whole as one row of `authority_state`; a goroutine per unfinished operation | `POST /submissions` in eleven scenarios, `GET /submissions/{id}`, completion and callback, restart | called by workflow and operator; posts callbacks to the worker |
| **Filing workflow** (`internal/workflow`, `Filing`) | checkpoints of its steps in the DBOS database; local variables rebuilt from them | validate, prepare, find existing, submit, resolve ambiguous, resubmit, mark submitted, wait or poll, record outcome, final reconciliation | Accountable, authority, DBOS |
| **Scheduled reconciliation** (`internal/workflow`, `Reconcile`) | its own checkpoints | for each due filing: finalise, recreate, start or escalate | Accountable, authority, DBOS |
| **Worker** (`cmd/worker`) | running executions; Kafka offsets | recovery, callback endpoint (`dbos.Send`), event consumer (start, compare input, record conflict, commit) | DBOS, Kafka, Accountable |
| **Operator tool** (`cmd/opsctl`) | none | list, inspect, cancel, resume, send, start, reconcile | DBOS, Accountable, authority |
| **DBOS runtime** (library) | workflow rows, step results, messages, queue | at-least-once steps, recovery up to 20 attempts, cancel, resume, send/receive, patches | used by worker and operator |
| **Event producer** (`cmd/producer`) | none | publish an event, once or several times | worker, over Kafka |
| **Chaos, scenarios, deployment** | none | kill the process at named points, drive the system | |

What is hard here, and what must be true of each part:

- **Accountable.** Commands arrive twice, late, after a successor's commands,
  with another detail, after a reset of the row. Correct when a command takes
  effect once, the state is what the log explains, states only move forward, a
  final state stays, and one operation is booked on one filing.
- **Authority.** Writes fail with unknown fate, the process dies between
  recording, completing and calling back, callbacks are lost or duplicated.
  Correct when whatever somebody was told is durable, an effect is counted once,
  and unfinished work is resumed.
- **Filing workflow.** A crash between a step's effect and its checkpoint, a
  request served after its caller gave up, a stale snapshot, a callback racing a
  poll, retries running out, cancellation with a step in flight, a lost DBOS
  database. Correct when the effect comes after the intent and at most once, no
  outcome is invented, a successful run tells what the books say, and every run
  ends.
- **Reconcilers.** They act on lists and statuses read earlier, delete and start
  in two calls, and several may run at once. Correct when they only book what
  the authority decided, remove only workflows that failed, never keep the next
  filings from being looked at, and in the end resolve reviews and start lost
  work again.
- **Event consumer.** Redelivery, conflicting input under one workflow id, a
  start or a record that fails, commits past a failed event, an operator and a
  reconciler that start the same filing. Correct when every event is either
  started, absorbed, or recorded as a conflict before its offset is committed.
- **Upgrade.** Two builds take turns on one history. Correct when a v2 worker
  inserts no step into a v1 history, new work takes the pre-check, and no history
  mixes the steps of both.

`PROJECT.json` lists the hazards line by line, each with the properties that
would notice it going wrong.

## 2. Modules

    Domain --+--> Accountable ------+--> FilingWorkflow ==implements==> FilingContract
             |                      |      |        |
             +--> ProviderContract -+      |        +--> SecondExecution
             |         ^                   +--> Reconciliation
             |         | implements
             +--> Authority
             +--> EventStarts
             +--> PatchUpgrade

An arrow is EXTENDS, except for Authority, which INSTANCEs `ProviderContract`, and
for `FilingContract`, which FilingWorkflow and, through it, SecondExecution and
Reconciliation INSTANCE. The proofs are in `AccountableProofs`,
`AuthorityProofs`, `FilingWorkflowProofs`, `FilingRefinementProofs` (which extends
it), `SecondExecutionProofs` and `ReconciliationProofs` (which extend that),
`EventStartsProofs` and `PatchUpgradeProofs`.

**`Domain`** (`internal/domain/types.go`). A filing is a model value that stands
for a (filing id, year) pair; `WorkflowID`, `ProviderOperationID` and the four
command keys are injective functions of it, as the formatted strings are. That
workflow id and operation id are the same string is kept.

**`Accountable`** (`internal/accountable/server.go`). `filings` and `commands`
are the tables. A command runs in one serializable transaction, so
`ApplyCommand` is one action: it takes effect (`TakeEffect`: the key is new, the
state admits the command, an intent's operation is free), or it replays
(`Replays`: the key holds the same request in every field). Everything else is
`Refused` and changes nothing. `PutFiling` is `PUT /filings/{id}` and one row of
`POST /seed`: it sets a row back to ready and clears its operation, but leaves
the command log. The history variable `reseeded` remembers where that happened
to an existing row. Abstracted: times, `duplicate_attempts` and metrics, which
nothing in the modelled code reads back; free text is a value of `Details`,
which matters because a key reused with another detail is a conflict.

**`ProviderContract`** is the ledger as the workflow may rely on it, with the
replies as `authority.Client` reports them: accepted, rejected, ambiguous or
retryable. Counters are abstracted: what may be refused may be refused any
number of times, and any submission may end ambiguous, which covers 500s, 504s
and a 409 whose body is not JSON.

**`Authority`** (`internal/authority/server.go`) is the server. One action per
critical section: a submission of a known, exhausted, throttled or new
operation; a status lookup; and the steps of `scheduleCompletion` (complete,
resume, callback taken or given up, finish). Every write of the row goes through
`Saved` or `NotSaved`. A write that reports an error restores memory while the
row may or may not have changed, and one that timed out may be committed even
later (`lateWrites`, `LateWrite`). `Restart` loads the row and resumes what is
unfinished. `observed` and `told` are histories of what callers and workers
learnt; `disturbed` records that a write or a callback failed since the start.

**`FilingWorkflow`** (`internal/workflow/filing.go`, with the parts of
`cmd/worker` and `cmd/opsctl` that start, recover, cancel, resume and message a
workflow) composes `Accountable` and `ProviderContract`. `wf[f]` is what the
DBOS database holds: the status, and the checkpoints as the step they lead to
(`pc`) together with the local variables rebuilt from them (`snap` is the state
read by validate or set by prepare, then `outcome`, `detail`, `polls`). A step is
three actions or more: `Send`; one of the handlers; and the `After...` action
that checkpoints the answer and decides where it leads. Between any two of them
the worker can die (`Crash`), the caller can time out (`GiveUp`), the workflow
can be cancelled, a callback can arrive, the DBOS database can be lost
(`LoseRuntime`). A request that lost its caller stays in `latePosts` or
`lateCommands` and may be served at any later time, any number of times.
`asserted` is the history of what operators sent.

`AfterValidate` checkpoints the whole branch that follows a step, although the
code recomputes it from the checkpointed results: both are deterministic, so
they agree. The operation-mismatch error after validate is left out, which no
client of Accountable in the repository can provoke. The v2 risk step has no
effect on books or ledger; `PatchUpgrade` is about it. Here one execution of a
workflow runs at a time; `SecondExecution` has two, and with it what becomes of an
execution that swallows DBOS's refusal of a step.

**`FilingContract`** is the abstract specification: for each filing the book, the
effect and what operators asserted. An effect only after intent and only once;
an outcome only if the authority or an operator vouches for it; never back.
`FilingWorkflow` implements it with `book` = the state in Accountable and
`effect` = the status in the ledger.

**`Reconciliation`** (`workflow.Reconcile` in `internal/workflow/filing.go`,
`opsctl reconcile -apply`) puts any set of reconcilers beside the workflows:
`"scheduled"` is the workflow, every other name an operator's process.
`passes[r]` is where a pass is (`at`), the rows of its list it has not come to
(`due`), and what it read about the one at hand (`row`, `outcome`). A pass
fetches the list (`FetchDueRecords`), looks at the workflow row of one filing
(`LookAt`, with `StageFor` as the policy the two share), and then asks the
provider and books the outcome (`AskProvider`, `RecordOutcome`) or deletes and
starts the workflow (`DeleteWorkflow`, `StartWorkflow`). Anything may happen
between two of these, and `DeleteWorkflow` is by id, whatever the row is by then.
A refused outcome command ends the pass with the rest of its list. The
scheduled pass is a DBOS workflow, so a step may be taken again after a crash
(`GoesOn`) and a command may be sent twice (`RecordAgain`); an operator's pass is
gone with its process (`PassEnds`). `TakeBackup` and `RestoreBackup` replace the
rows and messages of the DBOS database by those of any earlier moment, as
`scenarios/dbos-database-loss.sh` does.

**`SecondExecution`** is the filing workflow with two executions of one workflow id,
which `opsctl resume` makes when the cancelled execution is still in a step. DBOS keeps
one history: at every step one of the two checkpoints first and the other is refused.
`running` and `call` stand for the execution that wins the step at hand, `other` for the
one beside it. As long as that one `follows`, it may send the request of the step too
(`SecondSends`), and the refusal of a checkpoint ends it: most steps return the error.
Two do not. `filing.go:189` takes any error of submit for exhausted retries and books a
review, and `filing.go:278` takes any `DBOSError` of `dbos.Recv` for a timeout and polls
on. An execution refused there goes astray (`SecondStrays`, or `ResumeAstray` when a
cancellation refused it and a resume let it go on): it records a review or whatever it
finds (`Found`, `StrayRecords`), and may end the row (`SecondEnds`). From then on the
history is `mixed`. The module does not keep the history step by step: where it may be
mixed, the winner may at any step find a result of the other execution (`Divert`, with
`Diversions` for where each step can lead), be refused and wait for the other one's result
(`Yield`), or go on as usual. That allows more than any one interleaving of the two does,
which is sound for the safety properties and for `BothRunDown`.

**`EventStarts`** (the event consumer of `cmd/worker`, `cmd/producer`, `opsctl start`
and the table of conflicting starts in Accountable). `log` and `committed` are the
topic's partitions and the group's offsets. `fetch[p]` is the poll being treated:
where it begins and ends, up to where it has been treated (`at`), and up to where
it may be committed (`done`), which stops at the first record of the poll that
failed. An event is started, its input read back, and a difference recorded, in
three calls any of which can fail with or without effect. `held` is the history of
the inputs a workflow row ever had. Reconcilers appear as `RemoveRow` and
`RecreateRow`, which starts any filing that has no row, removed or never made.

**`PatchUpgrade`** is the v2 patch: a history as the names of its steps, executions
that replay what is recorded and execute what is not, `EvaluatePatch` with the
three cases of `dbos.Patch`, the error on a step recorded under another name, and
a deployment that goes from v1 to v2 and back with crashes at every point.

Operators marked "Seeded fault" are one line away from a definition of the
code. Nothing uses them: they are for replacing that definition to see that a
property notices.

## 3. What is checked

`tlc -config X.cfg M` in this directory; `PROJECT.json` pairs each run with its
module. Sizes are distinct states.

| Run | Question | Size |
|---|---|---|
| `accountable` | Do books and log agree, and is no operation booked twice, for every command any client can build, in every order, with resets? | 13 k |
| `filing_losses` | Is intent ahead of the effect, no outcome invented, a success what the books say, and every step one of the contract, when the DBOS database is lost once with requests under way, or replaced by a backup of any earlier moment, and an operator may assert an outcome? | 3.21 M |
| `filing_retries` | Is intent ahead of the effect and no outcome invented under throttling and lost replies, with step retries, a poll, recovery up to its limit, cancel, and a resume beside a running execution, of which the loser may go on by itself? Does whatever either execution does leave less to do, and does every workflow end? | 0.69 M |
| `reconcile_scheduled` | With the scheduled pass as a second writer of outcomes, crashing and repeating its steps: is the contract kept, is a command of the pass refused, or does a run fail at its end, only over a filing that is settled or under review, is a success what the books say, is every review resolved and lost work started again? | 0.26 M |
| `reconcile_operator` | Does one operator who reconciles remove only failed workflows? | 1.40 M |
| `authority_ledger` | Are effects counted once, and has unfinished work a goroutine, with failed, secretly committed and late writes and a restart? | 0.11 M |
| `authority_contract` | With writes settled when they return: is what was told durable, are callbacks truthful, is the server the ledger the workflow relies on, and is a recorded operation finished across two restarts? | 93 k |
| `events_handled` | Is a committed event started or recorded unless something failed, is a commit never ahead of its own poll, is a loser one that never ran, and is an operator told the truth? | 0.95 M |
| `upgrade` | Do histories never mix the builds, does v2 recover every v1 history, is nothing filed behind an unchecked marker, and does everything complete? | 13 k |
| `not_found`, `reconcile_race`, `events_skipped` | The three findings of section 6. | stop early |

**Bounds.** `MCAccountable` has two filings, so that one can ask for the
operation of the other, and two details. The workflow runs have one filing:
filings meet only where Accountable keeps an operation unique
(`OperationFree`), which `accountable` checks with two, and in a reconciler's list,
where each row is treated for itself; the proofs hold for any number.
`StepRetries`, `StatusPolls` and `MaxRecovery` are 5, 3 and 20 in the code; 0 and 1
are enough because the workflow only compares the counter with the limit, so each
run takes both sides of the comparison, and the runs differ in which of a retry, a
crash, a poll and a resume they combine. `MaxLosses`, `MaxBackups` and `MaxResumes`
are 1: a second loss starts from the same kind of state, with late requests of an
earlier run, as the first leaves. `MaxDeletes` is 2 where deletions race, so that
what the first deletion recreated can be deleted again. Operators' messages are in
`filing_losses`, where an old message meets a new run; beside a second execution they
are in the proofs only, as are two resumes. `MaxRestarts` is at most 2 (a
restart after a restart). `MaxLateWrites` is 1 or 0: `ObservedIsDurable` and the
refinement do not survive a late write (section 6), so `authority_contract` says
what holds without one. `EventStarts` has one filing with two conflicting events
and an unreadable record, one partition of two records (partitions are treated
alike and the proofs are for any set of them), two failures, two crashes and one
removal; `PatchUpgrade` two rollbacks and three crashes. Scenarios are chosen per
run so that each branch of the servers is taken in some run; two scenarios the code
treats alike are not used together.

**Deadlock** is not checked in the workflow, reconciliation, event and upgrade
runs: a system whose filings are done, whose topic is consumed and whose operators
are idle stops, as it should.

**Fairness** is assumed where the code or its deployment keeps something going.

- `SFairSpec` (and `Settles`): weak fairness of `Progress(f)`, all that a worker, or
  a server it waits for, does about one filing: goroutines are scheduled, an HTTP
  call is answered or hits the timeout every client sets, `dbos.Recv` has a timeout,
  and a dead worker is restarted (its recovery is counted by `attempts`). A step that
  finds another's result (`Divert`) is progress too; of the other execution nothing is
  assumed. Nothing is
  assumed of callbacks, completions, operators or late requests, so `Settles` does
  not rest on the authority ever deciding. Crashes are bounded by the recovery limit
  and resumes by `MaxResumes`: an operator who resumes a cancelled workflow for ever
  would keep it from ending.
- `ReconcilingSpec` (`ReviewIsResolved`, `LostWorkIsRecreated`): the schedule starts
  the pass again and again (`RECONCILE_CRON`), and infinitely often its list has the
  filing, its calls get through and its checkpoints stay, hence strong fairness: a
  pass that fails each time, or a database that never answers, would resolve nothing.
  Nothing is assumed of the workflows or of operators.
- `ConsumingSpec` (`EventsAreHandled`): the worker is restarted and its loop goes on.
- `UpgradeFairSpec` (`UpgradeCompletes`): executions of a deployed build are scheduled.
- `Authority!FairSpec` (`RecordedIsFinished`): the goroutine of an operation goes on; a
  callback that is never taken ends after ten attempts.

**Properties worth a remark.** `SuccessMatchesBooks` and `FailsOnlyWhenSettled` relate
the end of a run to what all earlier requests, including those still under way, and the
reconcilers did to the books. The second is about the two errors of the last steps. The
outcome command is a 409 when its key was used with another detail, and the final
comparison (`filing.go:314`) fails when another writer came in between; either way the
filing is settled or under review, so that the failed run leaves nothing behind that
nobody looks at. Both are about single executions: in a history that two executions have
mixed they do not hold (section 6), and `filing_retries` does not list them.

`WorkRunsDown` is why retries, status polls, resubmissions and recoveries come to an
end. `WorkLeft(f)` is a tuple: disasters and resumes still to come, how far the row is
from being finished, the recovery attempts, the execution, the step, the polls, the
retries of the step and the phase of its call. Whatever happens to a workflow makes it
smaller in the lexicographic order: a crash may give back the retries of a step, but
costs an execution, and an execution costs a recovery attempt. A path that leads back,
such as a resubmission whose ambiguous answer is looked up and resubmitted once more,
breaks it although every bound on retries is kept. It is the part of `Settles` that does
not depend on fairness: what `Settles` adds is that the next step does come.
`BothRunDown`, which `filing_retries` checks, is the same for two executions: a step
lowers what the winner has left or, with that unchanged, what the other one has
(`OtherLeft`), so that two executions cannot keep each other going by refusing each
other's steps or by finding each other's results.

`NothingSkippedUnlessFailed` and `CommitCoversItsPoll` are what is left of the
prefix the consumer means to commit, see `events_skipped` in section 6. In the same
way `OnlyFailedAreRecreated` is what one operator alone guarantees, see
`reconcile_race`.

## 4. What is proved

TLAPS checks these for any set of filings, scenarios, events, partitions and
reconcilers and any bounds. The assumptions are those of the modules: scenarios are
known ones and null values are not among the values they stand for
(`DomainAssumption`, `AccountableAssumption`, `WorkflowAssumption`,
`MessageAssumption`, `OperatorAssumption`); reconcilers have their details
(`ReconciliationAssumption`); the filings of one authority are finite in number, as its
effects are counted (`FiniteAssumption`); bounds are numbers (`BoundsAssumption`,
`UpgradeAssumption`); an event's id determines the event, and is not one of those that
`opsctl` makes (`EventAssumption`). Three results about the authority are stated for
`MaxLateWrites = 0`.

**`AccountableProofs`**: types, `OperationOwnedOnce`, `IntentLoggedFirst`,
`StateExplainedByCommands`, and the action property
`EffectsAreLoggedAndForward`, all for `AccountableSpec`. The invariant is the
conjunction of the first four: that the state is the one the log leads to needs
to know that a logged later command implies a logged intent, and the other way
round a command only takes effect in a state the log explains. The action
property follows from the types and the ranks of the states.

**`AuthorityProofs`**: types, `EffectsCountedOnce` and `UnfinishedIsUnderWay` with
any number of failed and late writes and restarts, and, when a write's fate is
settled as it returns, `ObservedIsDurable`, `CallbacksAreTruthful` and
`AuthorityImplementsProvider`. A count that was right in memory is only right in
the row if every write under way carries one that is right, so the invariant speaks
of memory, row and late writes alike. Without late writes, row and memory agree on
everything that was answered, and each write moves an operation forward, which is
what the ledger of `ProviderContract` sees as its step.

**`FilingWorkflowProofs`**: `Invariance`, that `IInv` holds always, and from it
`TypeCorrect`, `IntentIsDurableFirst` and `OutcomesAreTruthful`. Neither
`IntentBeforeEffect` nor `TruthfulOutcome` is inductive: that the books hold the
operation is something the workflow read several steps before it submits, and
that the authority decided is something it read several steps before it books.
`IInv` says that wherever such a fact is carried, it is still true:

- `CallsFit`: a call belongs to a running execution at a step, and an answer is
  one that step can get;
- `IntentCarried`: whoever knows or relies on a filing being prepared (its state,
  its logged intent, the position of the workflow, the answers of validate and
  prepare, every abandoned submission) is right, and abandoned intents ask for the
  filing's own operation;
- `OutcomeCarried`: every final outcome in a checkpoint, a mailbox, the answer of
  a lookup or a submission, or an abandoned command is vouched for by the
  authority or an operator.

The argument separates what a step does to the world (books, ledger, asserted)
from what it does to the runtime. Facts about the world are monotone: an operation
is never taken from a filing, an effect never forgotten or changed once decided, an
assertion never withdrawn. So every carried fact stays true through any step of the
world, whoever takes it, and a step of the runtime need only be looked at for the
facts it adds. The proof has one step per action of `Next`.

The last part is `WorkAlwaysRunsDown`, for `WorkRunsDown`, and `WorkIsFinite`: the
tuple consists of natural numbers. There is one lemma for each position of the tuple,
which says what has to be kept to the left of it, and each action cites the one of the
position it lowers. Beyond `IInv` this needs only `NotBegun`: a call that has not begun
is `Idle`, with no tries spent, so that a crash of a worker that was not executing the
filing changes nothing. That a lexicographic order on tuples of naturals is
well-founded is a fact about numbers which the module does not restate.

**`FilingRefinementProofs`**: `FilingImplementsContract`, that the workflow with
all its machinery implements `FilingContract`, and `FilingUsesBooks`, that what it
does to the books is what `AccountableSpec` allows, so that the theorems about
Accountable hold under the workflow as well (`FilingBooksMatchLog`,
`FilingBooksMoveForward`). Both rest on `IInv`: that an effect is only made in a book
past ready needs the part of `IntentCarried` that ties the operation to the state,
and that a final command is vouched for is `OutcomeCarried`. Six actions move the
books, the ledger or the assertions; each maps to one step of the contract or, for a
replay, a duplicate submission and a command that repeats a state, to a stutter. All
others map to a stutter.

`FilingUsesProvider` is the same for the ledger: every step of the workflow, its late
requests included, is one of `ProviderContract` or a stutter. With
`AuthorityImplementsProvider` the two meet in the middle: what the workflow relies on is
what the server is proved to do. It needs `ScenariosKnown`, that a run, and a submission
that has outlived its run, has the scenario it was started with, which no checkpoint
touches (`AfterKeeps`).

**`ReconciliationProofs`**: `RInv`, that is `IInv` with any set of reconcilers, losses,
backups and restores, and what passes and backups carry: the outcome a pass has read
is still the authority's answer, and a backup of whatever age holds only intents that
are booked and outcomes that are vouched for. That follows from the same monotonicity:
the contract takes nothing back, so what was true when a backup was taken or a provider
asked is true now. From it, `ReconciliationImplementsContract`,
`ReconciliationUsesBooks` (so the theorems about Accountable hold here as well) and
`RefusalsAreSettled`: an outcome command is only refused in a final state, because its
outcome is the authority's and the intent behind it is in the books.

`ReconciliationUsesProvider` follows the scenario of a start from the seeded filing
through the list of a pass to the row it starts, and through backups. In
`OnlyDeletionsRenewWork` the measure of `WorkRunsDown` is used again: a start by a
reconciler, a repeated step of its pass or a restored backup (which is a loss) only
lowers it, and a deletion is the one step that may give a filing work anew.

The rest of the module starts with `SuccessMatchesBooks`, for the workflow alone and with
reconcilers, deletions and restored backups. The strengthening `Told` follows an
outcome from the answer of the command that booked it to the end of the run: an "ok"
means that the books are there, whether the command took effect or was replayed (which
needs `StateExplainedByCommands`), and the contract takes no outcome back. The same
holds of every run in a backup. `FailuresAreSettled` (`FailsOnlyWhenSettled`) needs both:
an outcome that was told stays unless it was a review, and a command of a prepared filing
that is refused was either logged under the same key, so that the state the log leads to
is an outcome or a review, or met a state that is past its transition. Last comes `OnlyFailedAreRecreated`, for one operator
alone and no loss of the database: a failed workflow does not run and is not resumed
(`FailuresStay`), so what the operator read of it is still so when the row is deleted.

**`SecondExecutionProofs`**: the invariant, the contract, the books, the ledger and the
measure with a second execution that may go astray. The history two executions share
is not described by one position, and the proofs do not need it to be: `IInv` speaks of
what is carried, and whatever an execution takes from the other one is vouched for. A
request of the loser is one that `IInv` already allows to be under way (`SecondSendsStep`).
What a stray execution records is a review, or something the authority or an operator
said (`FoundTrue`). Where the winner is diverted to is a place behind its intent with an
outcome that is true (`DiversionsFurther`), and it is further on, or one poll later, which
is what `SecondExecutionRunsDown` (`BothRunDown`) needs of it. `SInv` adds only that a
follower has a winner and that nothing runs beside a row that is gone.

**`EventStartsProofs`**: `EInv` is the conjunction of what is true of rows, their
history and the conflicts (`World`), of each partition's poll (`Polls`: everything
processed is handled, unless something failed), and of the operator (`OperatorKnows`). What is
handled stays handled, so a step of one actor cannot spoil what another knows, and a
workflow id has had at most one input until a row is removed. From it come
`NothingIsSkipped`, `CommitsCoverTheirPoll`, `LosersNeverRan`,
`OperatorsAreToldTheTruth` and the types.

**`PatchUpgradeProofs`**: `HistoryIsOneProgram`, `NothingFiledUnchecked`,
`UpgradeNeverFails`, the types and `NewWorkIsChecked` (work begun by v2 takes the
pre-check, as long as no deployment was rolled back; no run lists it), for any number of crashes and
rollbacks. `UpgradeInv` says that an execution agrees with the history about the steps
it has taken, so that what it appends goes on with its own program; and that the patch
is only switched on before the history has a second step, or where the marker is the
second. Once that is decided, the whole history follows from it.

**Only model-checked**: liveness (`Settles`, `RecordedIsFinished`, `ReviewIsResolved`,
`LostWorkIsRecreated`, `EventsAreHandled`, `UpgradeCompletes`), which is out of the
prover's reach: it takes ENABLED to say that fairness makes the next step come. Every
invariant and action property of a passing run is proved; `BothRunDown` for `SSpec`, and
the measure of one execution, `WorkRunsDown`, for `Spec` (no run lists it, as
`BothRunDown` contains it).

## 5. Not modelled, and the plan

Limits of the models:

- A filing that is reset by `PUT` or `POST /seed` while a workflow or an operation of
  it exists is only modelled in `Accountable`: in `FilingWorkflow` a filing is entered
  once. A reset forgets the operation id the effect was made under, so nothing about
  intents could hold, and in the repository only test drivers do it.
- An execution whose row is deleted is taken to end with its step: its request may
  still be served, but it takes no further step. The scheduled pass is at rest when the
  DBOS database is lost or restored, since its own row goes with it.
- At most two executions of a workflow run at a time. A history that two executions have
  mixed is over-approximated by `Divert` and `Yield`. The poll rounds of a stray execution
  that find nothing have no effect and are not counted; a command it has under way when
  it dies is served while the stray counts as alive, or not at all, so that none outlives
  a loss of its row; and the result it returns is not told apart from the winner's, so
  nothing is said of what such a workflow returns.
- In `EventStarts` partitions are treated in any order within a poll, and DBOS's
  conflict error and its answer with the existing workflow are one case, as both
  callers make them. What the workflows themselves do is not part of it.
- `PatchUpgrade` takes the shortest path of a filing's steps, under one application
  version, as `scenarios/code-upgrade.sh` runs both builds.
- Of DBOS, queue concurrency and the matching of application versions are not
  modelled.

Left out for good: metrics, listing and inspection (they change nothing), fault
injection (a crash may happen wherever a kill point is), the scenario scripts and the
deployment, and times as such: a timeout may strike, and a filing become due, at any
moment.

Next: a second worker with the queue's concurrency limit, and resets of a filing under
a running workflow.

## 6. Where the code differs from what it says

Each of these has a run that shows it.

- **A not-found lookup proves nothing about a request still under way**
  (`not_found`, `filing.go:213`). The first submission can be served after the
  lookup. The effect stays single because the authority deduplicates by operation
  id, which `ImplementsContract` shows, not because of the lookup.
- **A reconciler can remove a cancelled workflow** (`reconcile_race`,
  `filing.go:437`). `docs/PROOF_CONTRACT.md:36` says that reconcilers "preserve and
  escalate `CANCELLED`" histories. Both read a status and later delete by id: when two
  read the same failed workflow, the second deletes what the first has started and an
  operator has cancelled since, and starts it again. The recovered scheduled pass does
  the same when it repeats its delete. `OnlyFailedAreRecreated` holds for one operator.
- **A failed event is passed by a later commit** (`events_skipped`, worker
  `main.go:156`). The consumer means to commit "a contiguous committed prefix"
  (`main.go:160`) and to have a failed event "redelivered after restart" (`main.go:181`).
  But the partitions to hold back are made anew for each poll while the fetch position
  goes on, so the commit of a later poll covers the failed event. Nothing starts it or
  records it. `NothingSkippedUnlessFailed` and `CommitCoversItsPoll` are what holds.

Seen while modelling, and left to a remark because no line of the repository says
otherwise as plainly or the properties above already give the limits:

- **An execution that lost a step does not always stop** (`filing.go:189`, `:278`). After
  a resume beside a running execution, or a cancellation and a resume, DBOS refuses one
  of the two its checkpoint. At submit the refusal counts as exhausted retries and the
  loser books a review of a filing that is being filed; at `dbos.Recv` it counts as a
  timeout and the loser polls on. A review booked that way can make the winner's final
  comparison (`:314`) fail without any loss of the database, and the returned result may
  be the other execution's. The books stay right: `SInv` and `ImplementsContract` are
  checked and proved with it, and the review is one a reconciler resolves.
- **An operator's word is final** (`cmd/opsctl/main.go:109`). An outcome sent by hand is
  booked though the authority may decide otherwise later; `TruthfulOutcome` counts it as
  vouched for, since that is what `send` is for.
- **An ambiguous resubmission is taken for an accepted one** (`filing.go:241`).
  Ambiguity must be resolved by a status lookup (`authority/server.go:524`), but the
  result of the resubmission is only compared with "rejected". The filing is marked
  submitted although the authority may have nothing, and ends in review with
  "authority still processing".
- **A late write can remove an acknowledged operation** (`authority/server.go:207`). A
  write that timed out has an unknown fate and the row has no version, so it can
  overwrite a later, acknowledged one. A restart then forgets the operation, and the
  deduplication the workflow rests on with it. This is why three theorems of section 4
  ask for `MaxLateWrites = 0`.
- **A reconciler can cause the mismatch at the end of a run** (`filing.go:314`). A run
  that ends in review re-reads the books; when the scheduled pass has resolved that
  review meanwhile, the run fails although the filing is settled. Nothing is lost: the
  filing is final and no longer listed.
