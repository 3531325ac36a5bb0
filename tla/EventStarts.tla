---------------------------- MODULE EventStarts ----------------------------
(***************************************************************************)
(* How filing events start workflows (cmd/worker, consumeEvents), beside   *)
(* the operator's direct start (cmd/opsctl start): both run the workflow   *)
(* under the filing's workflow id, read back the input that is durable     *)
(* under that id, and record a conflict with Accountable when it is not    *)
(* the one they asked for.                                                 *)
(*                                                                         *)
(* Kafka keeps the committed offsets; the client's fetch position, which   *)
(* runs ahead of them, is in the worker's memory and lost in a crash.      *)
(***************************************************************************)
EXTENDS Domain, Sequences

CONSTANTS Events,       \* the events producers publish, each with its id
          Unreadable,   \* a record that is no event
          Partitions,
          PartitionOf,  \* filing, the record key -> partition
          MaxLog,       \* bounds: records in a partition,
          MaxCrashes,   \* crashes of the worker,
          MaxFailures,  \* failed starts, lookups and conflict records,
          MaxRemovals,  \* and rows removed by a reconciler or a restore
          NoInput

VARIABLES log,          \* partition -> its records
          committed,    \* partition -> the offset the group has committed
          worker,       \* where consumeEvents is
          fetch,        \* partition -> the records of this poll
          rows,         \* filing -> input of its workflow row
          conflicts,    \* the table workflow_start_conflicts
          operator,     \* the opsctl start under way
          held,         \* history: the <<filing, input>> that were a row
          crashes, failures, removals   \* counters for the bounds

kafkaVars == <<log, committed>>
workerVars == <<worker, fetch>>
boundVars == <<crashes, failures, removals>>
eventVars == <<log, committed, worker, fetch, rows, conflicts, operator, held,
               crashes, failures, removals>>

(* The operator's tool makes the id of a conflict from both inputs.  It is  *)
(* told from the id of an event by its prefix.                              *)
OperatorConflictIDs ==
  {<<"opsctl", f, existing, requested>> :
     f \in Filings, existing \in Scenarios, requested \in Scenarios}

ASSUME EventAssumption ==
  /\ \A e \in Events : /\ e.filing \in Filings /\ e.scenario \in Scenarios
                       /\ e.id \notin OperatorConflictIDs
  /\ \A d, e \in Events : d.id = e.id => d = e
  /\ Unreadable \notin Events /\ NoInput \notin Scenarios
  /\ PartitionOf \in [Filings -> Partitions]
  /\ MaxLog \in Nat /\ MaxCrashes \in Nat /\ MaxFailures \in Nat /\ MaxRemovals \in Nat

(* A poll of partition p brought the records first+1..end; those up to at   *)
(* have been treated and those up to done may be committed.                 *)
Fetched(first, end) == [first |-> first, at |-> first, done |-> first, end |-> end]

Down == [pc |-> "down", at |-> NoInput, existing |-> NoInput]
Waiting == [Down EXCEPT !.pc = "poll"]
Treating == [Down EXCEPT !.pc = "handle"]
NoCommandYet == [pc |-> "told", filing |-> NoInput, requested |-> NoInput,
                 existing |-> NoInput, told |-> ""]

EventsInit ==
  /\ log = [p \in Partitions |-> <<>>]
  /\ committed = [p \in Partitions |-> 0]
  /\ worker = Down
  /\ fetch = [p \in Partitions |-> Fetched(0, 0)]
  /\ rows = [f \in Filings |-> NoInput]
  /\ conflicts = {} /\ held = {}
  /\ operator = NoCommandYet
  /\ crashes = 0 /\ failures = 0 /\ removals = 0

-----------------------------------------------------------------------------
(* What both kinds of start share. *)

(* Seeded fault: a later start replaces the row. *)
RunWorkflowReplacing(f, input) ==
  /\ rows' = [rows EXCEPT ![f] = input]
  /\ held' = held \cup {<<f, input>>}

(* Only the first start of a workflow id makes a row; a later one gets the  *)
(* existing workflow, with or without a conflict error, which the callers   *)
(* treat alike.                                                             *)
RunWorkflow(f, input) ==
  IF rows[f] = NoInput
    THEN /\ rows' = [rows EXCEPT ![f] = input]
         /\ held' = held \cup {<<f, input>>}
    ELSE UNCHANGED <<rows, held>>

(* INSERT ... ON CONFLICT(event_id) DO NOTHING *)
RecordWorkflowStartConflict(id, f, existing, requested) ==
  conflicts' = IF \E c \in conflicts : c.id = id THEN conflicts ELSE conflicts \cup
    {[id |-> id, filing |-> f, existing |-> existing, requested |-> requested]}

Fails == failures < MaxFailures /\ failures' = failures + 1

-----------------------------------------------------------------------------
(* The event consumer. *)

(* cmd/producer, with -dup more than once; or anything else on the topic. *)
Publish(p, record) ==
  /\ Len(log[p]) < MaxLog
  /\ record \in Events => PartitionOf[record.filing] = p
  /\ log' = [log EXCEPT ![p] = Append(@, record)]
  /\ UNCHANGED <<committed, workerVars, rows, conflicts, operator, held, boundVars>>

(* Seeded fault: a started worker fetches what is new. *)
StartWorkerAtEnd ==
  /\ worker.pc = "down"
  /\ worker' = Waiting
  /\ fetch' = [p \in Partitions |-> Fetched(Len(log[p]), Len(log[p]))]
  /\ UNCHANGED <<kafkaVars, rows, conflicts, operator, held, boundVars>>

(* A started worker fetches from what the group has committed. *)
StartWorker ==
  /\ worker.pc = "down"
  /\ worker' = Waiting
  /\ fetch' = [p \in Partitions |-> Fetched(committed[p], committed[p])]
  /\ UNCHANGED <<kafkaVars, rows, conflicts, operator, held, boundVars>>

(* A poll goes on where the last one ended, whatever was committed. *)
PollFetches ==
  /\ worker.pc = "poll"
  /\ \E polled \in [Partitions -> 0..MaxLog] :
       /\ \A p \in Partitions : polled[p] \in fetch[p].end..Len(log[p])
       /\ \E p \in Partitions : polled[p] > fetch[p].end
       /\ fetch' = [p \in Partitions |-> Fetched(fetch[p].end, polled[p])]
  /\ worker' = Treating
  /\ UNCHANGED <<kafkaVars, rows, conflicts, operator, held, boundVars>>

ToTreat(p) == fetch[p].at < fetch[p].end
Record(p) == log[p][fetch[p].at + 1]

(* Seeded fault: one processed record stands for the whole poll. *)
ProcessedWholePoll(p) ==
  /\ fetch' = [fetch EXCEPT ![p] = [@ EXCEPT !.at = fetch[p].at + 1,
                                            !.done = fetch[p].end]]
  /\ worker' = Treating

Processed(p) ==
  /\ fetch' = [fetch EXCEPT ![p] = [@ EXCEPT !.at = fetch[p].at + 1,
                                            !.done = fetch[p].at + 1]]
  /\ worker' = Treating

(* Seeded fault: the records after the failed one are still treated. *)
LeaveUncommittedAlone(p) ==
  /\ fetch' = [fetch EXCEPT ![p].at = @ + 1]
  /\ worker' = Treating

(* The rest of the partition's records in this poll are passed over. *)
LeaveUncommitted(p) ==
  /\ fetch' = [fetch EXCEPT ![p].at = fetch[p].end]
  /\ worker' = Treating

SkipUnreadable(p) ==
  /\ worker.pc = "handle" /\ ToTreat(p) /\ Record(p) = Unreadable
  /\ Processed(p)
  /\ UNCHANGED <<kafkaVars, rows, conflicts, operator, held, boundVars>>

(* A start that fails may have made the row all the same. *)
StartFiling(p) ==
  /\ worker.pc = "handle" /\ ToTreat(p) /\ Record(p) \in Events
  /\ \/ /\ RunWorkflow(Record(p).filing, Record(p).scenario)
        /\ worker' = [worker EXCEPT !.pc = "verify", !.at = p]
        /\ UNCHANGED <<fetch, failures>>
     \/ /\ Fails
        /\ RunWorkflow(Record(p).filing, Record(p).scenario) \/ UNCHANGED <<rows, held>>
        /\ LeaveUncommitted(p)
  /\ UNCHANGED <<kafkaVars, conflicts, operator, crashes, removals>>

(* Seeded fault: a start without an error is taken for the first one. *)
VerifyInputPresumed(p) ==
  /\ worker.pc = "verify" /\ worker.at = p
  /\ Processed(p)
  /\ UNCHANGED <<kafkaVars, rows, conflicts, operator, held, boundVars>>

VerifyInput(p) ==
  LET existing == rows[Record(p).filing] IN
  /\ worker.pc = "verify" /\ worker.at = p
  /\ \/ /\ existing = Record(p).scenario
        /\ Processed(p) /\ UNCHANGED failures
     \/ /\ existing \notin {NoInput, Record(p).scenario}
        /\ worker' = [worker EXCEPT !.pc = "record", !.existing = existing]
        /\ UNCHANGED <<fetch, failures>>
     \/ existing = NoInput /\ LeaveUncommitted(p) /\ UNCHANGED failures
     \/ Fails /\ LeaveUncommitted(p)
  /\ UNCHANGED <<kafkaVars, rows, conflicts, operator, held, crashes, removals>>

RecordConflict(p) ==
  LET Conflict == RecordWorkflowStartConflict(Record(p).id, Record(p).filing,
                                              worker.existing, Record(p).scenario) IN
  /\ worker.pc = "record" /\ worker.at = p
  /\ \/ Conflict /\ Processed(p) /\ UNCHANGED failures
     \/ Fails /\ (Conflict \/ UNCHANGED conflicts) /\ LeaveUncommitted(p)
  /\ UNCHANGED <<kafkaVars, rows, operator, held, crashes, removals>>

(* Commits what this poll has processed; a failed commit is only logged. *)
CommitRecords ==
  /\ worker.pc = "handle" /\ \A p \in Partitions : ~ToTreat(p)
  /\ \/ committed' = [p \in Partitions |-> IF fetch[p].done > fetch[p].first
                                            THEN fetch[p].done ELSE committed[p]]
     \/ UNCHANGED committed
  /\ worker' = Waiting
  /\ UNCHANGED <<log, fetch, rows, conflicts, operator, held, boundVars>>

CrashWorker ==
  /\ worker.pc # "down" /\ crashes < MaxCrashes
  /\ crashes' = crashes + 1
  /\ worker' = Down
  /\ fetch' = [p \in Partitions |-> Fetched(0, 0)]
  /\ UNCHANGED <<kafkaVars, rows, conflicts, operator, held, failures, removals>>

-----------------------------------------------------------------------------
(* The operator's start, and the row's other fates. *)

Told(what) == operator' = [operator EXCEPT !.pc = "told", !.told = what]

OperatorStart(f, s) ==
  /\ operator.pc = "told"
  /\ operator' = [NoCommandYet EXCEPT !.pc = "enqueue", !.filing = f, !.requested = s]
  /\ UNCHANGED <<kafkaVars, workerVars, rows, conflicts, held, boundVars>>

OperatorEnqueue ==
  /\ operator.pc = "enqueue"
  /\ \/ /\ RunWorkflow(operator.filing, operator.requested)
        /\ operator' = [operator EXCEPT !.pc = "verify"]
        /\ UNCHANGED failures
     \/ /\ Fails
        /\ RunWorkflow(operator.filing, operator.requested) \/ UNCHANGED <<rows, held>>
        /\ Told("failed")
  /\ UNCHANGED <<kafkaVars, workerVars, conflicts, crashes, removals>>

(* Seeded fault: the start is acknowledged without reading the input back. *)
OperatorVerifyPresumed ==
  /\ operator.pc = "verify"
  /\ Told("enqueued")
  /\ UNCHANGED <<kafkaVars, workerVars, rows, conflicts, held, boundVars>>

OperatorVerify ==
  LET existing == rows[operator.filing] IN
  /\ operator.pc = "verify"
  /\ \/ existing = operator.requested /\ Told("enqueued") /\ UNCHANGED failures
     \/ /\ existing \notin {NoInput, operator.requested}
        /\ operator' = [operator EXCEPT !.pc = "record", !.existing = existing]
        /\ UNCHANGED failures
     \/ existing = NoInput /\ Told("failed") /\ UNCHANGED failures
     \/ Fails /\ Told("failed")
  /\ UNCHANGED <<kafkaVars, workerVars, rows, conflicts, held, crashes, removals>>

(* The conflict's id is a digest of both inputs. *)
ConflictID == <<"opsctl", operator.filing, operator.existing, operator.requested>>

OperatorRecord ==
  LET Conflict == RecordWorkflowStartConflict(ConflictID, operator.filing,
                                              operator.existing, operator.requested) IN
  /\ operator.pc = "record"
  /\ \/ Conflict /\ Told("conflict") /\ UNCHANGED failures
     \/ Fails /\ (Conflict \/ UNCHANGED conflicts) /\ Told("failed")
  /\ UNCHANGED <<kafkaVars, workerVars, rows, held, crashes, removals>>

(* A reconciler or a restore takes the row away, and a reconciler starts a  *)
(* due filing that has no row, removed or never made, with the scenario     *)
(* Accountable has.                                                         *)
RemoveRow(f) ==
  /\ rows[f] # NoInput /\ removals < MaxRemovals
  /\ removals' = removals + 1
  /\ rows' = [rows EXCEPT ![f] = NoInput]
  /\ UNCHANGED <<kafkaVars, workerVars, conflicts, operator, held, crashes, failures>>

RecreateRow(f, s) ==
  /\ rows[f] = NoInput
  /\ RunWorkflow(f, s)
  /\ UNCHANGED <<kafkaVars, workerVars, conflicts, operator, boundVars>>

-----------------------------------------------------------------------------
Consumes ==
  \/ StartWorker \/ PollFetches \/ CommitRecords
  \/ \E p \in Partitions :
       SkipUnreadable(p) \/ StartFiling(p) \/ VerifyInput(p) \/ RecordConflict(p)

OperatorStarts ==
  \/ \E f \in Filings, s \in Scenarios : OperatorStart(f, s)
  \/ OperatorEnqueue \/ OperatorVerify \/ OperatorRecord

EventsNext ==
  \/ \E p \in Partitions, record \in Events \cup {Unreadable} : Publish(p, record)
  \/ Consumes \/ CrashWorker \/ OperatorStarts
  \/ \E f \in Filings : RemoveRow(f) \/ \E s \in Scenarios : RecreateRow(f, s)

EventsSpec == EventsInit /\ [][EventsNext]_eventVars

(* The worker is restarted when it dies, its loop is scheduled, and Kafka,  *)
(* DBOS and Accountable answer.  Nothing is assumed of the operator.        *)
ConsumingSpec == EventsSpec /\ WF_eventVars(Consumes)

-----------------------------------------------------------------------------
(* Properties *)

Inputs == Scenarios \cup {NoInput}
ConflictIDs == {e.id : e \in Events} \cup OperatorConflictIDs
Offsets == 0..MaxLog
Fetches == [first : Offsets, at : Offsets, done : Offsets, end : Offsets]

(* Every variable has its type, and offsets are in their order. *)
EventsTypeOK ==
  /\ log \in [Partitions -> Seq(Events \cup {Unreadable})]
  /\ committed \in [Partitions -> Offsets] /\ fetch \in [Partitions -> Fetches]
  /\ \A p \in Partitions :
       /\ committed[p] <= Len(log[p]) /\ Len(log[p]) <= MaxLog
       /\ fetch[p].first <= fetch[p].done /\ fetch[p].done <= fetch[p].at
       /\ fetch[p].at <= fetch[p].end /\ fetch[p].end <= Len(log[p])
       /\ worker.pc \in {"verify", "record"} /\ worker.at = p
            => ToTreat(p) /\ Record(p) \in Events
  /\ worker \in [pc : {"down", "poll", "handle", "verify", "record"},
                 at : Partitions \cup {NoInput}, existing : Inputs]
  /\ rows \in [Filings -> Inputs]
  /\ held \subseteq Filings \X Scenarios
  /\ conflicts \subseteq [id : ConflictIDs, filing : Filings,
                          existing : Scenarios, requested : Scenarios]
  /\ operator \in [pc : {"enqueue", "verify", "record", "told"},
                   filing : Filings \cup {NoInput}, requested : Inputs,
                   existing : Inputs, told : {"", "enqueued", "conflict", "failed"}]
  /\ crashes \in 0..MaxCrashes /\ failures \in 0..MaxFailures
  /\ removals \in 0..MaxRemovals

(* The event's input became the workflow's, or its refusal is on record. *)
Handled(record) ==
  record \in Events =>
    \/ <<record.filing, record.scenario>> \in held
    \/ \E c \in conflicts : c.id = record.id /\ c.requested = record.scenario

NothingFailed == failures = 0 /\ removals = 0

(* Refuted, see the README.  "preserve a contiguous committed prefix for    *)
(* this partition" (cmd/worker main.go:160): no committed event is without  *)
(* a workflow or a recorded conflict.                                       *)
CommittedIsHandled ==
  \A p \in Partitions : \A offset \in 1..committed[p] : Handled(log[p][offset])

(* What is so: while no start, lookup or conflict record fails, the prefix  *)
(* has no gap, whatever was redelivered after a crash or a failed commit.   *)
NothingSkippedUnlessFailed == NothingFailed => CommittedIsHandled

(* What the code does ensure when starts, lookups and conflict records      *)
(* fail: a commit covers no unhandled event of its own poll.                *)
CommitCoversItsPoll ==
  [][\A p \in Partitions :
       \A offset \in (committed[p] + 1)..committed'[p] :
         offset > fetch[p].first => Handled(log[p][offset])]_eventVars

(* The comparison with the durable input, and not the reply to the start,   *)
(* decides who won (main.go:186): a start reported as the conflicting one   *)
(* never was the one that runs, unless the row was removed in between.      *)
LoserNeverRan ==
  \A c \in conflicts : <<c.filing, c.requested>> \in held => removals > 0

(* What opsctl start tells the operator is so: "enqueued" means that a      *)
(* workflow ran under exactly the requested input, a conflict that it is    *)
(* on record, however a racing consumer or reconciler interfered.           *)
OperatorIsToldTheTruth ==
  /\ operator.told = "enqueued" => <<operator.filing, operator.requested>> \in held
  /\ operator.told = "conflict" => \E c \in conflicts : c.id = ConflictID

(* Every published event is handled in the end, unless something failed:    *)
(* redelivery after a crash starts where nothing unhandled is behind.       *)
EventsAreHandled ==
  \A p \in Partitions : \A offset \in 1..MaxLog :
    Len(log[p]) >= offset
      ~> \/ Len(log[p]) >= offset /\ Handled(log[p][offset])
         \/ ~NothingFailed
=============================================================================
