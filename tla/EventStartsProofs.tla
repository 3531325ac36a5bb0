------------------------- MODULE EventStartsProofs -------------------------
(***************************************************************************)
(* Proofs about EventStarts, for any number of events, partitions, filings *)
(* and failures: which events a commit may cover, and what a conflict on   *)
(* record and an answer to the operator mean.                              *)
(*                                                                         *)
(* The invariant has three parts.  The world: what is durable, the rows    *)
(* with their history and the conflicts.  The polls: where the consumer is *)
(* in each partition, and what it knows about the record it treats.  The   *)
(* operator's start.  What is handled stays handled, whoever takes a step. *)
(***************************************************************************)
EXTENDS EventStarts, TLAPS

Records == Events \cup {Unreadable}

(* The records that are handled by now. *)
Settled == {record \in Records : Handled(record)}

-----------------------------------------------------------------------------
(* The world. *)

WorldTyped ==
  /\ rows \in [Filings -> Inputs]
  /\ held \subseteq Filings \X Scenarios
  /\ conflicts \subseteq [id : ConflictIDs, filing : Filings,
                          existing : Scenarios, requested : Scenarios]
  /\ crashes \in 0..MaxCrashes /\ failures \in 0..MaxFailures
  /\ removals \in 0..MaxRemovals

RowsWereHeld == \A f \in Filings : rows[f] # NoInput => <<f, rows[f]>> \in held

(* Until a row is removed, a workflow id has one input for ever. *)
OneInput ==
  removals = 0 =>
    \A f \in Filings, s \in Scenarios : <<f, s>> \in held => rows[f] = s

ConflictsFit ==
  \A c \in conflicts :
    /\ c.existing # c.requested /\ <<c.filing, c.existing>> \in held
    /\ \A e \in Events : e.id = c.id => e.scenario = c.requested

World == WorldTyped /\ RowsWereHeld /\ OneInput /\ ConflictsFit

(* What no step takes back. *)
WorldForward ==
  /\ held \subseteq held' /\ conflicts \subseteq conflicts'
  /\ removals \in Nat /\ removals' \in Nat /\ removals' >= removals
  /\ failures \in Nat /\ failures' \in Nat /\ failures' >= failures
  /\ removals' = removals => \A f \in Filings : rows[f] # NoInput => rows'[f] = rows[f]

-----------------------------------------------------------------------------
(* The polls. *)

KafkaTyped ==
  /\ log \in [Partitions -> Seq(Records)]
  /\ committed \in [Partitions -> Offsets] /\ fetch \in [Partitions -> Fetches]
  /\ worker \in [pc : {"down", "poll", "handle", "verify", "record"},
                 at : Partitions \cup {NoInput}, existing : Inputs]

(* How far the consumer of p is.  A partition with a failure behind is      *)
(* passed over to the end of the poll, so that all records up to the one to *)
(* be treated are processed; between two polls nothing is left to treat.    *)
InOrder(p) ==
  /\ committed[p] <= Len(log[p]) /\ Len(log[p]) <= MaxLog
  /\ fetch[p].first <= fetch[p].done /\ fetch[p].done <= fetch[p].at
  /\ fetch[p].at <= fetch[p].end /\ fetch[p].end <= Len(log[p])
  /\ ToTreat(p) => fetch[p].done = fetch[p].at
  /\ worker.pc = "poll" => ~ToTreat(p)

PollSettled(p) ==
  \A offset \in (fetch[p].first + 1)..fetch[p].done : log[p][offset] \in Settled

NothingPassedOver(p) ==
  NothingFailed =>
    /\ \A offset \in 1..committed[p] : log[p][offset] \in Settled
    /\ \A offset \in 1..fetch[p].at : log[p][offset] \in Settled

(* What the consumer knows about the record it treats. *)
TreatsStarted(p) ==
  worker.at = p =>
    /\ worker.pc \in {"verify", "record"} => ToTreat(p) /\ Record(p) \in Events
    /\ worker.pc = "verify" /\ removals = 0 => rows[Record(p).filing] # NoInput
    /\ worker.pc = "record" =>
         /\ worker.existing \in Scenarios \ {Record(p).scenario}
         /\ <<Record(p).filing, worker.existing>> \in held

PartitionFine(p) ==
  InOrder(p) /\ PollSettled(p) /\ NothingPassedOver(p) /\ TreatsStarted(p)

Polls == KafkaTyped /\ \A p \in Partitions : PartitionFine(p)

-----------------------------------------------------------------------------
(* The operator's start. *)

OperatorRecords ==
  [pc : {"enqueue", "verify", "record", "told"},
   filing : Filings \cup {NoInput}, requested : Inputs,
   existing : Inputs, told : {"", "enqueued", "conflict", "failed"}]

OperatorAsks ==
  /\ operator.pc # "told" =>
       /\ operator.filing \in Filings /\ operator.requested \in Scenarios
       /\ operator.told = ""
  /\ operator.pc = "record" =>
       /\ operator.existing \in Scenarios \ {operator.requested}
       /\ <<operator.filing, operator.existing>> \in held

OperatorKnows ==
  operator \in OperatorRecords /\ OperatorAsks /\ OperatorIsToldTheTruth

(* The inductive invariant. *)
EInv == World /\ Polls /\ OperatorKnows

-----------------------------------------------------------------------------
(* What is handled stays handled. *)

LEMMA SettledIn ==
  ASSUME NEW record \in Records
  PROVE  record \in Settled <=> Handled(record)
BY DEF Settled

LEMMA SettledStays ==
  ASSUME held \subseteq held', conflicts \subseteq conflicts'
  PROVE  Settled \subseteq Settled'
BY DEF Settled, Handled

LEMMA WorldSteps ==
  ASSUME World, World', UNCHANGED <<rows, held, removals, conflicts>>, failures' >= failures
  PROVE  WorldForward
BY EventAssumption DEF World, WorldTyped, WorldForward

(* No step of the consumer or the operator but a start touches the rows. *)
LEMMA SameRows ==
  ASSUME World, UNCHANGED <<rows, held, removals, conflicts>>,
         crashes' \in 0..MaxCrashes, failures' \in 0..MaxFailures, failures' >= failures
  PROVE  World' /\ WorldForward
<1>1. WorldTyped'
  BY DEF World, WorldTyped
<1>2. RowsWereHeld' /\ OneInput' /\ ConflictsFit'
  BY DEF World, RowsWereHeld, OneInput, ConflictsFit
<1>. QED BY <1>1, <1>2, WorldSteps DEF World

LEMMA FailsBound ==
  ASSUME World, failures' = failures \/ Fails
  PROVE  /\ failures' \in 0..MaxFailures /\ failures' >= failures
         /\ failures' # failures => ~NothingFailed'
BY EventAssumption DEF World, WorldTyped, Fails, NothingFailed

(* A start makes the row or leaves it alone. *)
LEMMA RunWorkflowStep ==
  ASSUME World, NEW f \in Filings, NEW input \in Scenarios, RunWorkflow(f, input),
         UNCHANGED <<conflicts, removals, crashes>>, failures' = failures \/ Fails
  PROVE  World' /\ WorldForward /\ rows'[f] # NoInput
<1>1. failures' \in 0..MaxFailures /\ failures' >= failures
  BY FailsBound
<1>2. CASE rows[f] # NoInput
  BY <1>1, <1>2, SameRows DEF RunWorkflow, World, WorldTyped
<1>3. CASE rows[f] = NoInput
  <2>1. rows' = [rows EXCEPT ![f] = input] /\ held' = held \cup {<<f, input>>}
    BY <1>3 DEF RunWorkflow
  <2>2. WorldTyped'
    BY <1>1, <2>1 DEF World, WorldTyped, Inputs
  <2>3. RowsWereHeld'
    BY <2>1 DEF World, WorldTyped, RowsWereHeld
  <2>4. OneInput'
    BY <1>3, <2>1, EventAssumption DEF World, WorldTyped, OneInput
  <2>5. ConflictsFit'
    BY <2>1 DEF World, ConflictsFit
  <2>6. WorldForward
    BY <1>1, <1>3, <2>1, <2>2, EventAssumption DEF World, WorldTyped, WorldForward
  <2>7. rows'[f] # NoInput
    BY <2>1, EventAssumption DEF World, WorldTyped
  <2>. QED BY <2>2, <2>3, <2>4, <2>5, <2>6, <2>7 DEF World
<1>. QED BY <1>2, <1>3

(* A conflict is recorded under its id, now or before. *)
LEMMA ConflictStep ==
  ASSUME World, NEW id \in ConflictIDs, NEW f \in Filings,
         NEW existing \in Scenarios, NEW requested \in Scenarios \ {existing},
         <<f, existing>> \in held, \A e \in Events : e.id = id => e.scenario = requested,
         RecordWorkflowStartConflict(id, f, existing, requested),
         UNCHANGED <<rows, held, removals, crashes>>, failures' = failures \/ Fails
  PROVE  /\ World' /\ WorldForward
         /\ \E c \in conflicts' : c.id = id
<1>1. failures' \in 0..MaxFailures /\ failures' >= failures
  BY FailsBound
<1>2. CASE \E c \in conflicts : c.id = id
  <2>1. conflicts' = conflicts
    BY <1>2 DEF RecordWorkflowStartConflict
  <2>. QED BY <1>1, <1>2, <2>1, SameRows DEF World, WorldTyped
<1>3. CASE ~\E c \in conflicts : c.id = id
  <2>1. PICK new : new = [id |-> id, filing |-> f, existing |-> existing,
                          requested |-> requested]
    OBVIOUS
  <2>2. conflicts' = conflicts \cup {new}
    BY <1>3, <2>1 DEF RecordWorkflowStartConflict
  <2>3. WorldTyped'
    <3>1. new \in [id : ConflictIDs, filing : Filings,
                   existing : Scenarios, requested : Scenarios]
      BY <2>1
    <3>. QED BY <1>1, <2>2, <3>1 DEF World, WorldTyped
  <2>4. RowsWereHeld' /\ OneInput'
    BY DEF World, RowsWereHeld, OneInput
  <2>5. ConflictsFit'
    <3>1. /\ new.id = id /\ new.filing = f
          /\ new.existing = existing /\ new.requested = requested
      BY <2>1
    <3>2. /\ new.existing # new.requested /\ <<new.filing, new.existing>> \in held
          /\ \A e \in Events : e.id = new.id => e.scenario = new.requested
      BY <3>1
    <3>3. \A c \in conflicts' : c \in conflicts \/ c = new
      BY <2>2
    <3>. QED BY <3>2, <3>3 DEF World, ConflictsFit
  <2>6. WorldForward
    BY <1>1, <2>2, <2>3, EventAssumption DEF World, WorldTyped, WorldForward
  <2>7. \E c \in conflicts' : c.id = id
    BY <2>1, <2>2
  <2>. QED BY <2>3, <2>4, <2>5, <2>6, <2>7 DEF World
<1>. QED BY <1>2, <1>3

-----------------------------------------------------------------------------
(* Partitions that no step of the consumer is about. *)

LEMMA PartitionFacts ==
  ASSUME Polls, NEW p \in Partitions
  PROVE  /\ log[p] \in Seq(Records) /\ Len(log[p]) \in Nat
         /\ committed[p] \in Nat /\ PartitionFine(p)
         /\ fetch[p] \in Fetches
         /\ fetch[p].first \in Nat /\ fetch[p].at \in Nat
         /\ fetch[p].done \in Nat /\ fetch[p].end \in Nat
<1>1. /\ log[p] \in Seq(Records) /\ committed[p] \in Offsets /\ fetch[p] \in Fetches
      /\ PartitionFine(p)
  BY DEF Polls, KafkaTyped
<1>2. \A offset \in Offsets : offset \in Nat
  BY EventAssumption DEF Offsets
<1>3. Len(log[p]) \in Nat
  BY <1>1
<1>4. /\ fetch[p].first \in Offsets /\ fetch[p].at \in Offsets
      /\ fetch[p].done \in Offsets /\ fetch[p].end \in Offsets
  BY <1>1 DEF Fetches
<1>. QED BY <1>1, <1>2, <1>3, <1>4

LEMMA RecordFacts ==
  ASSUME Polls, NEW p \in Partitions, ToTreat(p)
  PROVE  /\ Record(p) \in Records
         /\ fetch[p].at + 1 \in 1..Len(log[p])
<1>1. /\ log[p] \in Seq(Records) /\ Len(log[p]) \in Nat
      /\ fetch[p].at \in Nat /\ fetch[p].end \in Nat
      /\ fetch[p].at < fetch[p].end /\ fetch[p].end <= Len(log[p])
  BY PartitionFacts DEF PartitionFine, InOrder, ToTreat
<1>2. fetch[p].at + 1 \in 1..Len(log[p])
  BY <1>1
<1>. QED BY <1>1, <1>2 DEF Record

(* The log of p may have grown. *)
LogGrows(p) ==
  /\ Len(log'[p]) \in Nat /\ Len(log[p]) <= Len(log'[p]) /\ Len(log'[p]) <= MaxLog
  /\ \A offset \in 1..Len(log[p]) : log'[p][offset] = log[p][offset]

(* The consumer's position in p is as it was, and what it knows about the   *)
(* record it treats there is as it was, or there is no such record.         *)
SamePosition(p) ==
  /\ committed'[p] = committed[p] /\ fetch'[p] = fetch[p]
  /\ worker'.pc = "poll" => worker.pc = "poll" \/ ~ToTreat(p)
  /\ worker' = worker \/ worker'.at # p \/ worker'.pc \notin {"verify", "record"}

LEMMA PositionKept ==
  ASSUME Polls, WorldForward, NEW p \in Partitions, LogGrows(p), SamePosition(p)
  PROVE  InOrder(p)' /\ PollSettled(p)' /\ NothingPassedOver(p)'
<1>1. PartitionFine(p) /\ Settled \subseteq Settled'
  BY PartitionFacts, SettledStays DEF WorldForward
<1>2. /\ Len(log[p]) \in Nat /\ committed[p] \in Nat
      /\ fetch[p].first \in Nat /\ fetch[p].at \in Nat
      /\ fetch[p].done \in Nat /\ fetch[p].end \in Nat
  BY PartitionFacts
<1>3. InOrder(p)'
  <2>1. InOrder(p) /\ committed'[p] = committed[p] /\ fetch'[p] = fetch[p]
    BY <1>1 DEF PartitionFine, SamePosition
  <2>2. \A n \in Nat : n <= Len(log[p]) => n <= Len(log'[p])
    BY <1>2 DEF LogGrows
  <2>3. /\ committed'[p] <= Len(log'[p]) /\ Len(log'[p]) <= MaxLog
        /\ fetch'[p].end <= Len(log'[p])
    BY <1>2, <2>1, <2>2 DEF InOrder, LogGrows
  <2>4. ToTreat(p)' <=> ToTreat(p)
    BY <2>1 DEF ToTreat
  <2>5. worker'.pc = "poll" => ~ToTreat(p)'
    BY <2>1, <2>4 DEF InOrder, SamePosition
  <2>. QED BY <2>1, <2>3, <2>4, <2>5 DEF InOrder
<1>4. /\ fetch[p].done <= Len(log[p]) /\ fetch[p].at <= Len(log[p])
      /\ committed[p] <= Len(log[p])
  BY <1>1, <1>2 DEF PartitionFine, InOrder
<1>5. PollSettled(p)'
  <2>. SUFFICES ASSUME NEW offset \in (fetch'[p].first + 1)..fetch'[p].done
                PROVE  log'[p][offset] \in Settled'
    BY DEF PollSettled
  <2>1. offset \in (fetch[p].first + 1)..fetch[p].done
    BY DEF SamePosition
  <2>2. log[p][offset] \in Settled
    BY <1>1, <2>1 DEF PartitionFine, PollSettled
  <2>3. offset \in 1..Len(log[p])
    BY <1>2, <1>4, <2>1
  <2>4. log'[p][offset] = log[p][offset]
    BY <2>3 DEF LogGrows
  <2>. QED BY <1>1, <2>2, <2>4
<1>6. NothingFailed' => NothingFailed
  BY DEF WorldForward, NothingFailed
<1>7. NothingPassedOver(p)'
  <2>. SUFFICES ASSUME NothingFailed'
                PROVE  /\ \A offset \in 1..committed'[p] : log'[p][offset] \in Settled'
                       /\ \A offset \in 1..fetch'[p].at : log'[p][offset] \in Settled'
    BY DEF NothingPassedOver
  <2>1. /\ \A offset \in 1..committed[p] : log[p][offset] \in Settled
        /\ \A offset \in 1..fetch[p].at : log[p][offset] \in Settled
    BY <1>1, <1>6 DEF PartitionFine, NothingPassedOver
  <2>2. committed'[p] = committed[p] /\ fetch'[p] = fetch[p]
    BY DEF SamePosition
  <2>3. /\ \A offset \in 1..committed[p] : offset \in 1..Len(log[p])
        /\ \A offset \in 1..fetch[p].at : offset \in 1..Len(log[p])
    BY <1>2, <1>4
  <2>4. \A offset \in 1..Len(log[p]) : log'[p][offset] = log[p][offset]
    BY DEF LogGrows
  <2>. QED BY <1>1, <2>1, <2>2, <2>3, <2>4
<1>. QED BY <1>3, <1>5, <1>7

LEMMA KnowledgeKept ==
  ASSUME Polls, WorldForward, NEW p \in Partitions, LogGrows(p), SamePosition(p)
  PROVE  TreatsStarted(p)'
<1>1. CASE worker'.at # p \/ worker'.pc \notin {"verify", "record"}
  BY <1>1 DEF TreatsStarted
<1>2. CASE worker' = worker /\ worker.at = p /\ worker.pc \in {"verify", "record"}
  <2>1. TreatsStarted(p) /\ ToTreat(p) /\ Record(p) \in Events
    BY <1>2, PartitionFacts DEF PartitionFine, TreatsStarted
  <2>2. Record(p)' = Record(p) /\ ToTreat(p)'
    BY <2>1, RecordFacts DEF LogGrows, SamePosition, Record, ToTreat
  <2>3. Record(p).filing \in Filings
    BY <2>1, EventAssumption
  <2>4. worker.pc = "verify" /\ removals' = 0 => rows'[Record(p).filing] # NoInput
    BY <1>2, <2>1, <2>3 DEF TreatsStarted, WorldForward
  <2>5. worker.pc = "record" => <<Record(p).filing, worker.existing>> \in held'
    BY <1>2, <2>1 DEF TreatsStarted, WorldForward
  <2>. QED BY <1>2, <2>1, <2>2, <2>4, <2>5 DEF TreatsStarted
<1>. QED BY <1>1, <1>2 DEF SamePosition

LEMMA PartitionKept ==
  ASSUME Polls, WorldForward, NEW p \in Partitions, LogGrows(p), SamePosition(p)
  PROVE  PartitionFine(p)'
BY PositionKept, KnowledgeKept DEF PartitionFine

LEMMA SameLog ==
  ASSUME Polls, UNCHANGED log, NEW p \in Partitions
  PROVE  LogGrows(p)
BY PartitionFacts DEF LogGrows, PartitionFine, InOrder

(* Steps of others. *)
LEMMA PollsKept ==
  ASSUME Polls, WorldForward, UNCHANGED <<kafkaVars, workerVars>>
  PROVE  Polls'
<1>1. UNCHANGED <<log, committed, worker, fetch>>
  BY DEF kafkaVars, workerVars
<1>2. \A p \in Partitions : PartitionFine(p)'
  BY <1>1, SameLog, PartitionKept DEF SamePosition
<1>. QED BY <1>1, <1>2 DEF Polls, KafkaTyped

-----------------------------------------------------------------------------
(* The record at hand. *)

LEMMA Treated ==
  ASSUME Polls, NEW p \in Partitions, NEW position \in Fetches,
         fetch' = [fetch EXCEPT ![p] = position], worker' = Treating,
         UNCHANGED kafkaVars
  PROVE  /\ KafkaTyped' /\ worker'.pc = "handle" /\ fetch'[p] = position
         /\ \A q \in Partitions : q # p => SamePosition(q) /\ LogGrows(q)
<1>1. UNCHANGED <<log, committed>>
  BY DEF kafkaVars
<1>2. worker'.pc = "handle" /\ worker' \in [pc : {"down", "poll", "handle", "verify", "record"},
                 at : Partitions \cup {NoInput}, existing : Inputs]
  BY DEF Treating, Down, Inputs
<1>3. KafkaTyped'
  BY <1>1, <1>2 DEF Polls, KafkaTyped
<1>4. fetch'[p] = position /\ \A q \in Partitions : q # p => fetch'[q] = fetch[q]
  BY DEF Polls, KafkaTyped
<1>5. \A q \in Partitions : LogGrows(q)
  BY <1>1, SameLog
<1>. QED BY <1>1, <1>2, <1>3, <1>4, <1>5 DEF SamePosition

LEMMA TreatedPolls ==
  ASSUME Polls, WorldForward, KafkaTyped', NEW p \in Partitions, PartitionFine(p)',
         \A q \in Partitions : q # p => SamePosition(q) /\ LogGrows(q)
  PROVE  Polls'
<1>1. \A q \in Partitions : q # p => PartitionFine(q)'
  BY PartitionKept
<1>. QED BY <1>1 DEF Polls

(* A record is processed when it is handled by then. *)
LEMMA ProcessedStep ==
  ASSUME Polls, WorldForward, NEW p \in Partitions, ToTreat(p), Processed(p),
         Record(p) \in Settled', UNCHANGED kafkaVars
  PROVE  Polls'
<1>1. PICK old \in Fetches : old = fetch[p]
  BY PartitionFacts
<1>2. PICK next : next = [old EXCEPT !.at = old.at + 1, !.done = old.at + 1]
  OBVIOUS
<1>3. /\ log[p] \in Seq(Records) /\ Len(log[p]) \in Nat /\ PartitionFine(p)
      /\ old.first \in Nat /\ old.at \in Nat /\ old.done \in Nat /\ old.end \in Nat
      /\ committed[p] \in Nat
  BY <1>1, PartitionFacts
<1>4. /\ old.at < old.end /\ old.end <= Len(log[p]) /\ Len(log[p]) <= MaxLog
      /\ old.done = old.at /\ old.first <= old.done
      /\ committed[p] <= Len(log[p])
  BY <1>1, <1>3 DEF PartitionFine, InOrder, ToTreat
<1>5. old.at + 1 \in Offsets
  <2>1. old.at < Len(log[p]) /\ MaxLog \in Nat
    BY <1>3, <1>4, EventAssumption
  <2>. QED BY <1>3, <1>4, <2>1 DEF Offsets
<1>6. /\ next \in Fetches /\ next.first = old.first /\ next.end = old.end
      /\ next.at = old.at + 1 /\ next.done = old.at + 1
  <2>1. old \in Fetches
    BY <1>1, PartitionFacts
  <2>2. old.first \in Offsets /\ old.end \in Offsets
    BY <2>1 DEF Fetches
  <2>. QED BY <1>2, <1>5, <2>1, <2>2 DEF Fetches
<1>7. fetch' = [fetch EXCEPT ![p] = next] /\ worker' = Treating
  BY <1>1, <1>2 DEF Processed
<1>8. /\ KafkaTyped' /\ worker'.pc = "handle" /\ fetch'[p] = next
      /\ \A q \in Partitions : q # p => SamePosition(q) /\ LogGrows(q)
  BY <1>6, <1>7, Treated
<1>9. PartitionFine(p)'
  <2>1. log' = log /\ committed' = committed
    BY DEF kafkaVars
  <2>2. InOrder(p)'
    BY <1>3, <1>4, <1>6, <1>8, <2>1 DEF InOrder, ToTreat
  <2>3. Settled \subseteq Settled'
    BY SettledStays DEF WorldForward
  <2>4. log[p][old.at + 1] \in Settled'
    BY <1>1 DEF Record
  <2>5. PollSettled(p)'
    <3>1. \A offset \in (old.first + 1)..old.at : log[p][offset] \in Settled'
      BY <1>1, <1>3, <1>4, <2>3 DEF PartitionFine, PollSettled
    <3>2. \A offset \in (old.first + 1)..(old.at + 1) :
            offset \in (old.first + 1)..old.at \/ offset = old.at + 1
      BY <1>3
    <3>3. \A offset \in (old.first + 1)..(old.at + 1) : log[p][offset] \in Settled'
      BY <2>4, <3>1, <3>2
    <3>. QED BY <1>6, <1>8, <2>1, <3>3 DEF PollSettled
  <2>6. NothingFailed' => NothingFailed
    BY DEF WorldForward, NothingFailed
  <2>7. NothingPassedOver(p)'
    <3>1. ASSUME NothingFailed'
          PROVE  /\ \A offset \in 1..committed[p] : log[p][offset] \in Settled'
                 /\ \A offset \in 1..old.at : log[p][offset] \in Settled'
      BY <1>1, <1>3, <2>3, <2>6, <3>1 DEF PartitionFine, NothingPassedOver
    <3>2. ASSUME NothingFailed'
          PROVE  \A offset \in 1..(old.at + 1) : log[p][offset] \in Settled'
      BY <1>3, <2>4, <3>1, <3>2
    <3>. QED BY <1>6, <1>8, <2>1, <3>1, <3>2 DEF NothingPassedOver
  <2>8. TreatsStarted(p)'
    BY <1>8 DEF TreatsStarted
  <2>. QED BY <2>2, <2>5, <2>7, <2>8 DEF PartitionFine
<1>. QED BY <1>8, <1>9, TreatedPolls

(* A failure passes over the rest of the partition in this poll. *)
LEMMA LeaveStep ==
  ASSUME Polls, WorldForward, NEW p \in Partitions, ToTreat(p), LeaveUncommitted(p),
         ~NothingFailed', UNCHANGED kafkaVars
  PROVE  Polls'
<1>1. PICK old \in Fetches : old = fetch[p]
  BY PartitionFacts
<1>2. PICK next : next = [old EXCEPT !.at = old.end]
  OBVIOUS
<1>3. /\ Len(log[p]) \in Nat /\ PartitionFine(p)
      /\ old.first \in Nat /\ old.at \in Nat /\ old.done \in Nat /\ old.end \in Nat
  BY <1>1, PartitionFacts
<1>4. /\ next \in Fetches /\ next.first = old.first /\ next.end = old.end
      /\ next.at = old.end /\ next.done = old.done
  BY <1>2 DEF Fetches
<1>5. fetch' = [fetch EXCEPT ![p] = next] /\ worker' = Treating
  BY <1>1, <1>2 DEF LeaveUncommitted
<1>6. /\ KafkaTyped' /\ worker'.pc = "handle" /\ fetch'[p] = next
      /\ \A q \in Partitions : q # p => SamePosition(q) /\ LogGrows(q)
  BY <1>4, <1>5, Treated
<1>7. PartitionFine(p)'
  <2>1. log' = log /\ committed' = committed
    BY DEF kafkaVars
  <2>2. InOrder(p)'
    BY <1>1, <1>3, <1>4, <1>6, <2>1 DEF PartitionFine, InOrder, ToTreat
  <2>3. Settled \subseteq Settled'
    BY SettledStays DEF WorldForward
  <2>4. PollSettled(p)'
    BY <1>1, <1>3, <1>4, <1>6, <2>1, <2>3 DEF PartitionFine, PollSettled
  <2>5. NothingPassedOver(p)' /\ TreatsStarted(p)'
    BY <1>6 DEF NothingPassedOver, TreatsStarted
  <2>. QED BY <2>2, <2>4, <2>5 DEF PartitionFine
<1>. QED BY <1>6, <1>7, TreatedPolls

(* The consumer learns something about the record it treats. *)
LEMMA LearnStep ==
  ASSUME Polls, WorldForward, NEW p \in Partitions, ToTreat(p), Record(p) \in Events,
         worker' \in [pc : {"verify", "record"}, at : {p}, existing : Inputs],
         worker'.pc = "verify" => rows'[Record(p).filing] # NoInput,
         worker'.pc = "record" =>
           /\ worker'.existing \in Scenarios \ {Record(p).scenario}
           /\ <<Record(p).filing, worker'.existing>> \in held',
         UNCHANGED <<kafkaVars, fetch>>
  PROVE  Polls'
<1>1. log' = log /\ committed' = committed /\ fetch' = fetch
  BY DEF kafkaVars
<1>2. worker'.at = p /\ worker'.pc \in {"verify", "record"}
  BY DEF Fetches
<1>3. KafkaTyped'
  <2>1. worker' \in [pc : {"down", "poll", "handle", "verify", "record"},
                     at : Partitions \cup {NoInput}, existing : Inputs]
    OBVIOUS
  <2>. QED BY <1>1, <2>1 DEF Polls, KafkaTyped
<1>4. \A q \in Partitions : q # p => SamePosition(q) /\ LogGrows(q)
  BY <1>1, <1>2, SameLog DEF SamePosition
<1>5. PartitionFine(p)'
  <2>1. PartitionFine(p) /\ Settled \subseteq Settled'
    BY PartitionFacts, SettledStays DEF WorldForward
  <2>2. InOrder(p)'
    BY <1>1, <1>2, <2>1 DEF PartitionFine, InOrder, ToTreat
  <2>3. NothingFailed' => NothingFailed
    BY DEF WorldForward, NothingFailed
  <2>4. PollSettled(p)' /\ NothingPassedOver(p)'
    BY <1>1, <2>1, <2>3 DEF PartitionFine, PollSettled, NothingPassedOver
  <2>5. ToTreat(p)' /\ Record(p)' = Record(p)
    BY <1>1 DEF ToTreat, Record
  <2>6. TreatsStarted(p)'
    BY <1>2, <2>5 DEF TreatsStarted
  <2>. QED BY <2>2, <2>4, <2>6 DEF PartitionFine
<1>. QED BY <1>3, <1>4, <1>5, TreatedPolls

-----------------------------------------------------------------------------
(* The steps of the consumer. *)

LEMMA OperatorKept ==
  ASSUME OperatorKnows, UNCHANGED operator, WorldForward
  PROVE  OperatorKnows'
BY DEF OperatorKnows, OperatorAsks, OperatorIsToldTheTruth, ConflictID, WorldForward

LEMMA EventFacts ==
  ASSUME NEW e \in Events
  PROVE  /\ e \in Records /\ e.filing \in Filings /\ e.scenario \in Scenarios
         /\ e.id \in ConflictIDs /\ e.scenario # NoInput /\ e.scenario \in Inputs
         /\ \A d \in Events : d.id = e.id => d.scenario = e.scenario
BY EventAssumption DEF Records, ConflictIDs, Inputs

LEMMA SkipStep ==
  ASSUME EInv, NEW p \in Partitions, SkipUnreadable(p)
  PROVE  EInv'
<1>1. World' /\ WorldForward
  BY SameRows DEF EInv, SkipUnreadable, boundVars, World, WorldTyped
<1>2. Record(p) \in Settled
  BY EventAssumption DEF SkipUnreadable, Settled, Records, Handled
<1>3. Record(p) \in Settled'
  BY <1>1, <1>2, SettledStays DEF WorldForward
<1>4. Polls'
  BY <1>1, <1>3, ProcessedStep DEF EInv, SkipUnreadable
<1>5. OperatorKnows'
  BY <1>1, OperatorKept DEF EInv, SkipUnreadable
<1>. QED BY <1>1, <1>4, <1>5 DEF EInv

LEMMA StartStep ==
  ASSUME EInv, NEW p \in Partitions, StartFiling(p)
  PROVE  EInv'
<1>1. PICK e \in Events : e = Record(p)
  BY DEF StartFiling
<1>2. /\ ToTreat(p) /\ UNCHANGED <<kafkaVars, conflicts, operator, crashes, removals>>
      /\ e.filing \in Filings /\ e.scenario \in Scenarios
      /\ failures' = failures \/ Fails
  BY <1>1, EventFacts DEF StartFiling
<1>3. CASE RunWorkflow(e.filing, e.scenario)
  <2>1. World' /\ WorldForward /\ rows'[e.filing] # NoInput
    BY <1>2, <1>3, RunWorkflowStep DEF EInv
  <2>2. Polls'
    <3>1. CASE /\ worker' = [worker EXCEPT !.pc = "verify", !.at = p]
               /\ UNCHANGED <<fetch, failures>>
      <4>1. worker \in [pc : {"down", "poll", "handle", "verify", "record"},
                        at : Partitions \cup {NoInput}, existing : Inputs]
        BY DEF EInv, Polls, KafkaTyped
      <4>2. worker' \in [pc : {"verify", "record"}, at : {p}, existing : Inputs]
            /\ worker'.pc = "verify"
        BY <3>1, <4>1
      <4>. QED BY <1>1, <1>2, <2>1, <3>1, <4>2, LearnStep DEF EInv
    <3>2. CASE Fails /\ LeaveUncommitted(p)
      <4>1. ~NothingFailed'
        BY <3>2, EventAssumption DEF EInv, World, WorldTyped, Fails, NothingFailed
      <4>. QED BY <1>2, <2>1, <3>2, <4>1, LeaveStep DEF EInv
    <3>. QED BY <3>1, <3>2 DEF StartFiling
  <2>3. OperatorKnows'
    BY <1>2, <2>1, OperatorKept DEF EInv
  <2>. QED BY <2>1, <2>2, <2>3 DEF EInv
<1>4. CASE ~RunWorkflow(e.filing, e.scenario)
  <2>1. Fails /\ UNCHANGED <<rows, held>> /\ LeaveUncommitted(p)
    BY <1>1, <1>4 DEF StartFiling
  <2>2. ~NothingFailed' /\ failures' \in 0..MaxFailures /\ failures' >= failures
    BY <2>1, FailsBound, EventAssumption DEF EInv, World, WorldTyped, Fails, NothingFailed
  <2>3. World' /\ WorldForward
    BY <1>2, <2>1, <2>2, SameRows DEF EInv, World, WorldTyped
  <2>4. Polls'
    BY <1>2, <2>1, <2>2, <2>3, LeaveStep DEF EInv
  <2>5. OperatorKnows'
    BY <1>2, <2>3, OperatorKept DEF EInv
  <2>. QED BY <2>3, <2>4, <2>5 DEF EInv
<1>. QED BY <1>3, <1>4

LEMMA KnownRecord ==
  ASSUME EInv, NEW p \in Partitions, worker.pc \in {"verify", "record"}, worker.at = p
  PROVE  /\ ToTreat(p) /\ Record(p) \in Events
         /\ worker.pc = "verify" /\ removals = 0 => rows[Record(p).filing] # NoInput
         /\ worker.pc = "record" =>
              /\ worker.existing \in Scenarios \ {Record(p).scenario}
              /\ <<Record(p).filing, worker.existing>> \in held
BY DEF EInv, Polls, PartitionFine, TreatsStarted

LEMMA VerifyStep ==
  ASSUME EInv, NEW p \in Partitions, VerifyInput(p)
  PROVE  EInv'
<1>1. /\ worker.pc = "verify" /\ worker.at = p
      /\ UNCHANGED <<kafkaVars, rows, conflicts, operator, held, crashes, removals>>
      /\ failures' = failures \/ Fails
  BY DEF VerifyInput
<1>2. PICK e \in Events : e = Record(p)
  BY <1>1, KnownRecord
<1>3. ToTreat(p) /\ (removals = 0 => rows[e.filing] # NoInput)
  BY <1>1, <1>2, KnownRecord
<1>4. PICK existing \in Inputs : existing = rows[e.filing]
  BY EventFacts DEF EInv, World, WorldTyped
<1>5. World' /\ WorldForward
  BY <1>1, FailsBound, SameRows DEF EInv, World, WorldTyped
<1>6. existing # NoInput => <<e.filing, existing>> \in held
  BY <1>4, EventFacts DEF EInv, World, RowsWereHeld
<1>7. Polls'
  <2>1. CASE existing = e.scenario /\ Processed(p)
    <3>1. Handled(e)
      BY <1>6, <2>1, EventFacts DEF Handled
    <3>2. Record(p) \in Settled'
      BY <1>2, <1>5, <3>1, EventFacts, SettledIn, SettledStays DEF WorldForward
    <3>. QED BY <1>1, <1>3, <1>5, <2>1, <3>2, ProcessedStep DEF EInv
  <2>2. CASE /\ existing \notin {NoInput, e.scenario}
             /\ worker' = [worker EXCEPT !.pc = "record", !.existing = existing]
             /\ UNCHANGED <<fetch, failures>>
    <3>1. worker \in [pc : {"down", "poll", "handle", "verify", "record"},
                      at : Partitions \cup {NoInput}, existing : Inputs]
      BY DEF EInv, Polls, KafkaTyped
    <3>2. /\ worker' \in [pc : {"verify", "record"}, at : {p}, existing : Inputs]
          /\ worker'.pc = "record" /\ worker'.existing = existing
      BY <1>1, <2>2, <3>1
    <3>3. /\ existing \in Scenarios \ {e.scenario}
          /\ <<e.filing, existing>> \in held'
      BY <1>1, <1>6, <2>2 DEF Inputs
    <3>. QED BY <1>1, <1>2, <1>3, <1>5, <2>2, <3>2, <3>3, LearnStep DEF EInv
  <2>3. CASE (existing = NoInput \/ Fails) /\ LeaveUncommitted(p)
    <3>1. ~NothingFailed'
      BY <1>1, <1>3, <1>4, <2>3, EventAssumption
         DEF EInv, World, WorldTyped, Fails, NothingFailed
    <3>. QED BY <1>1, <1>3, <1>5, <2>3, <3>1, LeaveStep DEF EInv
  <2>. QED BY <1>2, <1>4, <2>1, <2>2, <2>3 DEF VerifyInput
<1>8. OperatorKnows'
  BY <1>1, <1>5, OperatorKept DEF EInv
<1>. QED BY <1>5, <1>7, <1>8 DEF EInv

LEMMA RecordStep ==
  ASSUME EInv, NEW p \in Partitions, RecordConflict(p)
  PROVE  EInv'
<1>1. /\ worker.pc = "record" /\ worker.at = p
      /\ UNCHANGED <<kafkaVars, rows, operator, held, crashes, removals>>
      /\ failures' = failures \/ Fails
  BY DEF RecordConflict
<1>2. PICK e \in Events : e = Record(p)
  BY <1>1, KnownRecord
<1>3. PICK existing \in Scenarios \ {e.scenario} : existing = worker.existing
  BY <1>1, <1>2, KnownRecord
<1>4. ToTreat(p) /\ <<e.filing, existing>> \in held
  BY <1>1, <1>2, <1>3, KnownRecord
<1>5. CASE RecordWorkflowStartConflict(e.id, e.filing, existing, e.scenario)
  <2>1. /\ World' /\ WorldForward
        /\ \E c \in conflicts' : c.id = e.id
    <3>1. PICK id \in ConflictIDs, f \in Filings, requested \in Scenarios \ {existing} :
            id = e.id /\ f = e.filing /\ requested = e.scenario
      BY EventFacts
    <3>2. /\ <<f, existing>> \in held /\ (\A d \in Events : d.id = id => d.scenario = requested)
          /\ RecordWorkflowStartConflict(id, f, existing, requested)
      BY <1>4, <1>5, <3>1, EventFacts
    <3>. QED BY <1>1, <3>1, <3>2, ConflictStep DEF EInv
  <2>2. Record(p) \in Settled'
    <3>1. \E c \in conflicts' : c.id = e.id /\ c.requested = e.scenario
      BY <2>1 DEF World, ConflictsFit
    <3>2. e \in Settled'
      BY <3>1, EventFacts DEF Settled, Handled
    <3>. QED BY <1>2, <3>2
  <2>3. CASE Processed(p)
    <3>1. Polls'
      BY <1>1, <1>4, <2>1, <2>2, <2>3, ProcessedStep DEF EInv
    <3>. QED BY <1>1, <2>1, <3>1, OperatorKept DEF EInv
  <2>4. CASE Fails /\ LeaveUncommitted(p)
    <3>1. ~NothingFailed'
      BY <2>4, EventAssumption DEF EInv, World, WorldTyped, Fails, NothingFailed
    <3>2. Polls'
      BY <1>1, <1>4, <2>1, <2>4, <3>1, LeaveStep DEF EInv
    <3>. QED BY <1>1, <2>1, <3>2, OperatorKept DEF EInv
  <2>. QED BY <2>3, <2>4 DEF RecordConflict
<1>6. CASE Fails /\ UNCHANGED conflicts /\ LeaveUncommitted(p)
  <2>1. ~NothingFailed'
    BY <1>6, EventAssumption DEF EInv, World, WorldTyped, Fails, NothingFailed
  <2>2. World' /\ WorldForward
    BY <1>1, <1>6, FailsBound, SameRows DEF EInv, World, WorldTyped
  <2>3. Polls'
    BY <1>1, <1>4, <1>6, <2>1, <2>2, LeaveStep DEF EInv
  <2>. QED BY <1>1, <2>2, <2>3, OperatorKept DEF EInv
<1>. QED BY <1>2, <1>3, <1>5, <1>6 DEF RecordConflict

-----------------------------------------------------------------------------
(* Polls, commits, crashes and new records. *)

LEMMA PublishStep ==
  ASSUME EInv, NEW p \in Partitions, NEW record \in Records, Publish(p, record)
  PROVE  EInv'
<1>1. /\ Len(log[p]) < MaxLog /\ log' = [log EXCEPT ![p] = Append(log[p], record)]
      /\ UNCHANGED <<committed, workerVars, rows, conflicts, operator, held, boundVars>>
  BY DEF Publish
<1>2. UNCHANGED <<worker, fetch, crashes, failures, removals>>
  BY <1>1 DEF workerVars, boundVars
<1>3. World' /\ WorldForward
  BY <1>1, <1>2, SameRows DEF EInv, World, WorldTyped
<1>4. PICK old \in Seq(Records) : old = log[p]
  BY PartitionFacts DEF EInv
<1>5. /\ Append(old, record) \in Seq(Records) /\ Len(Append(old, record)) = Len(old) + 1
      /\ \A offset \in 1..Len(old) : Append(old, record)[offset] = old[offset]
  OBVIOUS
<1>6. KafkaTyped'
  BY <1>1, <1>2, <1>4, <1>5 DEF EInv, Polls, KafkaTyped
<1>7. LogGrows(p)
  <2>1. log'[p] = Append(old, record)
    BY <1>1, <1>4 DEF EInv, Polls, KafkaTyped
  <2>2. Len(old) \in Nat /\ Len(old) < MaxLog
    BY <1>1, <1>4
  <2>. QED BY <1>4, <1>5, <2>1, <2>2, EventAssumption DEF LogGrows
<1>8. \A q \in Partitions : q # p => LogGrows(q)
  <2>1. SUFFICES ASSUME NEW q \in Partitions, q # p
                 PROVE  LogGrows(q)
    OBVIOUS
  <2>2. log'[q] = log[q]
    BY <1>1, <2>1 DEF EInv, Polls, KafkaTyped
  <2>. QED BY <2>2, PartitionFacts DEF EInv, LogGrows, PartitionFine, InOrder
<1>9. \A q \in Partitions : PartitionFine(q)'
  BY <1>1, <1>2, <1>3, <1>7, <1>8, PartitionKept DEF EInv, SamePosition
<1>10. Polls'
  BY <1>6, <1>9 DEF Polls
<1>11. OperatorKnows'
  BY <1>1, <1>3, OperatorKept DEF EInv
<1>. QED BY <1>3, <1>10, <1>11 DEF EInv

(* A step of the consumer that fetches, commits or loses what it has        *)
(* fetched.                                                                 *)
Moves ==
  /\ UNCHANGED <<log, rows, conflicts, operator, held, failures, removals>>
  /\ crashes' \in 0..MaxCrashes
  /\ worker' \in {Down, Waiting, Treating}

LEMMA MovesWorld ==
  ASSUME EInv, Moves
  PROVE  World' /\ WorldForward /\ OperatorKnows' /\ UNCHANGED Settled
<1>1. World' /\ WorldForward
  BY SameRows DEF EInv, Moves, World, WorldTyped
<1>2. OperatorKnows'
  BY <1>1, OperatorKept DEF EInv, Moves
<1>3. UNCHANGED Settled
  BY DEF Moves, Settled, Handled
<1>. QED BY <1>1, <1>2, <1>3

(* position is where the consumer of p is after the step. *)
LEMMA MovesTo ==
  ASSUME EInv, Moves, NEW p \in Partitions, NEW position \in Fetches, NEW offset0 \in Offsets,
         fetch'[p] = position, committed'[p] = offset0, offset0 <= Len(log[p]),
         position.first <= position.done, position.done <= position.at,
         position.at <= position.end, position.end <= Len(log[p]),
         position.at < position.end => position.done = position.at /\ worker'.pc # "poll",
         \A offset \in (position.first + 1)..position.done : log[p][offset] \in Settled,
         NothingFailed =>
           /\ \A offset \in 1..offset0 : log[p][offset] \in Settled
           /\ \A offset \in 1..position.at : log[p][offset] \in Settled
  PROVE  PartitionFine(p)'
<1>1. /\ UNCHANGED <<log, failures, removals, Settled>>
      /\ worker'.pc \notin {"verify", "record"}
  BY MovesWorld DEF Moves, Down, Waiting, Treating
<1>2. Len(log[p]) \in Nat /\ Len(log[p]) <= MaxLog
  BY PartitionFacts DEF EInv, PartitionFine, InOrder
<1>3. InOrder(p)'
  BY <1>1, <1>2 DEF InOrder, ToTreat
<1>4. PollSettled(p)'
  BY <1>1 DEF PollSettled
<1>5. NothingPassedOver(p)'
  BY <1>1 DEF NothingPassedOver, NothingFailed
<1>6. TreatsStarted(p)'
  BY <1>1 DEF TreatsStarted
<1>. QED BY <1>3, <1>4, <1>5, <1>6 DEF PartitionFine

LEMMA MovesPolls ==
  ASSUME EInv, Moves, committed' \in [Partitions -> Offsets],
         fetch' \in [Partitions -> Fetches], \A p \in Partitions : PartitionFine(p)'
  PROVE  EInv'
<1>1. worker' \in [pc : {"down", "poll", "handle", "verify", "record"},
                   at : Partitions \cup {NoInput}, existing : Inputs]
  BY DEF Moves, Down, Waiting, Treating, Inputs
<1>2. KafkaTyped'
  BY <1>1 DEF EInv, Moves, Polls, KafkaTyped
<1>. QED BY <1>2, MovesWorld DEF EInv, Polls

LEMMA FetchedFacts ==
  ASSUME NEW first \in Offsets, NEW end \in Offsets, NEW position,
         position = Fetched(first, end)
  PROVE  /\ position \in Fetches /\ position.first = first /\ position.at = first
         /\ position.done = first /\ position.end = end
BY DEF Fetched, Fetches

LEMMA PositionFacts ==
  ASSUME EInv, NEW p \in Partitions, NEW old, old = fetch[p]
  PROVE  /\ old \in Fetches /\ Len(log[p]) \in Offsets /\ committed[p] \in Offsets
         /\ old.first \in Offsets /\ old.at \in Offsets
         /\ old.done \in Offsets /\ old.end \in Offsets
         /\ committed[p] <= Len(log[p])
         /\ old.first <= old.done /\ old.done <= old.at /\ old.at <= old.end
         /\ old.end <= Len(log[p])
         /\ worker.pc = "poll" => old.at = old.end
         /\ ~ToTreat(p) => old.at = old.end
         /\ \A offset \in (old.first + 1)..old.done : log[p][offset] \in Settled
         /\ NothingFailed =>
              /\ \A offset \in 1..committed[p] : log[p][offset] \in Settled
              /\ \A offset \in 1..old.at : log[p][offset] \in Settled
<1>1. /\ old \in Fetches /\ Len(log[p]) \in Nat /\ committed[p] \in Offsets
      /\ PartitionFine(p)
  BY PartitionFacts DEF EInv, Polls, KafkaTyped
<1>2. /\ old.first \in Offsets /\ old.at \in Offsets
      /\ old.done \in Offsets /\ old.end \in Offsets
  BY <1>1 DEF Fetches
<1>3. /\ committed[p] <= Len(log[p]) /\ Len(log[p]) <= MaxLog
      /\ old.first <= old.done /\ old.done <= old.at
      /\ old.at <= old.end /\ old.end <= Len(log[p])
      /\ worker.pc = "poll" => ~ToTreat(p)
  BY <1>1 DEF PartitionFine, InOrder
<1>4. Len(log[p]) \in Offsets
  BY <1>1, <1>3, EventAssumption DEF Offsets
<1>5. ~ToTreat(p) => old.at = old.end
  BY <1>2, <1>3 DEF ToTreat, Offsets
<1>6. /\ \A offset \in (old.first + 1)..old.done : log[p][offset] \in Settled
      /\ NothingFailed =>
           /\ \A offset \in 1..committed[p] : log[p][offset] \in Settled
           /\ \A offset \in 1..old.at : log[p][offset] \in Settled
  BY <1>1 DEF PartitionFine, PollSettled, NothingPassedOver
<1>. QED BY <1>1, <1>2, <1>3, <1>4, <1>5, <1>6

LEMMA WorkerUpStep ==
  ASSUME EInv, StartWorker
  PROVE  EInv'
<1>1. /\ Moves /\ committed' = committed
      /\ fetch' = [p \in Partitions |-> Fetched(committed[p], committed[p])]
  BY DEF StartWorker, Moves, kafkaVars, boundVars, EInv, World, WorldTyped
<1>2. ASSUME NEW p \in Partitions
      PROVE  PartitionFine(p)' /\ fetch'[p] \in Fetches
  <2>1. PICK first \in Offsets : first = committed[p]
    BY PositionFacts
  <2>2. PICK position : position = Fetched(first, first)
    OBVIOUS
  <2>3. fetch'[p] = position
    BY <1>1, <2>1, <2>2
  <2>4. /\ position \in Fetches /\ position.first = first /\ position.at = first
        /\ position.done = first /\ position.end = first
    BY <2>2, FetchedFacts
  <2>5. /\ first <= Len(log[p])
        /\ NothingFailed => \A offset \in 1..first : log[p][offset] \in Settled
    BY <2>1, PositionFacts
  <2>6. \A offset \in (first + 1)..first : log[p][offset] \in Settled
    BY DEF Offsets
  <2>7. PartitionFine(p)'
    BY <1>1, <2>1, <2>3, <2>4, <2>5, <2>6, MovesTo DEF Offsets
  <2>. QED BY <2>3, <2>4, <2>7
<1>3. fetch' \in [Partitions -> Fetches]
  BY <1>1, <1>2
<1>4. committed' \in [Partitions -> Offsets]
  BY <1>1 DEF EInv, Polls, KafkaTyped
<1>. QED BY <1>1, <1>2, <1>3, <1>4, MovesPolls

LEMMA PollStep ==
  ASSUME EInv, PollFetches
  PROVE  EInv'
<1>1. PICK polled \in [Partitions -> 0..MaxLog] :
        /\ \A p \in Partitions : polled[p] \in fetch[p].end..Len(log[p])
        /\ fetch' = [p \in Partitions |-> Fetched(fetch[p].end, polled[p])]
  BY DEF PollFetches
<1>2. /\ Moves /\ committed' = committed /\ worker.pc = "poll" /\ worker'.pc = "handle"
  BY DEF PollFetches, Moves, kafkaVars, boundVars, EInv, World, WorldTyped, Treating, Down
<1>3. ASSUME NEW p \in Partitions
      PROVE  PartitionFine(p)' /\ fetch'[p] \in Fetches
  <2>1. PICK old : old = fetch[p]
    OBVIOUS
  <2>2. PICK end \in Offsets : end = polled[p]
    BY DEF Offsets
  <2>3. PICK position : position = Fetched(old.end, end)
    OBVIOUS
  <2>4. fetch'[p] = position
    BY <1>1, <2>1, <2>2, <2>3
  <2>5. /\ old.end \in Offsets /\ old.at = old.end /\ committed[p] \in Offsets
        /\ committed[p] <= Len(log[p])
        /\ NothingFailed =>
             /\ \A offset \in 1..committed[p] : log[p][offset] \in Settled
             /\ \A offset \in 1..old.at : log[p][offset] \in Settled
    BY <1>2, <2>1, PositionFacts
  <2>6. old.end <= end /\ end <= Len(log[p])
    BY <1>1, <2>1, <2>2, <2>5 DEF Offsets
  <2>7. /\ position \in Fetches /\ position.first = old.end /\ position.at = old.end
        /\ position.done = old.end /\ position.end = end
    BY <2>3, <2>5, FetchedFacts
  <2>8. \A offset \in (old.end + 1)..old.end : log[p][offset] \in Settled
    BY <2>5 DEF Offsets
  <2>9. PartitionFine(p)'
    BY <1>2, <2>4, <2>5, <2>6, <2>7, <2>8, MovesTo DEF Offsets
  <2>. QED BY <2>4, <2>7, <2>9
<1>4. fetch' \in [Partitions -> Fetches]
  BY <1>1, <1>3
<1>5. committed' \in [Partitions -> Offsets]
  BY <1>2 DEF EInv, Polls, KafkaTyped
<1>. QED BY <1>2, <1>3, <1>4, <1>5, MovesPolls

LEMMA CommitStep ==
  ASSUME EInv, CommitRecords
  PROVE  EInv'
<1>1. /\ Moves /\ fetch' = fetch /\ \A p \in Partitions : ~ToTreat(p)
  BY DEF CommitRecords, Moves, boundVars, EInv, World, WorldTyped
<1>2. ASSUME NEW p \in Partitions
      PROVE  committed'[p] = fetch[p].done \/ committed'[p] = committed[p]
  BY DEF CommitRecords
<1>3. ASSUME NEW p \in Partitions
      PROVE  PartitionFine(p)' /\ committed'[p] \in Offsets
  <2>1. PICK old : old = fetch[p]
    OBVIOUS
  <2>2. /\ old \in Fetches /\ Len(log[p]) \in Offsets /\ committed[p] \in Offsets
        /\ old.first \in Offsets /\ old.at \in Offsets
        /\ old.done \in Offsets /\ old.end \in Offsets
        /\ committed[p] <= Len(log[p])
        /\ old.first <= old.done /\ old.done <= old.at /\ old.at <= old.end
        /\ old.end <= Len(log[p]) /\ old.at = old.end
    BY <1>1, <2>1, PositionFacts
  <2>3. /\ \A offset \in (old.first + 1)..old.done : log[p][offset] \in Settled
        /\ NothingFailed =>
             /\ \A offset \in 1..committed[p] : log[p][offset] \in Settled
             /\ \A offset \in 1..old.at : log[p][offset] \in Settled
    BY <2>1, PositionFacts
  <2>4. PICK offset0 \in Offsets :
          /\ offset0 = committed'[p] /\ offset0 <= Len(log[p])
          /\ offset0 = old.done \/ offset0 = committed[p]
    BY <1>2, <2>1, <2>2 DEF Offsets
  <2>5. NothingFailed => \A offset \in 1..offset0 : log[p][offset] \in Settled
    BY <2>2, <2>3, <2>4 DEF Offsets
  <2>6. fetch'[p] = old
    BY <1>1, <2>1
  <2>7. ~(old.at < old.end)
    BY <2>2 DEF Offsets
  <2>8. PartitionFine(p)'
    BY <1>1, <2>2, <2>3, <2>4, <2>5, <2>6, <2>7, MovesTo
  <2>. QED BY <2>4, <2>8
<1>4. committed' \in [Partitions -> Offsets]
  <2>1. committed \in [Partitions -> Offsets]
    BY DEF EInv, Polls, KafkaTyped
  <2>2. committed' = [p \in Partitions |-> committed'[p]]
    BY <2>1 DEF CommitRecords
  <2>. QED BY <1>3, <2>2
<1>5. fetch' \in [Partitions -> Fetches]
  BY <1>1 DEF EInv, Polls, KafkaTyped
<1>. QED BY <1>1, <1>3, <1>4, <1>5, MovesPolls

LEMMA CrashStep ==
  ASSUME EInv, CrashWorker
  PROVE  EInv'
<1>1. /\ Moves /\ committed' = committed /\ worker'.pc = "down"
      /\ fetch' = [p \in Partitions |-> Fetched(0, 0)]
  BY EventAssumption DEF CrashWorker, Moves, kafkaVars, EInv, World, WorldTyped, Down
<1>2. ASSUME NEW p \in Partitions
      PROVE  PartitionFine(p)' /\ fetch'[p] \in Fetches
  <2>1. PICK position : position = Fetched(0, 0)
    OBVIOUS
  <2>2. fetch'[p] = position /\ 0 \in Offsets
    BY <1>1, <2>1, EventAssumption DEF Offsets
  <2>3. /\ position \in Fetches /\ position.first = 0 /\ position.at = 0
        /\ position.done = 0 /\ position.end = 0
    BY <2>1, <2>2, FetchedFacts
  <2>4. /\ committed[p] \in Offsets /\ committed[p] <= Len(log[p]) /\ Len(log[p]) \in Offsets
        /\ NothingFailed => \A offset \in 1..committed[p] : log[p][offset] \in Settled
    BY PositionFacts
  <2>5. 0 <= Len(log[p])
    BY <2>4 DEF Offsets
  <2>6. PartitionFine(p)'
    BY <1>1, <2>2, <2>3, <2>4, <2>5, MovesTo
  <2>. QED BY <2>2, <2>3, <2>6
<1>3. fetch' \in [Partitions -> Fetches]
  BY <1>1, <1>2
<1>4. committed' \in [Partitions -> Offsets]
  BY <1>1 DEF EInv, Polls, KafkaTyped
<1>. QED BY <1>1, <1>2, <1>3, <1>4, MovesPolls

-----------------------------------------------------------------------------
(* The operator's start, and the row's other fates. *)

(* A failed start tells nothing. *)
LEMMA ToldFailed ==
  ASSUME OperatorKnows, Told("failed")
  PROVE  OperatorKnows'
<1>1. operator \in OperatorRecords
  BY DEF OperatorKnows
<1>2. /\ operator' \in OperatorRecords
      /\ operator'.pc = "told" /\ operator'.told = "failed"
  BY <1>1 DEF Told, OperatorRecords
<1>. QED BY <1>2 DEF OperatorKnows, OperatorAsks, OperatorIsToldTheTruth

LEMMA OperatorStartStep ==
  ASSUME EInv, NEW f \in Filings, NEW s \in Scenarios, OperatorStart(f, s)
  PROVE  EInv'
<1>1. UNCHANGED <<kafkaVars, workerVars, rows, conflicts, held, crashes, failures, removals>>
  BY DEF OperatorStart, boundVars
<1>2. World' /\ WorldForward
  BY <1>1, SameRows DEF EInv, World, WorldTyped
<1>3. /\ operator' \in OperatorRecords /\ operator'.pc = "enqueue" /\ operator'.filing = f
      /\ operator'.requested = s /\ operator'.told = ""
  BY DEF OperatorStart, NoCommandYet, OperatorRecords, Inputs
<1>4. OperatorKnows'
  BY <1>3 DEF OperatorKnows, OperatorAsks, OperatorIsToldTheTruth
<1>. QED BY <1>1, <1>2, <1>4, PollsKept DEF EInv

LEMMA OperatorEnqueueStep ==
  ASSUME EInv, OperatorEnqueue
  PROVE  EInv'
<1>0. operator.pc = "enqueue"
  BY DEF OperatorEnqueue
<1>1. /\ failures' = failures \/ Fails
      /\ UNCHANGED <<kafkaVars, workerVars, conflicts, crashes, removals>>
  BY DEF OperatorEnqueue
<1>2. PICK f \in Filings, s \in Scenarios :
        f = operator.filing /\ s = operator.requested
  BY <1>0 DEF EInv, OperatorKnows, OperatorAsks
<1>3. World' /\ WorldForward
  <2>1. CASE RunWorkflow(f, s)
    BY <1>1, <2>1, RunWorkflowStep DEF EInv
  <2>2. CASE UNCHANGED <<rows, held>>
    BY <1>1, <2>2, FailsBound, SameRows DEF EInv, World, WorldTyped
  <2>. QED BY <1>2, <2>1, <2>2 DEF OperatorEnqueue
<1>4. OperatorKnows'
  <2>1. CASE operator' = [operator EXCEPT !.pc = "verify"]
    <3>1. operator \in OperatorRecords
      BY DEF EInv, OperatorKnows
    <3>2. /\ operator' \in OperatorRecords /\ operator'.pc = "verify"
          /\ operator'.filing = operator.filing /\ operator'.requested = operator.requested
          /\ operator'.existing = operator.existing /\ operator'.told = ""
      BY <1>0, <2>1, <3>1 DEF EInv, OperatorKnows, OperatorAsks, OperatorRecords
    <3>3. held \subseteq held' /\ conflicts \subseteq conflicts'
      BY <1>3 DEF WorldForward
    <3>4. OperatorIsToldTheTruth'
      BY <3>2, <3>3 DEF EInv, OperatorKnows, OperatorIsToldTheTruth, ConflictID
    <3>. QED BY <1>2, <3>2, <3>4 DEF OperatorKnows, OperatorAsks
  <2>2. CASE Told("failed")
    BY <2>2, ToldFailed DEF EInv
  <2>. QED BY <2>1, <2>2 DEF OperatorEnqueue
<1>. QED BY <1>1, <1>3, <1>4, PollsKept DEF EInv

LEMMA OperatorVerifyStep ==
  ASSUME EInv, OperatorVerify
  PROVE  EInv'
<1>0. operator.pc = "verify"
  BY DEF OperatorVerify
<1>1. /\ failures' = failures \/ Fails
      /\ UNCHANGED <<kafkaVars, workerVars, rows, conflicts, held, crashes, removals>>
  BY DEF OperatorVerify
<1>2. PICK f \in Filings, s \in Scenarios :
        f = operator.filing /\ s = operator.requested
  BY <1>0 DEF EInv, OperatorKnows, OperatorAsks
<1>3. PICK existing \in Inputs : existing = rows[f]
  BY DEF EInv, World, WorldTyped
<1>4. existing # NoInput => <<f, existing>> \in held
  BY <1>3 DEF EInv, World, RowsWereHeld
<1>5. World' /\ WorldForward
  BY <1>1, FailsBound, SameRows DEF EInv, World, WorldTyped
<1>6. operator \in OperatorRecords
  BY DEF EInv, OperatorKnows
<1>7. OperatorKnows'
  <2>1. CASE existing = s /\ Told("enqueued")
    <3>1. /\ operator' \in OperatorRecords /\ operator'.pc = "told"
          /\ operator'.filing = f /\ operator'.requested = s /\ operator'.told = "enqueued"
      BY <1>2, <1>6, <2>1 DEF Told, OperatorRecords
    <3>2. <<f, s>> \in held'
      BY <1>1, <1>4, <2>1, EventAssumption
    <3>. QED BY <3>1, <3>2 DEF OperatorKnows, OperatorAsks, OperatorIsToldTheTruth
  <2>2. CASE /\ existing \notin {NoInput, s}
             /\ operator' = [operator EXCEPT !.pc = "record", !.existing = existing]
    <3>1. /\ operator' \in OperatorRecords /\ operator'.pc = "record"
          /\ operator'.filing = f /\ operator'.requested = s
          /\ operator'.existing = existing /\ operator'.told = operator.told
      BY <1>2, <1>6, <2>2 DEF OperatorRecords
    <3>2. existing \in Scenarios \ {s} /\ <<f, existing>> \in held'
      BY <1>1, <1>4, <2>2 DEF Inputs
    <3>3. operator.told = ""
      BY <1>0 DEF EInv, OperatorKnows, OperatorAsks
    <3>4. OperatorIsToldTheTruth'
      BY <3>1, <3>3 DEF OperatorIsToldTheTruth
    <3>5. OperatorAsks'
      <4>1. operator.told = "" /\ operator'.told = ""
        BY <3>1, <3>3
      <4>. QED BY <3>1, <3>2, <4>1 DEF OperatorAsks
    <3>. QED BY <3>1, <3>4, <3>5 DEF OperatorKnows
  <2>3. CASE Told("failed")
    BY <2>3, ToldFailed DEF EInv
  <2>. QED BY <1>2, <1>3, <2>1, <2>2, <2>3 DEF OperatorVerify
<1>. QED BY <1>1, <1>5, <1>7, PollsKept DEF EInv

LEMMA OperatorRecordStep ==
  ASSUME EInv, OperatorRecord
  PROVE  EInv'
<1>0. operator.pc = "record"
  BY DEF OperatorRecord
<1>1. /\ failures' = failures \/ Fails
      /\ UNCHANGED <<kafkaVars, workerVars, rows, held, crashes, removals>>
  BY DEF OperatorRecord
<1>2. PICK f \in Filings, s \in Scenarios, existing \in Scenarios :
        /\ f = operator.filing /\ s = operator.requested /\ existing = operator.existing
        /\ s # existing /\ <<f, existing>> \in held
  <2>1. operator.pc # "told"
    BY <1>0
  <2>2. operator.filing \in Filings /\ operator.requested \in Scenarios
    BY <2>1 DEF EInv, OperatorKnows, OperatorAsks
  <2>3. /\ operator.existing \in Scenarios \ {operator.requested}
        /\ <<operator.filing, operator.existing>> \in held
    BY <1>0 DEF EInv, OperatorKnows, OperatorAsks
  <2>. QED BY <2>2, <2>3
<1>3. PICK id \in ConflictIDs : id = <<"opsctl", f, existing, s>> /\ id = ConflictID
  <2>1. <<"opsctl", f, existing, s>> \in ConflictIDs
    BY DEF ConflictIDs, OperatorConflictIDs
  <2>2. ConflictID = <<"opsctl", f, existing, s>>
    BY <1>2 DEF ConflictID
  <2>. QED BY <2>1, <2>2
<1>4. \A e \in Events : e.id # id
  BY <1>2, <1>3, EventAssumption DEF OperatorConflictIDs
<1>5. operator \in OperatorRecords
  BY DEF EInv, OperatorKnows
<1>6. CASE RecordWorkflowStartConflict(id, f, existing, s)
  <2>1. /\ World' /\ WorldForward
        /\ \E c \in conflicts' : c.id = id
    BY <1>1, <1>2, <1>4, <1>6, ConflictStep DEF EInv
  <2>2. OperatorKnows'
    <3>1. CASE Told("conflict")
      <4>1. /\ operator' \in OperatorRecords /\ operator'.pc = "told"
            /\ operator'.filing = f /\ operator'.requested = s
            /\ operator'.existing = existing /\ operator'.told = "conflict"
        BY <1>2, <1>5, <3>1 DEF Told, OperatorRecords
      <4>2. ConflictID' = id
        BY <1>3, <4>1 DEF ConflictID
      <4>. QED BY <2>1, <4>1, <4>2 DEF OperatorKnows, OperatorAsks, OperatorIsToldTheTruth
    <3>2. CASE Told("failed")
      BY <3>2, ToldFailed DEF EInv
    <3>. QED BY <3>1, <3>2 DEF OperatorRecord
  <2>. QED BY <1>1, <2>1, <2>2, PollsKept DEF EInv
<1>7. CASE Fails /\ UNCHANGED conflicts /\ Told("failed")
  <2>1. World' /\ WorldForward
    BY <1>1, <1>7, FailsBound, SameRows DEF EInv, World, WorldTyped
  <2>. QED BY <1>1, <1>7, <2>1, ToldFailed, PollsKept DEF EInv
<1>. QED BY <1>2, <1>3, <1>6, <1>7 DEF OperatorRecord

LEMMA RemoveStep ==
  ASSUME EInv, NEW f \in Filings, RemoveRow(f)
  PROVE  EInv'
<1>1. /\ removals < MaxRemovals /\ removals' = removals + 1
      /\ rows' = [rows EXCEPT ![f] = NoInput]
      /\ UNCHANGED <<kafkaVars, workerVars, conflicts, operator, held, crashes, failures>>
  BY DEF RemoveRow
<1>2. WorldTyped'
  BY <1>1, EventAssumption DEF EInv, World, WorldTyped, Inputs
<1>3. RowsWereHeld' /\ ConflictsFit'
  BY <1>1 DEF EInv, World, WorldTyped, RowsWereHeld, ConflictsFit
<1>4. OneInput'
  BY <1>1, EventAssumption DEF EInv, World, WorldTyped, OneInput
<1>5. WorldForward
  BY <1>1, EventAssumption DEF EInv, World, WorldTyped, WorldForward
<1>. QED BY <1>1, <1>2, <1>3, <1>4, <1>5, PollsKept, OperatorKept DEF EInv, World

LEMMA RecreateStep ==
  ASSUME EInv, NEW f \in Filings, NEW s \in Scenarios, RecreateRow(f, s)
  PROVE  EInv'
<1>1. /\ RunWorkflow(f, s)
      /\ UNCHANGED <<kafkaVars, workerVars, conflicts, operator, crashes, failures, removals>>
  BY DEF RecreateRow, boundVars
<1>. QED BY <1>1, RunWorkflowStep, PollsKept, OperatorKept DEF EInv

-----------------------------------------------------------------------------
(* The theorems. *)

LEMMA EventsStep ==
  ASSUME EInv, [EventsNext]_eventVars
  PROVE  EInv'
<1>1. ASSUME NEW p \in Partitions, NEW record \in Events \cup {Unreadable}, Publish(p, record)
      PROVE  EInv'
  BY <1>1, PublishStep DEF Records
<1>2. CASE StartWorker \/ PollFetches \/ CommitRecords \/ CrashWorker
  BY <1>2, WorkerUpStep, PollStep, CommitStep, CrashStep
<1>3. ASSUME NEW p \in Partitions,
             SkipUnreadable(p) \/ StartFiling(p) \/ VerifyInput(p) \/ RecordConflict(p)
      PROVE  EInv'
  BY <1>3, SkipStep, StartStep, VerifyStep, RecordStep
<1>4. CASE OperatorStarts
  BY <1>4, OperatorStartStep, OperatorEnqueueStep, OperatorVerifyStep, OperatorRecordStep
     DEF OperatorStarts
<1>5. CASE \E f \in Filings : RemoveRow(f) \/ \E s \in Scenarios : RecreateRow(f, s)
  BY <1>5, RemoveStep, RecreateStep
<1>6. CASE UNCHANGED eventVars
  <2>1. /\ UNCHANGED <<kafkaVars, workerVars, operator>>
        /\ UNCHANGED <<rows, conflicts, held, crashes, failures, removals>>
    BY <1>6 DEF eventVars, kafkaVars, workerVars
  <2>2. World' /\ WorldForward
    BY <2>1, SameRows DEF EInv, World, WorldTyped
  <2>. QED BY <2>1, <2>2, PollsKept, OperatorKept DEF EInv
<1>. QED BY <1>1, <1>2, <1>3, <1>4, <1>5, <1>6 DEF EventsNext, Consumes

LEMMA EventsInitInv ==
  ASSUME EventsInit
  PROVE  EInv
<1>1. World
  BY EventAssumption
     DEF EventsInit, World, WorldTyped, RowsWereHeld, OneInput, ConflictsFit, Inputs
<1>2. 0 \in Offsets
  BY EventAssumption DEF Offsets
<1>3. PICK position : position = Fetched(0, 0)
  OBVIOUS
<1>4. /\ position \in Fetches /\ position.first = 0 /\ position.at = 0
      /\ position.done = 0 /\ position.end = 0
  BY <1>2, <1>3, FetchedFacts
<1>5. worker.pc = "down" /\ worker \in [pc : {"down", "poll", "handle", "verify", "record"},
                 at : Partitions \cup {NoInput}, existing : Inputs]
  BY DEF EventsInit, Down, Inputs
<1>6. KafkaTyped
  BY <1>2, <1>3, <1>4, <1>5 DEF EventsInit, KafkaTyped
<1>7. ASSUME NEW p \in Partitions
      PROVE  PartitionFine(p)
  <2>1. fetch[p] = position /\ committed[p] = 0 /\ log[p] = <<>>
    BY <1>3 DEF EventsInit
  <2>2. Len(log[p]) = 0
    BY <2>1
  <2>3. InOrder(p) /\ TreatsStarted(p)
    BY <1>4, <1>5, <2>1, <2>2, EventAssumption DEF InOrder, TreatsStarted, ToTreat
  <2>4. PollSettled(p) /\ NothingPassedOver(p)
    BY <1>4, <2>1 DEF PollSettled, NothingPassedOver
  <2>. QED BY <2>3, <2>4 DEF PartitionFine
<1>8. OperatorKnows
  BY DEF EventsInit, OperatorKnows, OperatorAsks, OperatorRecords, NoCommandYet, OperatorIsToldTheTruth, Inputs
<1>. QED BY <1>1, <1>6, <1>7, <1>8 DEF EInv, Polls

(* Rows, conflicts, polls and the operator's start stay as the invariant    *)
(* says, across crashes, failures and removed rows (cmd/worker,             *)
(* consumeEvents; cmd/opsctl, start).                                       *)
THEOREM EventsInvariance == EventsSpec => []EInv
BY EventsStep, EventsInitInv, PTL DEF EventsSpec

(* Every variable has its type, and a poll's offsets are in their order.    *)
THEOREM EventsTypes == EventsSpec => []EventsTypeOK
<1>1. EInv => EventsTypeOK
  BY DEF EInv, World, WorldTyped, Polls, KafkaTyped, PartitionFine, InOrder,
     TreatsStarted, OperatorKnows, OperatorRecords, Records, EventsTypeOK
<1>. QED BY <1>1, EventsInvariance, PTL

(* An event behind the committed offset has its workflow, or its conflict   *)
(* is on record, unless something failed or a row was removed: redelivery   *)
(* after a crash and failed commits lose nothing (main.go:156-229).         *)
THEOREM NothingIsSkipped == EventsSpec => []NothingSkippedUnlessFailed
<1>1. EInv => NothingSkippedUnlessFailed
  <2>. SUFFICES ASSUME EInv, NothingFailed, NEW p \in Partitions,
                       NEW offset \in 1..committed[p]
                PROVE  Handled(log[p][offset])
    BY DEF NothingSkippedUnlessFailed, CommittedIsHandled
  <2>1. log[p][offset] \in Settled
    BY DEF EInv, Polls, PartitionFine, NothingPassedOver
  <2>. QED BY <2>1 DEF Settled
<1>. QED BY <1>1, EventsInvariance, PTL

(* Whatever failed, a commit covers no unhandled event of its own poll: a   *)
(* failed event and those behind it in the poll stay uncommitted by it      *)
(* (main.go:156-161, 224-229).                                              *)
THEOREM CommitsCoverTheirPoll == EventsSpec => CommitCoversItsPoll
<1>1. ASSUME EInv, [EventsNext]_eventVars, NEW p \in Partitions,
             NEW offset \in (committed[p] + 1)..committed'[p], offset > fetch[p].first
      PROVE  Handled(log[p][offset])
  <2>1. committed'[p] = fetch[p].done \/ committed'[p] = committed[p]
    <3>1. CASE CommitRecords
      BY <3>1 DEF CommitRecords
    <3>2. CASE ~CommitRecords
      <4>1. committed' = committed
        BY <1>1, <3>2
           DEF EventsNext, Publish, Consumes, StartWorker, PollFetches, SkipUnreadable,
           StartFiling, VerifyInput, RecordConflict, CrashWorker, OperatorStarts,
           OperatorStart, OperatorEnqueue, OperatorVerify, OperatorRecord, RemoveRow,
           RecreateRow, kafkaVars, eventVars
      <4>. QED BY <4>1
    <3>. QED BY <3>1, <3>2
  <2>2. PICK old : old = fetch[p]
    OBVIOUS
  <2>3. /\ old.first \in Offsets /\ old.done \in Offsets /\ committed[p] \in Offsets
        /\ \A i \in (old.first + 1)..old.done : log[p][i] \in Settled
    BY <1>1, <2>2, PositionFacts
  <2>4. offset \in (old.first + 1)..old.done
    BY <1>1, <2>1, <2>2, <2>3 DEF Offsets
  <2>5. log[p][offset] \in Settled
    BY <2>3, <2>4
  <2>. QED BY <2>5 DEF Settled
<1>2. EInv /\ [EventsNext]_eventVars =>
        [\A p \in Partitions :
           \A offset \in (committed[p] + 1)..committed'[p] :
             offset > fetch[p].first => Handled(log[p][offset])]_eventVars
  BY <1>1
<1>. QED BY <1>2, EventsInvariance, PTL DEF EventsSpec, CommitCoversItsPoll

(* A start on record as the loser of a conflict never was the one that ran, *)
(* as long as no row was removed (main.go:186).                             *)
THEOREM LosersNeverRan == EventsSpec => []LoserNeverRan
<1>1. EInv => LoserNeverRan
  <2>. SUFFICES ASSUME EInv, NEW c \in conflicts, <<c.filing, c.requested>> \in held
                PROVE  removals > 0
    BY DEF LoserNeverRan
  <2>1. /\ c.filing \in Filings /\ c.existing \in Scenarios /\ c.requested \in Scenarios
        /\ c.existing # c.requested /\ <<c.filing, c.existing>> \in held
    BY DEF EInv, World, WorldTyped, ConflictsFit
  <2>2. removals # 0
    BY <2>1 DEF EInv, World, OneInput
  <2>. QED BY <2>2 DEF EInv, World, WorldTyped
<1>. QED BY <1>1, EventsInvariance, PTL

(* What opsctl start tells the operator is so (cmd/opsctl, start), whatever *)
(* consumers and reconcilers did meanwhile.                                 *)
THEOREM OperatorsAreToldTheTruth == EventsSpec => []OperatorIsToldTheTruth
<1>1. EInv => OperatorIsToldTheTruth
  BY DEF EInv, OperatorKnows
<1>. QED BY <1>1, EventsInvariance, PTL
=============================================================================
