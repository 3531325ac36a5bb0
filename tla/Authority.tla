----------------------------- MODULE Authority -----------------------------
(***************************************************************************)
(* The authority (internal/authority/server.go): a ledger kept in memory   *)
(* under one mutex and written whole, as one row, before a reply leaves.   *)
(* Each critical section is one action.  A write that reports an error may *)
(* have been committed all the same, or be committed after later ones.     *)
(***************************************************************************)
EXTENDS Domain, FiniteSets

CONSTANTS MaxRestarts,      \* bound: restarts of the process
          MaxLateWrites     \* bound: failed writes that are committed late

VARIABLES mem,          \* what the server holds (Server.subs, rlAttempts, ...)
          stored,       \* the row authority_state
          work,         \* operation -> the goroutine of scheduleCompletion
          lateWrites,   \* writes whose context expired and are still under way
          observed,     \* history: <<operation, status>> somebody was told
          told,         \* history: operations whose callback a worker took
          disturbed,    \* history: a write or a callback failed since the start
          restarts, late \* counters for the bounds

workVars == <<work, told>>
vars == <<mem, stored, work, lateWrites, observed, told, disturbed, restarts, late>>

-----------------------------------------------------------------------------
ASSUME BoundsAssumption == MaxRestarts \in Nat /\ MaxLateWrites \in Nat
ASSUME FiniteAssumption == IsFiniteSet(Filings)

Statuses == {"not_found", "processing"} \cup FinalStates

(* rlAttempts, seAttempts and tlAttempts: how often an operation has been   *)
(* asked for under each of these scenarios, and how many are turned away.   *)
Throttling == {"rate_limit", "transient_5xx", "timeout_lost"}
TurnedAway == [s \in Throttling |-> IF s = "timeout_lost" THEN 1 ELSE 2]

NoSubmission == [status |-> "not_found", scenario |-> "ok", finished |-> FALSE]
EmptyState ==
  [subs     |-> [o \in OperationIDs |-> NoSubmission],
   attempts |-> [o \in OperationIDs |-> [s \in Throttling |-> 0]],
   recorded |-> 0]

NoWork == [phase |-> "none", left |-> 0, ok |-> TRUE]
Sleeping == [phase |-> "sleep", left |-> 0, ok |-> TRUE]

Init ==
  /\ mem = EmptyState /\ stored = EmptyState
  /\ work = [o \in OperationIDs |-> NoWork]
  /\ lateWrites = {} /\ observed = {} /\ told = {}
  /\ disturbed = FALSE
  /\ restarts = 0 /\ late = 0

Recorded(o) == mem.subs[o].status # "not_found"

-----------------------------------------------------------------------------
(* Writing the row. *)

(* Seeded fault: the reply leaves before the row is written. *)
SavedLater(next) ==
  /\ mem' = next
  /\ stored' \in {stored, next}
  /\ UNCHANGED <<lateWrites, disturbed, late>>

Saved(next) ==
  /\ mem' = next
  /\ stored' = next
  /\ UNCHANGED <<lateWrites, disturbed, late>>

(* Seeded fault: the state before is not restored. *)
NotSavedKept(next) ==
  /\ mem' = next
  /\ disturbed' = TRUE
  /\ UNCHANGED <<stored, lateWrites, late>>

(* Memory goes back to what it was; the row may have changed or change yet. *)
NotSaved(next) ==
  /\ UNCHANGED mem
  /\ \/ stored' \in {stored, next} /\ UNCHANGED <<lateWrites, late>>
     \/ /\ late < MaxLateWrites
        /\ lateWrites' = lateWrites \cup {next}
        /\ late' = late + 1
        /\ UNCHANGED stored
  /\ disturbed' = TRUE

LateWrite ==
  /\ \E state \in lateWrites :
       /\ stored' = state
       /\ lateWrites' = lateWrites \ {state}
  /\ UNCHANGED <<mem, work, observed, told, disturbed, restarts, late>>

-----------------------------------------------------------------------------
(* POST /submissions *)

Tell(o, status) == observed' = observed \cup {<<o, status>>}

(* What a caller learns from "accepted" is that the operation exists. *)
statusFromOutcome(o) ==
  IF mem.subs[o].status = "rejected" THEN "rejected" ELSE "processing"

(* A known operation keeps its result; asked for with another scenario it   *)
(* is a conflict that tells nothing.  Either way the row is written.        *)
SubmitKnown(o, s) ==
  /\ Recorded(o)
  /\ \/ /\ Saved(mem)
        /\ IF mem.subs[o].scenario = s THEN Tell(o, statusFromOutcome(o))
                                       ELSE UNCHANGED observed
     \/ NotSaved(mem) /\ UNCHANGED observed
  /\ UNCHANGED <<workVars, restarts>>

(* rate_limit_exhausted always answers 429. *)
SubmitExhausted(o) ==
  /\ ~Recorded(o)
  /\ Saved(mem) \/ NotSaved(mem)
  /\ UNCHANGED <<workVars, observed, restarts>>

Counted(o, s) ==
  IF s \in Throttling THEN [mem EXCEPT !.attempts[o][s] = @ + 1] ELSE mem

(* The first two rate_limit and transient_5xx requests, and the first       *)
(* timeout_lost one, only count.                                            *)
SubmitThrottled(o, s) ==
  /\ ~Recorded(o)
  /\ s \in Throttling /\ mem.attempts[o][s] < TurnedAway[s]
  /\ Saved(Counted(o, s)) \/ NotSaved(Counted(o, s))
  /\ UNCHANGED <<workVars, observed, restarts>>

(* Seeded fault: the metric counts an operation twice. *)
recordLockedTwice(o, s) ==
  [Counted(o, s) EXCEPT
     !.recorded = @ + 2,
     !.subs[o] = [status   |-> IF s = "reject" THEN "rejected" ELSE "processing",
                  scenario |-> s,
                  finished |-> s = "reject"]]

recordLocked(o, s) ==
  [Counted(o, s) EXCEPT
     !.recorded = @ + 1,
     !.subs[o] = [status   |-> IF s = "reject" THEN "rejected" ELSE "processing",
                  scenario |-> s,
                  finished |-> s = "reject"]]

(* Anything else is recorded, and completed later unless it is rejected. *)
SubmitRecorded(o, s) ==
  /\ ~Recorded(o)
  /\ s # "rate_limit_exhausted"
  /\ s \in Throttling => mem.attempts[o][s] >= TurnedAway[s]
  /\ \/ /\ Saved(recordLocked(o, s))
        /\ Tell(o, IF s = "reject" THEN "rejected" ELSE "processing")
        /\ work' = IF s = "reject" THEN work ELSE [work EXCEPT ![o] = Sleeping]
     \/ NotSaved(recordLocked(o, s)) /\ UNCHANGED <<observed, work>>
  /\ UNCHANGED <<told, restarts>>

(* GET /submissions/{id} *)
HandleStatus(o) ==
  /\ Recorded(o)
  /\ Tell(o, mem.subs[o].status)
  /\ UNCHANGED <<mem, stored, workVars, lateWrites, disturbed, restarts, late>>

-----------------------------------------------------------------------------
(* The goroutine of scheduleCompletion. *)

(* sendCallback runs once, three times for dup_callback, or not at all. *)
Sends == [s \in Scenarios |-> CASE s = "dup_callback" -> 3
                                [] s = "no_callback_done" -> 0
                                [] OTHER -> 1]

Calling(o) == [phase |-> "call", left |-> Sends[mem.subs[o].scenario], ok |-> TRUE]
Completed(o) == [mem EXCEPT !.subs[o].status = "accepted"]

(* A completion that cannot be written ends the goroutine for good. *)
Complete(o) ==
  /\ work[o].phase = "sleep"
  /\ mem.subs[o].status = "processing"
  /\ \/ Saved(Completed(o)) /\ work' = [work EXCEPT ![o] = Calling(o)]
     \/ NotSaved(Completed(o)) /\ work' = [work EXCEPT ![o] = NoWork]
  /\ UNCHANGED <<observed, told, restarts>>

(* After a restart the operation may be complete already. *)
ResumeCallback(o) ==
  /\ work[o].phase = "sleep"
  /\ mem.subs[o].status # "processing"
  /\ work' = [work EXCEPT ![o] = IF mem.subs[o].finished THEN NoWork ELSE Calling(o)]
  /\ UNCHANGED <<mem, stored, lateWrites, observed, told, disturbed, restarts, late>>

(* A worker takes the callback; the metric is written, and a failure of     *)
(* that write counts as a failed delivery.                                  *)
CallbackTaken(o) ==
  /\ work[o].phase = "call" /\ work[o].left > 0
  /\ \/ Saved(mem) /\ work' = [work EXCEPT ![o].left = @ - 1]
     \/ NotSaved(mem) /\ work' = [work EXCEPT ![o].left = @ - 1, ![o].ok = FALSE]
  /\ told' = told \cup {o}
  /\ Tell(o, "accepted")
  /\ UNCHANGED restarts

(* Seeded fault: a callback nobody took counts as delivered. *)
CallbackGaveUpUnnoticed(o) ==
  /\ work[o].phase = "call" /\ work[o].left > 0
  /\ work' = [work EXCEPT ![o].left = @ - 1]
  /\ disturbed' = TRUE
  /\ UNCHANGED <<mem, stored, lateWrites, observed, told, restarts, late>>

(* Ten attempts without an answer, taken by a worker or not. *)
CallbackGaveUp(o) ==
  /\ work[o].phase = "call" /\ work[o].left > 0
  /\ work' = [work EXCEPT ![o].left = @ - 1, ![o].ok = FALSE]
  /\ disturbed' = TRUE
  /\ \/ UNCHANGED <<told, observed>>
     \/ told' = told \cup {o} /\ Tell(o, "accepted")
  /\ UNCHANGED <<mem, stored, lateWrites, restarts, late>>

Finished(o) == [mem EXCEPT !.subs[o].finished = TRUE]

(* CallbackFinished is set once every send was delivered. *)
Finish(o) ==
  /\ work[o].phase = "call" /\ work[o].left = 0
  /\ work' = [work EXCEPT ![o] = NoWork]
  /\ \/ work[o].ok /\ (Saved(Finished(o)) \/ NotSaved(Finished(o)))
     \/ ~work[o].ok /\ UNCHANGED <<mem, stored, lateWrites, disturbed, late>>
  /\ UNCHANGED <<observed, told, restarts>>

Goroutine(o) ==
  Complete(o) \/ ResumeCallback(o) \/ CallbackTaken(o) \/ CallbackGaveUp(o) \/ Finish(o)

-----------------------------------------------------------------------------
(* Seeded faults: only unfinished operations, or no metrics, are loaded. *)
RestartProcessingOnly ==
  /\ restarts < MaxRestarts
  /\ restarts' = restarts + 1
  /\ mem' = stored
  /\ work' = [o \in OperationIDs |->
                IF stored.subs[o].status = "processing" THEN Sleeping ELSE NoWork]
  /\ disturbed' = FALSE
  /\ UNCHANGED <<stored, lateWrites, observed, told, late>>

RestartUncounted ==
  /\ restarts < MaxRestarts
  /\ restarts' = restarts + 1
  /\ mem' = [stored EXCEPT !.recorded = 0]
  /\ work' = [o \in OperationIDs |-> NoWork]
  /\ disturbed' = FALSE
  /\ UNCHANGED <<stored, lateWrites, observed, told, late>>

(* The process dies, at any point, and NewPersistentServer loads the row    *)
(* and resumes what is unfinished.                                          *)
Restart ==
  /\ restarts < MaxRestarts
  /\ restarts' = restarts + 1
  /\ mem' = stored
  /\ work' = [o \in OperationIDs |->
                IF stored.subs[o].status # "not_found" /\ ~stored.subs[o].finished
                  THEN Sleeping ELSE NoWork]
  /\ disturbed' = FALSE
  /\ UNCHANGED <<stored, lateWrites, observed, told, late>>

Next ==
  \/ \E o \in OperationIDs :
       \/ \E s \in Scenarios : \/ SubmitKnown(o, s)
                               \/ s = "rate_limit_exhausted" /\ SubmitExhausted(o)
                               \/ SubmitThrottled(o, s)
                               \/ SubmitRecorded(o, s)
       \/ HandleStatus(o)
       \/ Goroutine(o)
  \/ LateWrite
  \/ Restart

Spec == Init /\ [][Next]_vars

(* A goroutine is scheduled, and its callback ends after ten attempts. *)
FairSpec == Spec /\ \A o \in OperationIDs : WF_vars(Goroutine(o))

-----------------------------------------------------------------------------
(* Properties *)

States ==
  [subs     : [OperationIDs -> [status : Statuses, scenario : Scenarios \cup {"ok"},
                                finished : BOOLEAN]],
   attempts : [OperationIDs -> [Throttling -> 0..3]],
   recorded : 0..Cardinality(OperationIDs)]

(* Every variable has its type. *)
TypeOK ==
  /\ mem \in States /\ stored \in States
  /\ work \in [OperationIDs -> [phase : {"none", "sleep", "call"}, left : 0..3,
                                ok : BOOLEAN]]
  /\ lateWrites \subseteq States
  /\ observed \subseteq OperationIDs \X (Statuses \ {"not_found"})
  /\ told \subseteq OperationIDs
  /\ disturbed \in BOOLEAN
  /\ restarts \in 0..MaxRestarts /\ late \in 0..MaxLateWrites

(* "State is saved before it becomes observable so a successful response    *)
(* cannot outrun provider durability" (server.go:366): whatever a caller    *)
(* was ever told, by a reply, a lookup or a callback, a restart would       *)
(* still find in the row.                                                   *)
ObservedIsDurable ==
  \A o \in OperationIDs, status \in Statuses :
    <<o, status>> \in observed =>
      stored.subs[o].status \in
        {status} \cup (IF status = "processing" THEN FinalStates ELSE {})

(* submissions_recorded, by which the scenarios count external effects,     *)
(* counts each operation once, in memory and in the row, whatever writes    *)
(* failed and restarts happened.                                            *)
EffectsCountedOnce ==
  \A state \in {mem, stored} :
    state.recorded = Cardinality({o \in OperationIDs :
                                    state.subs[o].status # "not_found"})

(* A worker only ever gets a callback for an operation whose acceptance is  *)
(* durable and whose scenario has one; and an operation with a callback is  *)
(* only finished once a worker got it.                                      *)
CallbacksAreTruthful ==
  /\ \A o \in told : /\ stored.subs[o].status = "accepted"
                     /\ stored.subs[o].scenario # "no_callback_done"
  /\ \A o \in OperationIDs :
       (/\ mem.subs[o].finished /\ mem.subs[o].status = "accepted"
        /\ mem.subs[o].scenario # "no_callback_done") => o \in told

(* An unfinished operation has a goroutine that will finish it, unless      *)
(* since the last start a write failed or a callback was given up.          *)
UnfinishedIsUnderWay ==
  \A o \in OperationIDs :
    (Recorded(o) /\ ~mem.subs[o].finished /\ work[o].phase = "none") => disturbed

(* With its writes, goroutines and restarts the server is a ledger as the   *)
(* filing workflow relies on: a restart at most reveals one operation or    *)
(* completion whose write was reported as failed.                           *)
Provider == INSTANCE ProviderContract
  WITH ledger <- [o \in OperationIDs |->
                    [status |-> mem.subs[o].status, scenario |-> mem.subs[o].scenario]]

ImplementsProvider == Provider!ProviderSpec

(* A recorded operation is completed and its callback done, across          *)
(* restarts, unless a write failed or a callback was given up after the     *)
(* last start.                                                              *)
RecordedIsFinished ==
  \A o \in OperationIDs :
    Recorded(o) ~> (mem.subs[o].finished \/ disturbed)
=============================================================================
