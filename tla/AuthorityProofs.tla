--------------------------- MODULE AuthorityProofs ---------------------------
(***************************************************************************)
(* Proofs about the authority, for every set of filings, every set of      *)
(* scenarios and every bound.                                              *)
(***************************************************************************)
EXTENDS Authority, FiniteSetTheorems, TLAPS

-----------------------------------------------------------------------------
(* The inductive invariant. *)

Submissions == [status : Statuses, scenario : Scenarios \cup {"ok"}, finished : BOOLEAN]
RecordedIn(state) == {o \in OperationIDs : state.subs[o].status # "not_found"}

(* What every state that is in memory, stored or still being written is:    *)
(* the metric counts its operations, requests are turned away only while    *)
(* the operation is unknown, and an operation finishes after its outcome.   *)
Sound(state) ==
  /\ state \in [subs : [OperationIDs -> Submissions],
                attempts : [OperationIDs -> [Throttling -> 0..3]], recorded : Nat]
  /\ state.recorded = Cardinality(RecordedIn(state))
  /\ \A o \in OperationIDs :
       LET sub == state.subs[o] IN
       /\ sub.status = "not_found" => \A s \in Throttling : state.attempts[o][s] <= 2
       /\ sub.status # "not_found" => sub.scenario \in Scenarios
       /\ sub.status = "rejected" => sub.finished
       /\ sub.status \in {"not_found", "processing"} => ~sub.finished

StatesSound == \A state \in {mem, stored} \cup lateWrites : Sound(state)

Phases == [phase : {"none", "sleep", "call"}, left : 0..3, ok : BOOLEAN]

(* A goroutine waits for an operation that is not decided against, calls    *)
(* about an accepted one, and has delivered what it no longer has to.       *)
WorkFits ==
  \A o \in OperationIDs :
    LET sub == mem.subs[o] IN
    /\ work[o].phase = "sleep" => sub.status \in {"processing", "accepted"}
    /\ work[o].phase = "call" =>
         /\ sub.status = "accepted"
         /\ work[o].left <= Sends[sub.scenario]
         /\ work[o].ok /\ work[o].left < Sends[sub.scenario] => o \in told
    /\ ~work[o].ok => disturbed

HistoryTyped ==
  /\ observed \subseteq OperationIDs \X (Statuses \ {"not_found"})
  /\ told \subseteq OperationIDs
  /\ disturbed \in BOOLEAN
  /\ restarts \in 0..MaxRestarts /\ late \in 0..MaxLateWrites

AInv == /\ StatesSound /\ work \in [OperationIDs -> Phases]
        /\ WorkFits /\ HistoryTyped /\ UnfinishedIsUnderWay

-----------------------------------------------------------------------------
(* States. *)

LEMMA FinitelyManyOperations == IsFiniteSet(OperationIDs)
<1>. DEFINE g == [f \in Filings |-> ProviderOperationID(f)]
<1>1. g \in Surjection(Filings, OperationIDs)
  BY DEF Surjection, OperationIDs
<1>. QED BY <1>1, FS_Surjection, FiniteAssumption

LEMMA RecordedFinite ==
  ASSUME NEW state
  PROVE  /\ IsFiniteSet(RecordedIn(state))
         /\ Cardinality(RecordedIn(state)) \in 0..Cardinality(OperationIDs)
<1>1. RecordedIn(state) \in SUBSET OperationIDs
  BY DEF RecordedIn
<1>2. /\ IsFiniteSet(RecordedIn(state))
      /\ Cardinality(RecordedIn(state)) <= Cardinality(OperationIDs)
  BY <1>1, FinitelyManyOperations, FS_Subset
<1>3. Cardinality(RecordedIn(state)) \in Nat /\ Cardinality(OperationIDs) \in Nat
  BY <1>2, FinitelyManyOperations, FS_CardinalityType
<1>. QED BY <1>2, <1>3

LEMMA EmptySound == Sound(EmptyState)
<1>1. RecordedIn(EmptyState) = {}
  BY DEF RecordedIn, EmptyState, NoSubmission
<1>2. Cardinality(RecordedIn(EmptyState)) = 0
  BY <1>1, FS_EmptySet
<1>. QED
  BY <1>2 DEF Sound, EmptyState, NoSubmission, Submissions, Statuses, FinalStates

(* A step that leaves the set of known operations alone keeps the count. *)
LEMMA SameCount ==
  ASSUME NEW a, NEW b,
         \A o \in OperationIDs :
           b.subs[o].status # "not_found" <=> a.subs[o].status # "not_found"
  PROVE  RecordedIn(b) = RecordedIn(a)
BY DEF RecordedIn

LEMMA ThrottledSound ==
  ASSUME Sound(mem), NEW o \in OperationIDs, NEW s \in Throttling, ~Recorded(o),
         mem.attempts[o][s] < TurnedAway[s]
  PROVE  Sound(Counted(o, s))
<1>. DEFINE next == Counted(o, s)
            Increased == [mem.attempts[o] EXCEPT ![s] = mem.attempts[o][s] + 1]
<1>1. /\ next = [mem EXCEPT !.attempts[o][s] = @ + 1]
      /\ TurnedAway[s] \in {1, 2}
  BY DEF Counted, TurnedAway
<1>2. /\ next.subs = mem.subs /\ next.recorded = mem.recorded
      /\ next.attempts = [mem.attempts EXCEPT ![o] = Increased]
      /\ next = [subs |-> next.subs, attempts |-> next.attempts, recorded |-> next.recorded]
  BY <1>1 DEF Sound
<1>3. mem.attempts[o] \in [Throttling -> 0..3] /\ mem.attempts[o][s] \in 0..3
  BY DEF Sound
<1>4. Increased \in [Throttling -> 0..3]
  BY <1>1, <1>3
<1>5. next.attempts \in [OperationIDs -> [Throttling -> 0..3]]
  BY <1>2, <1>4 DEF Sound
<1>6. RecordedIn(next) = RecordedIn(mem)
  BY <1>2 DEF RecordedIn
<1>7. \A p \in OperationIDs : next.subs[p].status = "not_found" =>
        \A t \in Throttling : next.attempts[p][t] <= 2
  <2>1. \A p \in OperationIDs : p # o => next.attempts[p] = mem.attempts[p]
    BY <1>2
  <2>2. next.attempts[o] = Increased
    BY <1>2 DEF Sound
  <2>3. \A t \in Throttling :
          Increased[t] = mem.attempts[o][t] \/ (t = s /\ Increased[t] = mem.attempts[o][s] + 1)
    BY <1>3
  <2>4. mem.attempts[o][s] + 1 <= 2
    BY <1>1, <1>3
  <2>. HIDE DEF next, Increased
  <2>5. \A p \in OperationIDs : mem.subs[p].status = "not_found" =>
          \A t \in Throttling : mem.attempts[p][t] <= 2
    BY DEF Sound
  <2>. QED BY <1>2, <2>1, <2>2, <2>3, <2>4, <2>5
<1>. HIDE DEF next
<1>8. next \in [subs : [OperationIDs -> Submissions],
                attempts : [OperationIDs -> [Throttling -> 0..3]], recorded : Nat]
  BY <1>2, <1>5 DEF Sound
<1>9. Sound(next)
  BY <1>2, <1>6, <1>7, <1>8 DEF Sound
<1>. QED BY <1>9 DEF next

LEMMA UpdateTwo ==
  ASSUME NEW a, NEW b, NEW c, NEW x, NEW y,
         NEW r, r = [subs |-> a, attempts |-> b, recorded |-> c]
  PROVE  [r EXCEPT !.recorded = x, !.subs = y] = [subs |-> y, attempts |-> b, recorded |-> x]
<1>. DEFINE left == [r EXCEPT !.recorded = x, !.subs = y]
            right == [subs |-> y, attempts |-> b, recorded |-> x]
<1>1. /\ DOMAIN left = {"subs", "attempts", "recorded"}
      /\ DOMAIN right = {"subs", "attempts", "recorded"}
  OBVIOUS
<1>2. left.subs = y /\ left.recorded = x /\ left.attempts = b
  OBVIOUS
<1>3. right.subs = y /\ right.recorded = x /\ right.attempts = b
  OBVIOUS
<1>4. left = [k \in DOMAIN left |-> left[k]] /\ right = [k \in DOMAIN right |-> right[k]]
  OBVIOUS
<1>. HIDE DEF left, right
<1>5. \A k \in {"subs", "attempts", "recorded"} : left[k] = right[k]
  BY <1>2, <1>3
<1>6. left = right
  BY <1>1, <1>4, <1>5
<1>. QED BY <1>6 DEF left, right

LEMMA RecordedSound ==
  ASSUME Sound(mem), NEW o \in OperationIDs, NEW s \in Scenarios, ~Recorded(o)
  PROVE  /\ Sound(recordLocked(o, s))
         /\ recordLocked(o, s).subs =
              [mem.subs EXCEPT ![o] =
                 [status |-> IF s = "reject" THEN "rejected" ELSE "processing",
                  scenario |-> s, finished |-> s = "reject"]]
<1>. DEFINE sub == [status |-> IF s = "reject" THEN "rejected" ELSE "processing",
                    scenario |-> s, finished |-> s = "reject"]
            next == recordLocked(o, s)
            Increased == [mem.attempts[o] EXCEPT ![s] = mem.attempts[o][s] + 1]
<1>1. /\ Counted(o, s).subs = mem.subs /\ Counted(o, s).recorded = mem.recorded
      /\ Counted(o, s).attempts \in [OperationIDs -> [Throttling -> 0..3]]
      /\ \A p \in OperationIDs \ {o} : Counted(o, s).attempts[p] = mem.attempts[p]
      /\ Counted(o, s) = [subs |-> Counted(o, s).subs,
                          attempts |-> Counted(o, s).attempts,
                          recorded |-> Counted(o, s).recorded]
  <2>1. CASE s \notin Throttling
    BY <2>1 DEF Counted, Sound
  <2>2. CASE s \in Throttling
    <3>1. /\ mem.attempts[o] \in [Throttling -> 0..3]
          /\ mem.attempts[o][s] \in 0..3 /\ mem.attempts[o][s] <= 2
      BY <2>2 DEF Sound, Recorded
    <3>2. Increased \in [Throttling -> 0..3]
      <4>1. mem.attempts[o][s] + 1 \in 0..3
        BY <3>1
      <4>. QED BY <3>1, <4>1
    <3>3. Counted(o, s).attempts = [mem.attempts EXCEPT ![o] = Increased]
      BY <2>2 DEF Counted, Sound
    <3>4. Counted(o, s).attempts \in [OperationIDs -> [Throttling -> 0..3]]
      BY <3>2, <3>3 DEF Sound
    <3>. QED BY <2>2, <3>3, <3>4 DEF Counted, Sound
  <2>. QED BY <2>1, <2>2
<1>2. /\ next.recorded = mem.recorded + 1 /\ next.subs = [mem.subs EXCEPT ![o] = sub]
      /\ next.attempts = Counted(o, s).attempts
      /\ next = [subs |-> next.subs, attempts |-> next.attempts, recorded |-> next.recorded]
  <2>. DEFINE counted == Counted(o, s)
  <2>1. next = [counted EXCEPT !.recorded = counted.recorded + 1,
                               !.subs = [counted.subs EXCEPT ![o] = sub]]
    BY DEF recordLocked
  <2>. HIDE DEF sub, next, counted
  <2>2. /\ counted = [subs |-> mem.subs, attempts |-> counted.attempts,
                      recorded |-> mem.recorded]
         /\ counted.subs = mem.subs /\ counted.recorded = mem.recorded
    BY <1>1 DEF counted
  <2>3. next = [subs |-> [mem.subs EXCEPT ![o] = sub], attempts |-> counted.attempts,
                recorded |-> mem.recorded + 1]
    BY <2>1, <2>2, UpdateTwo
  <2>. QED BY <2>3 DEF counted
<1>3. RecordedIn(next) = RecordedIn(mem) \cup {o} /\ o \notin RecordedIn(mem)
  <2>1. sub.status # "not_found"
    OBVIOUS
  <2>. HIDE DEF sub, next
  <2>2. next.subs[o] = sub /\ \A p \in OperationIDs \ {o} : next.subs[p] = mem.subs[p]
    BY <1>2 DEF Sound
  <2>. QED BY <2>1, <2>2 DEF RecordedIn, Recorded
<1>4. next.recorded = Cardinality(RecordedIn(next))
  <2>1. IsFiniteSet(RecordedIn(mem)) /\ mem.recorded = Cardinality(RecordedIn(mem))
    BY RecordedFinite DEF Sound
  <2>2. Cardinality(RecordedIn(mem) \cup {o}) = Cardinality(RecordedIn(mem)) + 1
    BY <1>3, <2>1, FS_AddElement
  <2>. HIDE DEF next, sub
  <2>. QED BY <1>2, <1>3, <2>1, <2>2
<1>5. sub \in Submissions
  BY DEF Submissions, Statuses, FinalStates
<1>6. next \in [subs : [OperationIDs -> Submissions],
                attempts : [OperationIDs -> [Throttling -> 0..3]], recorded : Nat]
  BY <1>1, <1>2, <1>5 DEF Sound
<1>7. sub.status # "not_found" /\ sub.scenario \in Scenarios
      /\ (sub.status = "rejected" <=> sub.finished)
  OBVIOUS
<1>. HIDE DEF next, sub
<1>8. next.subs[o] = sub /\ \A p \in OperationIDs \ {o} : next.subs[p] = mem.subs[p]
  <2>1. DOMAIN mem.subs = OperationIDs
    BY DEF Sound
  <2>. QED BY <1>2, <2>1
<1>9. ASSUME NEW p \in OperationIDs
      PROVE  /\ next.subs[p].status = "not_found" =>
                  \A t \in Throttling : next.attempts[p][t] <= 2
             /\ next.subs[p].status # "not_found" => next.subs[p].scenario \in Scenarios
             /\ next.subs[p].status = "rejected" => next.subs[p].finished
             /\ next.subs[p].status \in {"not_found", "processing"} => ~next.subs[p].finished
  <2>1. CASE p = o
    BY <1>7, <1>8, <2>1
  <2>2. CASE p # o
    BY <1>1, <1>2, <1>8, <2>2 DEF Sound
  <2>. QED BY <2>1, <2>2
<1>10. Sound(next)
  BY <1>4, <1>6, <1>9 DEF Sound
<1>. QED BY <1>2, <1>10 DEF next, sub

(* A submission that changes but stays known. *)
LEMMA ChangedSound ==
  ASSUME Sound(mem), NEW o \in OperationIDs, NEW sub \in Submissions, NEW next,
         next = [mem EXCEPT !.subs = [mem.subs EXCEPT ![o] = sub]],
         Recorded(o), sub.status # "not_found", sub.scenario \in Scenarios,
         sub.status = "rejected" => sub.finished,
         sub.status = "processing" => ~sub.finished
  PROVE  Sound(next)
<1>1. /\ next.subs = [mem.subs EXCEPT ![o] = sub] /\ next.recorded = mem.recorded
      /\ next.attempts = mem.attempts
      /\ next \in [subs : [OperationIDs -> Submissions],
                   attempts : [OperationIDs -> [Throttling -> 0..3]], recorded : Nat]
  BY DEF Sound
<1>2. next.subs[o] = sub /\ \A p \in OperationIDs \ {o} : next.subs[p] = mem.subs[p]
  BY <1>1 DEF Sound
<1>3. RecordedIn(next) = RecordedIn(mem)
  BY <1>2 DEF RecordedIn, Recorded
<1>. QED BY <1>1, <1>2, <1>3 DEF Sound

LEMMA CompletedSound ==
  ASSUME Sound(mem), NEW o \in OperationIDs, mem.subs[o].status = "processing"
  PROVE  /\ Sound(Completed(o))
         /\ Completed(o).subs = [mem.subs EXCEPT ![o] = [@ EXCEPT !.status = "accepted"]]
<1>. DEFINE sub == [mem.subs[o] EXCEPT !.status = "accepted"]
<1>1. Completed(o) = [mem EXCEPT !.subs = [mem.subs EXCEPT ![o] = sub]]
  BY DEF Completed
<1>2. mem.subs[o] \in Submissions
  BY DEF Sound
<1>3. /\ sub \in Submissions /\ sub.status = "accepted"
      /\ sub.scenario = mem.subs[o].scenario
  BY <1>2 DEF Submissions, Statuses, FinalStates
<1>4. Recorded(o) /\ mem.subs[o].scenario \in Scenarios
  BY DEF Recorded, Sound
<1>5. Completed(o).subs = [mem.subs EXCEPT ![o] = sub]
  BY <1>1 DEF Sound
<1>. HIDE DEF sub
<1>6. Sound(Completed(o))
  BY <1>1, <1>3, <1>4, ChangedSound
<1>. QED BY <1>5, <1>6 DEF sub

LEMMA FinishedSound ==
  ASSUME Sound(mem), NEW o \in OperationIDs, mem.subs[o].status = "accepted"
  PROVE  /\ Sound(Finished(o))
         /\ Finished(o).subs = [mem.subs EXCEPT ![o] = [@ EXCEPT !.finished = TRUE]]
<1>. DEFINE sub == [mem.subs[o] EXCEPT !.finished = TRUE]
<1>1. Finished(o) = [mem EXCEPT !.subs = [mem.subs EXCEPT ![o] = sub]]
  BY DEF Finished
<1>2. mem.subs[o] \in Submissions
  BY DEF Sound
<1>3. /\ sub \in Submissions /\ sub.status = "accepted"
      /\ sub.scenario = mem.subs[o].scenario
  BY <1>2 DEF Submissions
<1>4. Recorded(o) /\ mem.subs[o].scenario \in Scenarios
  BY DEF Recorded, Sound
<1>5. Finished(o).subs = [mem.subs EXCEPT ![o] = sub]
  BY <1>1 DEF Sound
<1>. HIDE DEF sub
<1>6. Sound(Finished(o))
  BY <1>1, <1>3, <1>4, ChangedSound
<1>. QED BY <1>5, <1>6 DEF sub

-----------------------------------------------------------------------------
(* Writes. *)

Writes(next) == Saved(next) \/ NotSaved(next)

(* Whatever becomes of the write of a sound state, all states are sound. *)
LEMMA WriteSound ==
  ASSUME StatesSound, HistoryTyped, NEW next, Sound(next), Writes(next)
  PROVE  /\ StatesSound'
         /\ mem' \in {mem, next} /\ late' \in 0..MaxLateWrites /\ disturbed' \in BOOLEAN
         /\ disturbed => disturbed'
         /\ mem' = next \/ (mem' = mem /\ disturbed')
<1>1. CASE Saved(next)
  BY <1>1 DEF Saved, StatesSound, HistoryTyped
<1>2. CASE NotSaved(next)
  <2>1. \A state \in {mem', stored'} \cup lateWrites' :
          state \in {mem, stored, next} \cup lateWrites
    BY <1>2 DEF NotSaved
  <2>2. late' \in 0..MaxLateWrites
    BY <1>2, BoundsAssumption DEF NotSaved, HistoryTyped
  <2>3. \A state \in {mem, stored, next} \cup lateWrites : Sound(state)
    BY DEF StatesSound
  <2>4. StatesSound'
    BY <2>1, <2>3 DEF StatesSound, Sound
  <2>. QED BY <1>2, <2>2, <2>4 DEF NotSaved
<1>. QED BY <1>1, <1>2 DEF Writes

(* A write that leaves every submission as it is. *)
LEMMA WriteUnseen ==
  ASSUME AInv, NEW next, Sound(next), next.subs = mem.subs, Writes(next),
         UNCHANGED <<work, restarts>>, told \subseteq told', told' \subseteq OperationIDs,
         observed' \subseteq OperationIDs \X (Statuses \ {"not_found"})
  PROVE  AInv'
<1>1. /\ StatesSound' /\ mem' \in {mem, next} /\ late' \in 0..MaxLateWrites
      /\ disturbed' \in BOOLEAN
      /\ disturbed => disturbed'
  BY WriteSound DEF AInv
<1>2. mem'.subs = mem.subs
  BY <1>1
<1>3. WorkFits'
  BY <1>1, <1>2 DEF AInv, WorkFits
<1>4. UnfinishedIsUnderWay'
  BY <1>1, <1>2 DEF AInv, UnfinishedIsUnderWay, Recorded
<1>. QED BY <1>1, <1>3, <1>4 DEF AInv, HistoryTyped

LEMMA TellTyped ==
  ASSUME HistoryTyped, NEW o \in OperationIDs, NEW status \in Statuses \ {"not_found"},
         Tell(o, status)
  PROVE  observed' \subseteq OperationIDs \X (Statuses \ {"not_found"})
BY DEF HistoryTyped, Tell

-----------------------------------------------------------------------------
(* Steps that concern one operation and its goroutine. *)

LEMMA OneOperation ==
  ASSUME AInv, NEW o \in OperationIDs, NEW w \in Phases,
         StatesSound', HistoryTyped', disturbed => disturbed', told \subseteq told',
         \A p \in OperationIDs \ {o} : mem'.subs[p] = mem.subs[p],
         work' = [work EXCEPT ![o] = w],
         w.phase = "sleep" => mem'.subs[o].status \in {"processing", "accepted"},
         w.phase = "call" =>
           /\ mem'.subs[o].status = "accepted"
           /\ w.left <= Sends[mem'.subs[o].scenario]
           /\ w.ok /\ w.left < Sends[mem'.subs[o].scenario] => o \in told',
         ~w.ok => disturbed',
         mem'.subs[o].status # "not_found" /\ ~mem'.subs[o].finished /\ w.phase = "none"
           => disturbed'
  PROVE  AInv'
<1>1. /\ work' \in [OperationIDs -> Phases] /\ work'[o] = w
      /\ \A p \in OperationIDs \ {o} : work'[p] = work[p]
  BY DEF AInv
<1>2. WorkFits'
  <2>. SUFFICES ASSUME NEW p \in OperationIDs
                PROVE  LET sub == mem'.subs[p] IN
                       /\ work'[p].phase = "sleep" => sub.status \in {"processing", "accepted"}
                       /\ work'[p].phase = "call" =>
                            /\ sub.status = "accepted"
                            /\ work'[p].left <= Sends[sub.scenario]
                            /\ work'[p].ok /\ work'[p].left < Sends[sub.scenario] => p \in told'
                       /\ ~work'[p].ok => disturbed'
    BY DEF WorkFits, Sends
  <2>1. CASE p = o
    BY <1>1, <2>1
  <2>2. CASE p # o
    BY <1>1, <2>2 DEF AInv, WorkFits
  <2>. QED BY <2>1, <2>2
<1>3. UnfinishedIsUnderWay'
  <2>. SUFFICES ASSUME NEW p \in OperationIDs, mem'.subs[p].status # "not_found",
                       ~mem'.subs[p].finished, work'[p].phase = "none"
                PROVE  disturbed'
    BY DEF UnfinishedIsUnderWay, Recorded
  <2>1. CASE p = o
    BY <1>1, <2>1
  <2>2. CASE p # o
    BY <1>1, <2>2 DEF AInv, UnfinishedIsUnderWay, Recorded
  <2>. QED BY <2>1, <2>2
<1>. QED BY <1>1, <1>2, <1>3 DEF AInv

(* How often the callback of a known operation is sent. *)
LEMMA SendsTyped ==
  ASSUME NEW s \in Scenarios
  PROVE  /\ Sends[s] \in 0..3
         /\ Sends[s] = 0 <=> s = "no_callback_done"
BY DEF Sends

LEMMA SubmissionFacts ==
  ASSUME AInv, NEW o \in OperationIDs
  PROVE  /\ Sound(mem) /\ Sound(stored)
         /\ mem.subs[o] \in Submissions
         /\ work[o] \in Phases
         /\ mem.subs[o].status # "not_found" => mem.subs[o].scenario \in Scenarios
         /\ mem.subs[o].status \in Statuses
<1>1. Sound(mem) /\ Sound(stored)
  BY DEF AInv, StatesSound
<1>2. mem.subs[o] \in Submissions
  BY <1>1 DEF Sound
<1>. QED BY <1>1, <1>2 DEF AInv, Sound, Submissions

LEMMA SubmitRecordedStep ==
  ASSUME AInv, NEW o \in OperationIDs, NEW s \in Scenarios, SubmitRecorded(o, s)
  PROVE  AInv'
<1>. DEFINE next == recordLocked(o, s)
            sub == [status |-> IF s = "reject" THEN "rejected" ELSE "processing",
                    scenario |-> s, finished |-> s = "reject"]
<1>0. HistoryTyped /\ StatesSound /\ ~Recorded(o) /\ Sound(mem) /\ work[o] \in Phases
  BY SubmissionFacts DEF AInv, SubmitRecorded
<1>1. Sound(next) /\ next.subs = [mem.subs EXCEPT ![o] = sub]
  BY <1>0, RecordedSound
<1>2. /\ sub.status = IF s = "reject" THEN "rejected" ELSE "processing"
      /\ sub.finished <=> s = "reject"
  OBVIOUS
<1>. HIDE DEF sub, next
<1>3. CASE /\ Saved(next)
           /\ Tell(o, IF s = "reject" THEN "rejected" ELSE "processing")
           /\ work' = IF s = "reject" THEN work ELSE [work EXCEPT ![o] = Sleeping]
  <2>1. StatesSound' /\ late' \in 0..MaxLateWrites /\ disturbed' \in BOOLEAN
        /\ (disturbed => disturbed')
    BY <1>0, <1>1, <1>3, WriteSound DEF Writes
  <2>2. mem'.subs = [mem.subs EXCEPT ![o] = sub]
    BY <1>1, <1>3 DEF Saved
  <2>3. mem'.subs[o] = sub /\ \A p \in OperationIDs \ {o} : mem'.subs[p] = mem.subs[p]
    BY <1>0, <2>2 DEF Sound
  <2>4. observed' \subseteq OperationIDs \X (Statuses \ {"not_found"})
    BY <1>0, <1>3, TellTyped DEF Statuses, FinalStates
  <2>5. HistoryTyped' /\ told' = told
    BY <1>0, <2>1, <2>4 DEF HistoryTyped, SubmitRecorded
  <2>6. CASE s = "reject"
    <3>1. work' = [work EXCEPT ![o] = work[o]]
      BY <1>3, <2>6 DEF AInv
    <3>2. work[o].phase \notin {"sleep", "call"} /\ (~work[o].ok => disturbed)
      BY <1>0 DEF AInv, WorkFits, Recorded
    <3>. QED BY <1>0, <1>2, <2>1, <2>3, <2>5, <2>6, <3>1, <3>2, OneOperation
  <2>7. CASE s # "reject"
    <3>1. /\ work' = [work EXCEPT ![o] = Sleeping] /\ Sleeping \in Phases
          /\ Sleeping.phase = "sleep" /\ Sleeping.ok
      BY <1>3, <2>7 DEF Sleeping, Phases
    <3>. QED BY <1>2, <2>1, <2>3, <2>5, <2>7, <3>1, OneOperation
  <2>. QED BY <2>6, <2>7
<1>4. CASE NotSaved(next) /\ UNCHANGED <<observed, work>>
  <2>1. /\ StatesSound' /\ late' \in 0..MaxLateWrites /\ disturbed' \in BOOLEAN
        /\ (disturbed => disturbed')
    BY <1>0, <1>1, <1>4, WriteSound DEF Writes
  <2>2. mem' = mem
    BY <1>4 DEF NotSaved
  <2>3. HistoryTyped' /\ told' = told
    BY <1>0, <1>4, <2>1 DEF HistoryTyped, SubmitRecorded
  <2>4. WorkFits'
    BY <1>4, <2>1, <2>2, <2>3 DEF AInv, WorkFits
  <2>5. UnfinishedIsUnderWay'
    BY <1>4, <2>1, <2>2 DEF AInv, UnfinishedIsUnderWay, Recorded
  <2>. QED BY <1>4, <2>1, <2>3, <2>4, <2>5 DEF AInv
<1>. QED BY <1>3, <1>4 DEF SubmitRecorded, next

LEMMA CompleteStep ==
  ASSUME AInv, NEW o \in OperationIDs, Complete(o)
  PROVE  AInv'
<1>. DEFINE next == Completed(o)
            sub == [mem.subs[o] EXCEPT !.status = "accepted"]
<1>0. /\ HistoryTyped /\ StatesSound /\ Sound(mem) /\ mem.subs[o] \in Submissions
      /\ mem.subs[o].status = "processing" /\ mem.subs[o].scenario \in Scenarios
  BY SubmissionFacts DEF AInv, Complete
<1>1. Sound(next) /\ next.subs = [mem.subs EXCEPT ![o] = sub]
  BY <1>0, CompletedSound
<1>2. sub.status = "accepted" /\ sub.scenario = mem.subs[o].scenario
  BY <1>0 DEF Submissions
<1>. HIDE DEF sub, next
<1>3. /\ StatesSound' /\ late' \in 0..MaxLateWrites /\ disturbed' \in BOOLEAN
      /\ (disturbed => disturbed')
  BY <1>0, <1>1, WriteSound DEF Writes, Complete, next
<1>4. HistoryTyped' /\ told' = told
  BY <1>0, <1>3 DEF HistoryTyped, Complete
<1>5. CASE Saved(next) /\ work' = [work EXCEPT ![o] = Calling(o)]
  <2>1. mem'.subs = [mem.subs EXCEPT ![o] = sub]
    BY <1>1, <1>5 DEF Saved
  <2>2. mem'.subs[o] = sub /\ \A p \in OperationIDs \ {o} : mem'.subs[p] = mem.subs[p]
    BY <1>0, <2>1 DEF Sound
  <2>3. /\ Calling(o) \in Phases /\ Calling(o).phase = "call" /\ Calling(o).ok
        /\ Calling(o).left <= Sends[sub.scenario]
        /\ ~(Calling(o).left < Sends[sub.scenario])
    BY <1>0, <1>2, SendsTyped DEF Calling, Phases
  <2>4. told \subseteq told'
    BY <1>4
  <2>. HIDE DEF Calling
  <2>. QED BY <1>2, <1>3, <1>5, <1>4, <2>2, <2>3, <2>4, OneOperation
<1>6. CASE NotSaved(next) /\ work' = [work EXCEPT ![o] = NoWork]
  <2>1. mem' = mem /\ disturbed'
    BY <1>6 DEF NotSaved
  <2>2. NoWork \in Phases /\ NoWork.phase = "none"
    BY DEF NoWork, Phases
  <2>. QED BY <1>3, <1>4, <1>6, <2>1, <2>2, OneOperation
<1>. QED BY <1>5, <1>6 DEF Complete, next

LEMMA ResumeCallbackStep ==
  ASSUME AInv, NEW o \in OperationIDs, ResumeCallback(o)
  PROVE  AInv'
<1>1. /\ mem.subs[o].status = "accepted" /\ mem.subs[o].scenario \in Scenarios
      /\ mem.subs[o].finished \in BOOLEAN
  BY SubmissionFacts DEF AInv, WorkFits, ResumeCallback, Submissions
<1>2. StatesSound' /\ HistoryTyped' /\ mem' = mem /\ told' = told
      /\ (disturbed => disturbed')
  BY DEF AInv, StatesSound, HistoryTyped, ResumeCallback
<1>3. CASE mem.subs[o].finished
  <2>1. /\ NoWork \in Phases /\ NoWork.phase = "none" /\ NoWork.ok
        /\ work' = [work EXCEPT ![o] = NoWork]
    BY <1>3 DEF NoWork, Phases, ResumeCallback
  <2>. QED BY <1>2, <1>3, <2>1, OneOperation
<1>4. CASE ~mem.subs[o].finished
  <2>1. /\ Calling(o) \in Phases /\ Calling(o).phase = "call" /\ Calling(o).ok
        /\ Calling(o).left <= Sends[mem.subs[o].scenario]
        /\ ~(Calling(o).left < Sends[mem.subs[o].scenario])
    BY <1>1, SendsTyped DEF Calling, Phases
  <2>2. work' = [work EXCEPT ![o] = Calling(o)]
    BY <1>4 DEF ResumeCallback
  <2>. QED BY <1>1, <1>2, <2>1, <2>2, OneOperation
<1>. QED BY <1>3, <1>4

(* What a sent callback, taken or not, leaves of its goroutine. *)
LEMMA SentFacts ==
  ASSUME AInv, NEW o \in OperationIDs, work[o].phase = "call", work[o].left > 0,
         NEW b \in BOOLEAN, b => work[o].ok
  PROVE  LET w == [work[o] EXCEPT !.left = @ - 1, !.ok = b] IN
         /\ w \in Phases /\ w.phase = "call" /\ w.ok = b
         /\ w.left = work[o].left - 1 /\ w.left <= Sends[mem.subs[o].scenario]
         /\ mem.subs[o].status = "accepted"
<1>1. /\ work[o] \in Phases /\ mem.subs[o].status = "accepted"
      /\ work[o].left <= Sends[mem.subs[o].scenario]
      /\ mem.subs[o].scenario \in Scenarios
  BY SubmissionFacts DEF AInv, WorkFits
<1>2. Sends[mem.subs[o].scenario] \in 0..3 /\ work[o].left \in 0..3
  BY <1>1, SendsTyped DEF Phases
<1>3. /\ work[o].left - 1 \in 0..3
      /\ work[o].left - 1 <= Sends[mem.subs[o].scenario]
  BY <1>1, <1>2
<1>. DEFINE w == [work[o] EXCEPT !.left = @ - 1, !.ok = b]
<1>4. w \in Phases
  BY <1>1, <1>3 DEF Phases
<1>5. w.phase = "call" /\ w.ok = b /\ w.left = work[o].left - 1
  BY <1>1 DEF Phases
<1>. QED BY <1>1, <1>3, <1>4, <1>5

LEMMA CallbackTakenStep ==
  ASSUME AInv, NEW o \in OperationIDs, CallbackTaken(o)
  PROVE  AInv'
<1>0. /\ HistoryTyped /\ StatesSound /\ Sound(mem) /\ work[o] \in Phases
      /\ work[o].phase = "call" /\ work[o].left > 0 /\ work[o].ok \in BOOLEAN
      /\ work \in [OperationIDs -> Phases]
  BY SubmissionFacts DEF AInv, CallbackTaken, Phases
<1>1. Writes(mem) /\ mem' = mem
  BY DEF Writes, CallbackTaken, Saved, NotSaved
<1>2. /\ StatesSound' /\ late' \in 0..MaxLateWrites /\ disturbed' \in BOOLEAN
      /\ (disturbed => disturbed')
  BY <1>0, <1>1, WriteSound
<1>3. observed' \subseteq OperationIDs \X (Statuses \ {"not_found"})
  BY <1>0, TellTyped DEF CallbackTaken, Statuses, FinalStates
<1>4. HistoryTyped' /\ told' = told \cup {o}
  BY <1>0, <1>2, <1>3 DEF HistoryTyped, CallbackTaken
<1>5. CASE Saved(mem) /\ work' = [work EXCEPT ![o].left = @ - 1]
  <2>. DEFINE w == [work[o] EXCEPT !.left = @ - 1, !.ok = work[o].ok]
  <2>1. work' = [work EXCEPT ![o] = w]
    BY <1>0, <1>5 DEF Phases
  <2>2. /\ w \in Phases /\ w.phase = "call" /\ w.ok = work[o].ok
        /\ w.left <= Sends[mem.subs[o].scenario] /\ mem.subs[o].status = "accepted"
    BY <1>0, SentFacts
  <2>3. ~w.ok => disturbed
    BY <2>2 DEF AInv, WorkFits
  <2>. HIDE DEF w
  <2>. QED BY <1>1, <1>2, <1>4, <2>1, <2>2, <2>3, OneOperation
<1>6. CASE NotSaved(mem) /\ work' = [work EXCEPT ![o].left = @ - 1, ![o].ok = FALSE]
  <2>. DEFINE w == [work[o] EXCEPT !.left = @ - 1, !.ok = FALSE]
  <2>1. work' = [work EXCEPT ![o] = w] /\ disturbed'
    BY <1>0, <1>6 DEF Phases, NotSaved
  <2>2. /\ w \in Phases /\ w.phase = "call" /\ ~w.ok
        /\ w.left <= Sends[mem.subs[o].scenario] /\ mem.subs[o].status = "accepted"
    BY <1>0, SentFacts
  <2>. HIDE DEF w
  <2>. QED BY <1>1, <1>2, <1>4, <2>1, <2>2, OneOperation
<1>. QED BY <1>5, <1>6 DEF CallbackTaken

LEMMA CallbackGaveUpStep ==
  ASSUME AInv, NEW o \in OperationIDs, CallbackGaveUp(o)
  PROVE  AInv'
<1>. DEFINE w == [work[o] EXCEPT !.left = @ - 1, !.ok = FALSE]
<1>0. /\ HistoryTyped /\ work[o] \in Phases /\ work \in [OperationIDs -> Phases]
      /\ work[o].phase = "call" /\ work[o].left > 0
  BY SubmissionFacts DEF AInv, CallbackGaveUp
<1>1. work' = [work EXCEPT ![o] = w] /\ disturbed' = TRUE /\ mem' = mem
  BY <1>0 DEF CallbackGaveUp, Phases
<1>2. /\ w \in Phases /\ w.phase = "call" /\ ~w.ok
      /\ w.left <= Sends[mem.subs[o].scenario] /\ mem.subs[o].status = "accepted"
  BY <1>0, SentFacts
<1>3. StatesSound'
  BY DEF AInv, StatesSound, CallbackGaveUp
<1>4. /\ observed' \subseteq OperationIDs \X (Statuses \ {"not_found"})
      /\ told \subseteq told' /\ told' \subseteq OperationIDs
  BY <1>0, TellTyped DEF CallbackGaveUp, HistoryTyped, Statuses, FinalStates
<1>5. HistoryTyped'
  BY <1>0, <1>1, <1>4 DEF HistoryTyped, CallbackGaveUp
<1>. HIDE DEF w
<1>. QED BY <1>1, <1>2, <1>3, <1>4, <1>5, OneOperation

LEMMA FinishStep ==
  ASSUME AInv, NEW o \in OperationIDs, Finish(o)
  PROVE  AInv'
<1>. DEFINE next == Finished(o)
            sub == [mem.subs[o] EXCEPT !.finished = TRUE]
<1>0. /\ HistoryTyped /\ StatesSound /\ Sound(mem) /\ mem.subs[o] \in Submissions
      /\ mem.subs[o].status = "accepted" /\ (~work[o].ok => disturbed)
  BY SubmissionFacts DEF AInv, Finish, WorkFits
<1>1. Sound(next) /\ next.subs = [mem.subs EXCEPT ![o] = sub]
  BY <1>0, FinishedSound
<1>2. sub.finished
  BY <1>0 DEF Submissions
<1>3. /\ NoWork \in Phases /\ NoWork.phase = "none" /\ NoWork.ok
      /\ work' = [work EXCEPT ![o] = NoWork]
  BY DEF NoWork, Phases, Finish
<1>. HIDE DEF sub, next
<1>4. CASE Saved(next)
  <2>1. /\ StatesSound' /\ late' \in 0..MaxLateWrites /\ disturbed' \in BOOLEAN
        /\ (disturbed => disturbed')
    BY <1>0, <1>1, <1>4, WriteSound DEF Writes
  <2>2. HistoryTyped' /\ told' = told
    BY <1>0, <2>1 DEF HistoryTyped, Finish
  <2>3. mem'.subs = [mem.subs EXCEPT ![o] = sub]
    BY <1>1, <1>4 DEF Saved
  <2>4. mem'.subs[o] = sub /\ \A p \in OperationIDs \ {o} : mem'.subs[p] = mem.subs[p]
    BY <1>0, <2>3 DEF Sound
  <2>. QED BY <1>2, <1>3, <2>1, <2>2, <2>4, OneOperation
<1>5. CASE NotSaved(next)
  <2>1. /\ StatesSound' /\ late' \in 0..MaxLateWrites /\ disturbed' \in BOOLEAN
    BY <1>0, <1>1, <1>5, WriteSound DEF Writes
  <2>2. HistoryTyped' /\ told' = told
    BY <1>0, <2>1 DEF HistoryTyped, Finish
  <2>3. mem' = mem /\ disturbed'
    BY <1>5 DEF NotSaved
  <2>. QED BY <1>3, <2>1, <2>2, <2>3, OneOperation
<1>6. CASE ~work[o].ok /\ UNCHANGED <<mem, stored, lateWrites, disturbed, late>>
  <2>1. StatesSound'
    BY <1>0, <1>6 DEF StatesSound
  <2>2. HistoryTyped' /\ told' = told
    BY <1>0, <1>6 DEF HistoryTyped, Finish
  <2>. QED BY <1>0, <1>3, <1>6, <2>1, <2>2, OneOperation
<1>. QED BY <1>4, <1>5, <1>6 DEF Finish, next

LEMMA LateWriteStep ==
  ASSUME AInv, LateWrite
  PROVE  AInv'
<1>1. /\ mem' = mem /\ work' = work /\ told' = told /\ disturbed' = disturbed
      /\ \A state \in {mem', stored'} \cup lateWrites' : state \in {mem} \cup lateWrites
  BY DEF LateWrite
<1>2. StatesSound'
  BY <1>1 DEF AInv, StatesSound, Sound
<1>3. HistoryTyped'
  BY DEF AInv, HistoryTyped, LateWrite
<1>4. WorkFits' /\ UnfinishedIsUnderWay'
  BY <1>1 DEF AInv, WorkFits, UnfinishedIsUnderWay, Recorded
<1>. QED BY <1>1, <1>2, <1>3, <1>4 DEF AInv

LEMMA RestartStep ==
  ASSUME AInv, Restart
  PROVE  AInv'
<1>1. mem' = stored /\ stored' = stored /\ lateWrites' = lateWrites /\ Sound(stored)
  BY DEF Restart, AInv, StatesSound
<1>2. StatesSound'
  BY <1>1 DEF AInv, StatesSound, Sound
<1>3. HistoryTyped'
  <2>1. disturbed' \in BOOLEAN
    BY DEF Restart
  <2>2. restarts' \in 0..MaxRestarts
    BY BoundsAssumption DEF AInv, HistoryTyped, Restart
  <2>3. observed' = observed /\ told' = told /\ late' = late
    BY DEF Restart
  <2>. QED BY <2>1, <2>2, <2>3 DEF AInv, HistoryTyped
<1>4. /\ NoWork \in Phases /\ NoWork.phase = "none" /\ NoWork.ok
      /\ Sleeping \in Phases /\ Sleeping.phase = "sleep" /\ Sleeping.ok
  BY DEF NoWork, Sleeping, Phases
<1>5. /\ work' \in [OperationIDs -> Phases]
      /\ \A o \in OperationIDs :
           work'[o] = IF stored.subs[o].status # "not_found" /\ ~stored.subs[o].finished
                        THEN Sleeping ELSE NoWork
  BY <1>4 DEF Restart
<1>6. WorkFits'
  <2>. SUFFICES ASSUME NEW o \in OperationIDs
                PROVE  /\ work'[o].phase # "call" /\ work'[o].ok
                       /\ work'[o].phase = "sleep" =>
                            stored.subs[o].status \in {"processing", "accepted"}
    BY <1>1 DEF WorkFits
  <2>1. /\ stored.subs[o] \in Submissions
        /\ stored.subs[o].status = "rejected" => stored.subs[o].finished
    BY <1>1 DEF Sound
  <2>2. stored.subs[o].status \in {"not_found", "processing", "accepted", "rejected"}
    BY <2>1 DEF Submissions, Statuses, FinalStates
  <2>. QED BY <1>4, <1>5, <2>1, <2>2
<1>7. UnfinishedIsUnderWay'
  <2>. SUFFICES ASSUME NEW o \in OperationIDs, stored.subs[o].status # "not_found",
                       ~stored.subs[o].finished
                PROVE  work'[o].phase # "none"
    BY <1>1 DEF UnfinishedIsUnderWay, Recorded
  <2>. QED BY <1>4, <1>5
<1>. QED BY <1>2, <1>3, <1>5, <1>6, <1>7 DEF AInv

LEMMA StepKeepsAInv ==
  ASSUME AInv, [Next]_vars
  PROVE  AInv'
<1>0. HistoryTyped /\ Sound(mem)
  BY DEF AInv, StatesSound
<1>1. ASSUME NEW o \in OperationIDs, NEW s \in Scenarios, SubmitKnown(o, s)
      PROVE  AInv'
  <2>1. Writes(mem)
    BY <1>1 DEF SubmitKnown, Writes
  <2>2. statusFromOutcome(o) \in Statuses \ {"not_found"}
    BY DEF statusFromOutcome, Statuses, FinalStates
  <2>3. observed' \subseteq OperationIDs \X (Statuses \ {"not_found"})
    BY <1>0, <1>1, <2>2, TellTyped DEF SubmitKnown, HistoryTyped
  <2>. QED BY <1>0, <1>1, <2>1, <2>3, WriteUnseen DEF SubmitKnown, workVars, HistoryTyped
<1>2. ASSUME NEW o \in OperationIDs, SubmitExhausted(o)
      PROVE  AInv'
  <2>1. Writes(mem)
    BY <1>2 DEF SubmitExhausted, Writes
  <2>. QED BY <1>0, <1>2, <2>1, WriteUnseen DEF SubmitExhausted, workVars, HistoryTyped
<1>3. ASSUME NEW o \in OperationIDs, NEW s \in Scenarios, SubmitThrottled(o, s)
      PROVE  AInv'
  <2>1. Writes(Counted(o, s)) /\ Sound(Counted(o, s))
    BY <1>0, <1>3, ThrottledSound DEF SubmitThrottled, Writes
  <2>2. Counted(o, s).subs = mem.subs
    BY <1>0 DEF Counted, Sound
  <2>. QED BY <1>0, <1>3, <2>1, <2>2, WriteUnseen DEF SubmitThrottled, workVars, HistoryTyped
<1>4. ASSUME NEW o \in OperationIDs, HandleStatus(o)
      PROVE  AInv'
  <2>1. mem.subs[o].status \in Statuses \ {"not_found"}
    BY <1>4, SubmissionFacts DEF HandleStatus, Recorded
  <2>2. HistoryTyped'
    BY <1>0, <1>4, <2>1, TellTyped DEF HandleStatus, HistoryTyped, workVars
  <2>3. mem' = mem /\ work' = work /\ told' = told /\ disturbed' = disturbed
    BY <1>4 DEF HandleStatus, workVars
  <2>4. StatesSound'
    BY <1>4 DEF AInv, StatesSound, HandleStatus
  <2>5. WorkFits' /\ UnfinishedIsUnderWay'
    BY <2>3 DEF AInv, WorkFits, UnfinishedIsUnderWay, Recorded
  <2>. QED BY <2>2, <2>3, <2>4, <2>5 DEF AInv
<1>5. ASSUME NEW o \in OperationIDs, Goroutine(o)
      PROVE  AInv'
  BY <1>5, CompleteStep, ResumeCallbackStep, CallbackTakenStep, CallbackGaveUpStep,
     FinishStep DEF Goroutine
<1>6. CASE UNCHANGED vars
  BY <1>6 DEF vars, AInv, StatesSound, WorkFits, HistoryTyped, UnfinishedIsUnderWay, Recorded
<1>. QED
  BY <1>1, <1>2, <1>3, <1>4, <1>5, <1>6, SubmitRecordedStep, LateWriteStep, RestartStep
  DEF Next

-----------------------------------------------------------------------------
(* Theorems. *)

LEMMA AInvInit == Init => AInv
<1>. SUFFICES ASSUME Init PROVE AInv
  OBVIOUS
<1>1. StatesSound
  BY EmptySound DEF Init, StatesSound
<1>2. NoWork \in Phases /\ NoWork.phase = "none" /\ NoWork.ok
  BY DEF NoWork, Phases
<1>3. \A o \in OperationIDs : mem.subs[o] = NoSubmission /\ work[o] = NoWork
  BY DEF Init, EmptyState
<1>4. WorkFits /\ UnfinishedIsUnderWay
  BY <1>2, <1>3 DEF WorkFits, UnfinishedIsUnderWay, Recorded, NoSubmission
<1>5. HistoryTyped
  <2>1. disturbed \in BOOLEAN
    BY DEF Init
  <2>2. restarts \in 0..MaxRestarts /\ late \in 0..MaxLateWrites
    BY BoundsAssumption DEF Init
  <2>3. observed = {} /\ told = {}
    BY DEF Init
  <2>. QED BY <2>1, <2>2, <2>3 DEF HistoryTyped
<1>. QED BY <1>1, <1>2, <1>4, <1>5 DEF AInv, Init

LEMMA AInvHolds == Spec => []AInv
BY AInvInit, StepKeepsAInv, PTL DEF Spec

(* Every variable of the authority has its type; in particular no operation *)
(* is turned away more often than the scenario says, and the metric counts  *)
(* no more than the operations there are.                                   *)
THEOREM AuthorityTypes == Spec => []TypeOK
<1>1. AInv => TypeOK
  <2>. SUFFICES ASSUME AInv PROVE TypeOK
    OBVIOUS
  <2>1. ASSUME NEW state, Sound(state) PROVE state \in States
    <3>1. state.recorded \in 0..Cardinality(OperationIDs)
      BY <2>1, RecordedFinite DEF Sound
    <3>. QED BY <2>1, <3>1 DEF Sound, States, Submissions
  <2>2. mem \in States /\ stored \in States /\ lateWrites \subseteq States
    BY <2>1 DEF AInv, StatesSound
  <2>. QED BY <2>2 DEF AInv, HistoryTyped, TypeOK, Phases
<1>. QED BY <1>1, AInvHolds, PTL

(* submissions_recorded counts every effect once, in memory and in the row, *)
(* across failed and late writes and restarts.                              *)
THEOREM CountedOnce == Spec => []EffectsCountedOnce
<1>1. AInv => EffectsCountedOnce
  BY DEF AInv, StatesSound, Sound, EffectsCountedOnce, RecordedIn
<1>. QED BY <1>1, AInvHolds, PTL

(* An unfinished operation has a goroutine, unless a write failed or a      *)
(* callback was given up since the last start.                              *)
THEOREM UnderWay == Spec => []UnfinishedIsUnderWay
<1>1. AInv => UnfinishedIsUnderWay
  BY DEF AInv
<1>. QED BY <1>1, AInvHolds, PTL

-----------------------------------------------------------------------------
(* When a failed write is committed at once or never (MaxLateWrites = 0):   *)
(* the row is at most one operation or completion ahead of the memory, and  *)
(* what was told is in the memory, hence in the row.                        *)

LedgerOf(state) ==
  [o \in OperationIDs |-> [status |-> state.subs[o].status, scenario |-> state.subs[o].scenario]]

First(s) == [status |-> IF s = "reject" THEN "rejected" ELSE "processing", scenario |-> s]

(* The ledgers of a and b are the same, or b is one step of the provider    *)
(* ahead.                                                                   *)
OneAhead(a, b) ==
  \/ LedgerOf(b) = LedgerOf(a)
  \/ \E o \in OperationIDs :
       \/ /\ a.subs[o].status = "not_found"
          /\ \E s \in Scenarios \ {"rate_limit_exhausted"} :
               LedgerOf(b) = [LedgerOf(a) EXCEPT ![o] = First(s)]
       \/ /\ a.subs[o].status = "processing"
          /\ LedgerOf(b) = [LedgerOf(a) EXCEPT ![o] =
                              [status |-> "accepted", scenario |-> a.subs[o].scenario]]

Outlives(told_, now) ==
  now \in {told_} \cup (IF told_ = "processing" THEN FinalStates ELSE {})

ObservedInMemory ==
  \A o \in OperationIDs, status \in Statuses :
    <<o, status>> \in observed => Outlives(status, mem.subs[o].status)

HasCallback(sub) == sub.status = "accepted" /\ sub.scenario # "no_callback_done"
ToldInMemory == \A o \in told : HasCallback(mem.subs[o])
FinishedIn(state, S) ==
  \A o \in OperationIDs : state.subs[o].finished /\ HasCallback(state.subs[o]) => o \in S
FinishedWereTold(state) == FinishedIn(state, told)

DInv == /\ AInv /\ lateWrites = {} /\ OneAhead(mem, stored)
        /\ ObservedInMemory /\ ToldInMemory
        /\ FinishedWereTold(mem) /\ FinishedWereTold(stored)

(* What a step of the ledger leaves of a known operation. *)
LEMMA AheadKeeps ==
  ASSUME NEW a, NEW b, OneAhead(a, b), NEW o \in OperationIDs,
         a.subs[o].status # "not_found"
  PROVE  /\ b.subs[o].scenario = a.subs[o].scenario
         /\ \/ b.subs[o].status = a.subs[o].status
            \/ a.subs[o].status = "processing" /\ b.subs[o].status = "accepted"
<1>1. /\ LedgerOf(a)[o] = [status |-> a.subs[o].status, scenario |-> a.subs[o].scenario]
      /\ LedgerOf(b)[o] = [status |-> b.subs[o].status, scenario |-> b.subs[o].scenario]
      /\ LedgerOf(a) = [p \in OperationIDs |-> LedgerOf(a)[p]]
  BY DEF LedgerOf
<1>2. CASE LedgerOf(b) = LedgerOf(a)
  BY <1>1, <1>2
<1>3. ASSUME NEW p \in OperationIDs, a.subs[p].status = "not_found",
             NEW s, LedgerOf(b) = [LedgerOf(a) EXCEPT ![p] = First(s)]
      PROVE  LedgerOf(b)[o] = LedgerOf(a)[o]
  BY <1>1, <1>3
<1>4. ASSUME NEW p \in OperationIDs, a.subs[p].status = "processing",
             LedgerOf(b) = [LedgerOf(a) EXCEPT ![p] =
                              [status |-> "accepted", scenario |-> a.subs[p].scenario]]
      PROVE  \/ LedgerOf(b)[o] = LedgerOf(a)[o]
             \/ /\ a.subs[o].status = "processing"
                /\ LedgerOf(b)[o] = [status |-> "accepted", scenario |-> a.subs[o].scenario]
  BY <1>1, <1>4
<1>5. \/ LedgerOf(b)[o] = LedgerOf(a)[o]
      \/ /\ a.subs[o].status = "processing"
         /\ LedgerOf(b)[o] = [status |-> "accepted", scenario |-> a.subs[o].scenario]
  BY <1>2, <1>3, <1>4 DEF OneAhead
<1>. QED BY <1>1, <1>5

LEMMA Reflexive == ASSUME NEW a PROVE OneAhead(a, a)
BY DEF OneAhead

(* The provider contract allows each of these steps. *)
LEMMA AheadIsProviderStep ==
  ASSUME OneAhead(mem, mem')
  PROVE  [Provider!ProviderNext]_(LedgerOf(mem))
<1>1. LedgerOf(mem)' = LedgerOf(mem')
  BY DEF LedgerOf
<1>2. \A o \in OperationIDs :
        LedgerOf(mem)[o] = [status |-> mem.subs[o].status, scenario |-> mem.subs[o].scenario]
  BY DEF LedgerOf
<1>3. ASSUME NEW o \in OperationIDs, mem.subs[o].status = "not_found",
             NEW s \in Scenarios \ {"rate_limit_exhausted"},
             LedgerOf(mem)' = [LedgerOf(mem) EXCEPT ![o] = First(s)]
      PROVE  Provider!ProviderNext
  <2>1. ~Provider!Known(o)
    BY <1>2, <1>3 DEF Provider!Known
  <2>2. CASE s = "reject"
    <3>1. Provider!SubmitRejected(o, s, "rejected")
      BY <1>3, <2>1, <2>2 DEF Provider!SubmitRejected, Provider!Record, LedgerOf, First
    <3>. QED BY <3>1 DEF Provider!ProviderNext, Provider!Submit, OperationIDs,
                Provider!OperationIDs, ProviderOperationID, Provider!ProviderOperationID
  <2>3. CASE s # "reject"
    <3>1. Provider!SubmitRecorded(o, s, "accepted")
      BY <1>3, <2>1, <2>3 DEF Provider!SubmitRecorded, Provider!Record, LedgerOf, First
    <3>. QED BY <3>1 DEF Provider!ProviderNext, Provider!Submit, OperationIDs,
                Provider!OperationIDs, ProviderOperationID, Provider!ProviderOperationID
  <2>. QED BY <2>2, <2>3
<1>4. ASSUME NEW o \in OperationIDs, mem.subs[o].status = "processing",
             LedgerOf(mem)' = [LedgerOf(mem) EXCEPT ![o] =
                              [status |-> "accepted", scenario |-> mem.subs[o].scenario]]
      PROVE  Provider!ProviderNext
  <2>1. LedgerOf(mem)' = [LedgerOf(mem) EXCEPT ![o].status = "accepted"]
    <3>1. [LedgerOf(mem)[o] EXCEPT !.status = "accepted"]
            = [status |-> "accepted", scenario |-> mem.subs[o].scenario]
      <4>. DEFINE r == [status |-> mem.subs[o].status, scenario |-> mem.subs[o].scenario]
      <4>1. [r EXCEPT !.status = "accepted"]
              = [status |-> "accepted", scenario |-> mem.subs[o].scenario]
        OBVIOUS
      <4>. HIDE DEF r
      <4>2. LedgerOf(mem)[o] = r
        BY <1>2 DEF r
      <4>. QED BY <4>1, <4>2
    <3>2. LedgerOf(mem)' = [LedgerOf(mem) EXCEPT ![o] =
                              [LedgerOf(mem)[o] EXCEPT !.status = "accepted"]]
      BY <1>4, <3>1
    <3>. QED BY <3>2
  <2>2. Provider!Complete(o)
    BY <1>2, <1>4, <2>1 DEF Provider!Complete, LedgerOf
  <2>. QED BY <2>2 DEF Provider!ProviderNext, OperationIDs,
              Provider!OperationIDs, ProviderOperationID, Provider!ProviderOperationID
<1>. QED BY <1>1, <1>3, <1>4 DEF OneAhead

(* A write of a state that is at most one step ahead. *)
LEMMA WriteDurable ==
  ASSUME DInv, MaxLateWrites = 0, AInv', NEW next, Writes(next), OneAhead(mem, next),
         told \subseteq told', FinishedIn(next, told'),
         \A o \in told' \ told : HasCallback(mem.subs[o]),
         \A o \in OperationIDs, status \in Statuses :
           <<o, status>> \in observed' \ observed => Outlives(status, mem'.subs[o].status)
  PROVE  DInv' /\ [Provider!ProviderNext]_(LedgerOf(mem))
<1>1. /\ lateWrites' = {} /\ mem' \in {mem, next} /\ stored' \in {stored, next}
      /\ mem' = mem \/ (mem' = next /\ stored' = next)
  <2>1. late = 0
    BY DEF DInv, AInv, HistoryTyped
  <2>. QED BY <2>1 DEF DInv, Writes, Saved, NotSaved
<1>2. OneAhead(mem, mem')
  BY <1>1, Reflexive
<1>3. OneAhead(mem', stored')
  BY <1>1, Reflexive DEF DInv
<1>4. \A o \in OperationIDs : mem.subs[o].status # "not_found" =>
        /\ mem'.subs[o].scenario = mem.subs[o].scenario
        /\ \/ mem'.subs[o].status = mem.subs[o].status
           \/ mem.subs[o].status = "processing" /\ mem'.subs[o].status = "accepted"
  BY <1>2, AheadKeeps
<1>5. ObservedInMemory'
  <2>. SUFFICES ASSUME NEW o \in OperationIDs, NEW status \in Statuses,
                       <<o, status>> \in observed
                PROVE  Outlives(status, mem'.subs[o].status)
    BY DEF ObservedInMemory
  <2>1. Outlives(status, mem.subs[o].status) /\ status # "not_found"
    BY DEF DInv, ObservedInMemory, AInv, HistoryTyped
  <2>2. mem.subs[o].status # "not_found"
    BY <2>1 DEF Outlives, FinalStates
  <2>. QED BY <1>4, <2>1, <2>2 DEF Outlives, FinalStates
<1>6. ToldInMemory'
  <2>. SUFFICES ASSUME NEW o \in told' PROVE HasCallback(mem'.subs[o])
    BY DEF ToldInMemory
  <2>1. HasCallback(mem.subs[o]) /\ o \in OperationIDs
    BY DEF DInv, ToldInMemory, AInv, HistoryTyped
  <2>. QED BY <1>4, <2>1 DEF HasCallback
<1>7. FinishedWereTold(mem)' /\ FinishedWereTold(stored)'
  BY <1>1 DEF DInv, FinishedWereTold, FinishedIn, HasCallback
<1>. QED BY <1>1, <1>2, <1>3, <1>5, <1>6, <1>7, AheadIsProviderStep DEF DInv

(* A step that writes nothing. *)
LEMMA QuietDurable ==
  ASSUME DInv, AInv', UNCHANGED <<mem, stored, lateWrites>>, told \subseteq told',
         \A o \in told' \ told : HasCallback(mem.subs[o]),
         \A o \in OperationIDs, status \in Statuses :
           <<o, status>> \in observed' \ observed => Outlives(status, mem.subs[o].status)
  PROVE  DInv' /\ [Provider!ProviderNext]_(LedgerOf(mem))
<1>1. LedgerOf(mem)' = LedgerOf(mem)
  BY DEF LedgerOf
<1>2. OneAhead(mem, stored)'
  <2>1. OneAhead(mem, stored)
    BY DEF DInv
  <2>2. mem' = mem /\ stored' = stored
    OBVIOUS
  <2>. QED BY <2>1, <2>2
<1>3. ObservedInMemory' /\ ToldInMemory'
  BY DEF DInv, ObservedInMemory, ToldInMemory
<1>4. FinishedWereTold(mem)' /\ FinishedWereTold(stored)'
  BY DEF DInv, FinishedWereTold, FinishedIn
<1>. QED BY <1>1, <1>2, <1>3, <1>4 DEF DInv

LEMMA SameLedger ==
  ASSUME NEW a, NEW b, \A o \in OperationIDs : /\ b.subs[o].status = a.subs[o].status
                                             /\ b.subs[o].scenario = a.subs[o].scenario
  PROVE  OneAhead(a, b)
BY DEF OneAhead, LedgerOf

LEMMA SubmitDurable ==
  ASSUME DInv, MaxLateWrites = 0, AInv', NEW o \in OperationIDs, NEW s \in Scenarios,
         SubmitKnown(o, s) \/ SubmitExhausted(o) \/ SubmitThrottled(o, s)
  PROVE  DInv' /\ [Provider!ProviderNext]_(LedgerOf(mem))
<1>1. PICK next : /\ Writes(next) /\ next.subs = mem.subs /\ told' = told
                  /\ observed' = observed \/ (Recorded(o) /\ mem' = mem /\ Tell(o, statusFromOutcome(o)))
  <2>1. CASE SubmitKnown(o, s)
    BY <2>1 DEF SubmitKnown, Writes, workVars, Saved
  <2>2. CASE SubmitExhausted(o)
    BY <2>2 DEF SubmitExhausted, Writes, workVars
  <2>3. CASE SubmitThrottled(o, s)
    <3>1. Counted(o, s).subs = mem.subs
      BY DEF Counted, DInv, AInv, StatesSound, Sound
    <3>. QED BY <2>3, <3>1 DEF SubmitThrottled, Writes, workVars
  <2>. QED BY <2>1, <2>2, <2>3
<1>2. OneAhead(mem, next)
  BY <1>1, SameLedger
<1>3. FinishedIn(next, told')
  BY <1>1 DEF DInv, FinishedWereTold, FinishedIn, HasCallback
<1>4. ASSUME NEW p \in OperationIDs, NEW status \in Statuses,
             <<p, status>> \in observed' \ observed
      PROVE  Outlives(status, mem'.subs[p].status)
  <2>1. p = o /\ status = statusFromOutcome(o) /\ mem' = mem /\ Recorded(o)
    BY <1>1, <1>4 DEF Tell
  <2>2. mem.subs[o].status \in {"processing", "accepted", "rejected"}
    BY <2>1, SubmissionFacts DEF DInv, Recorded, Statuses, FinalStates
  <2>. QED BY <2>1, <2>2 DEF statusFromOutcome, Outlives, FinalStates
<1>. QED BY <1>1, <1>2, <1>3, <1>4, WriteDurable

LEMMA RecordDurable ==
  ASSUME DInv, MaxLateWrites = 0, AInv', NEW o \in OperationIDs, NEW s \in Scenarios,
         SubmitRecorded(o, s)
  PROVE  DInv' /\ [Provider!ProviderNext]_(LedgerOf(mem))
<1>. DEFINE next == recordLocked(o, s)
            sub == [status |-> IF s = "reject" THEN "rejected" ELSE "processing",
                    scenario |-> s, finished |-> s = "reject"]
<1>0. Sound(mem) /\ ~Recorded(o)
  BY DEF SubmitRecorded, DInv, AInv, StatesSound
<1>1. next.subs = [mem.subs EXCEPT ![o] = sub]
  BY <1>0, RecordedSound
<1>2. /\ sub.status = IF s = "reject" THEN "rejected" ELSE "processing"
      /\ sub.scenario = s
  OBVIOUS
<1>. HIDE DEF next, sub
<1>3. next.subs[o] = sub /\ \A p \in OperationIDs \ {o} : next.subs[p] = mem.subs[p]
  BY <1>0, <1>1 DEF Sound
<1>4. LedgerOf(next) = [LedgerOf(mem) EXCEPT ![o] = First(s)]
  BY <1>2, <1>3 DEF LedgerOf, First
<1>5. OneAhead(mem, next)
  BY <1>0, <1>4 DEF OneAhead, SubmitRecorded, Recorded
<1>6. Writes(next) /\ told' = told
  BY DEF SubmitRecorded, Writes, next
<1>7. FinishedIn(next, told')
  BY <1>2, <1>3, <1>6 DEF DInv, FinishedWereTold, FinishedIn, HasCallback
<1>8. ASSUME NEW p \in OperationIDs, NEW status \in Statuses,
             <<p, status>> \in observed' \ observed
      PROVE  Outlives(status, mem'.subs[p].status)
  <2>1. /\ p = o /\ status = (IF s = "reject" THEN "rejected" ELSE "processing")
        /\ mem' = next
    BY <1>8 DEF SubmitRecorded, Tell, Saved, next
  <2>. QED BY <1>2, <1>3, <2>1 DEF Outlives
<1>. QED BY <1>5, <1>6, <1>7, <1>8, WriteDurable

LEMMA CompleteDurable ==
  ASSUME DInv, MaxLateWrites = 0, AInv', NEW o \in OperationIDs, Complete(o)
  PROVE  DInv' /\ [Provider!ProviderNext]_(LedgerOf(mem))
<1>. DEFINE next == Completed(o)
            sub == [mem.subs[o] EXCEPT !.status = "accepted"]
<1>0. /\ Sound(mem) /\ mem.subs[o].status = "processing" /\ mem.subs[o] \in Submissions
      /\ ~mem.subs[o].finished
  BY SubmissionFacts DEF Complete, DInv, Sound
<1>1. next.subs = [mem.subs EXCEPT ![o] = sub]
  BY <1>0, CompletedSound
<1>2. sub.status = "accepted" /\ sub.scenario = mem.subs[o].scenario /\ ~sub.finished
  BY <1>0 DEF Submissions
<1>. HIDE DEF next, sub
<1>3. next.subs[o] = sub /\ \A p \in OperationIDs \ {o} : next.subs[p] = mem.subs[p]
  BY <1>0, <1>1 DEF Sound
<1>4. LedgerOf(next) = [LedgerOf(mem) EXCEPT ![o] =
                          [status |-> "accepted", scenario |-> mem.subs[o].scenario]]
  BY <1>2, <1>3 DEF LedgerOf
<1>5. OneAhead(mem, next)
  BY <1>0, <1>4 DEF OneAhead
<1>6. Writes(next) /\ told' = told /\ observed' = observed
  BY DEF Complete, Writes, next
<1>7. FinishedIn(next, told')
  BY <1>2, <1>3, <1>6 DEF DInv, FinishedWereTold, FinishedIn
<1>. QED BY <1>5, <1>6, <1>7, WriteDurable

(* A goroutine that still calls has something to call about. *)
LEMMA CallingHasCallback ==
  ASSUME AInv, NEW o \in OperationIDs, work[o].phase = "call", work[o].left > 0
  PROVE  HasCallback(mem.subs[o])
<1>1. /\ mem.subs[o].status = "accepted" /\ mem.subs[o].scenario \in Scenarios
      /\ work[o].left <= Sends[mem.subs[o].scenario] /\ work[o] \in Phases
  BY SubmissionFacts DEF AInv, WorkFits
<1>2. Sends[mem.subs[o].scenario] # 0
  BY <1>1, SendsTyped DEF Phases
<1>. QED BY <1>1, <1>2, SendsTyped DEF HasCallback

LEMMA TakenDurable ==
  ASSUME DInv, MaxLateWrites = 0, AInv', NEW o \in OperationIDs, CallbackTaken(o)
  PROVE  DInv' /\ [Provider!ProviderNext]_(LedgerOf(mem))
<1>1. Writes(mem) /\ mem' = mem /\ told' = told \cup {o} /\ Tell(o, "accepted")
  BY DEF CallbackTaken, Writes, Saved, NotSaved
<1>2. HasCallback(mem.subs[o])
  BY CallingHasCallback DEF CallbackTaken, DInv
<1>3. FinishedIn(mem, told')
  BY <1>1 DEF DInv, FinishedWereTold, FinishedIn
<1>4. ASSUME NEW p \in OperationIDs, NEW status \in Statuses,
             <<p, status>> \in observed' \ observed
      PROVE  Outlives(status, mem'.subs[p].status)
  BY <1>1, <1>2, <1>4 DEF Tell, Outlives, HasCallback
<1>. QED BY <1>1, <1>2, <1>3, <1>4, WriteDurable, Reflexive

LEMMA FinishDurable ==
  ASSUME DInv, MaxLateWrites = 0, AInv', NEW o \in OperationIDs, Finish(o)
  PROVE  DInv' /\ [Provider!ProviderNext]_(LedgerOf(mem))
<1>. DEFINE next == Finished(o)
            sub == [mem.subs[o] EXCEPT !.finished = TRUE]
<1>0. /\ Sound(mem) /\ mem.subs[o].status = "accepted" /\ mem.subs[o] \in Submissions
      /\ mem.subs[o].scenario \in Scenarios
  BY SubmissionFacts DEF Finish, DInv, AInv, WorkFits
<1>1. next.subs = [mem.subs EXCEPT ![o] = sub]
  BY <1>0, FinishedSound
<1>2. sub.status = "accepted" /\ sub.scenario = mem.subs[o].scenario
  BY <1>0 DEF Submissions
<1>. HIDE DEF next, sub
<1>3. next.subs[o] = sub /\ \A p \in OperationIDs \ {o} : next.subs[p] = mem.subs[p]
  BY <1>0, <1>1 DEF Sound
<1>4. OneAhead(mem, next)
  BY <1>0, <1>2, <1>3, SameLedger
<1>5. told' = told /\ observed' = observed
  BY DEF Finish
<1>6. CASE work[o].ok /\ Writes(next)
  <2>1. HasCallback(mem.subs[o]) => o \in told
    <3>1. work[o].phase = "call" /\ work[o].left = 0
      BY DEF Finish
    <3>2. HasCallback(mem.subs[o]) => Sends[mem.subs[o].scenario] \in 1..3
      BY <1>0, SendsTyped DEF HasCallback
    <3>. QED BY <1>6, <3>1, <3>2 DEF DInv, AInv, WorkFits
  <2>2. FinishedIn(next, told')
    <3>. SUFFICES ASSUME NEW p \in OperationIDs, next.subs[p].finished,
                         HasCallback(next.subs[p])
                  PROVE  p \in told
      BY <1>5 DEF FinishedIn
    <3>1. CASE p = o
      BY <1>0, <1>2, <1>3, <2>1, <3>1 DEF HasCallback
    <3>2. CASE p # o
      BY <1>3, <3>2 DEF DInv, FinishedWereTold, FinishedIn
    <3>. QED BY <3>1, <3>2
  <2>. QED BY <1>4, <1>5, <1>6, <2>2, WriteDurable
<1>7. CASE UNCHANGED <<mem, stored, lateWrites>>
  BY <1>5, <1>7, QuietDurable
<1>. QED BY <1>6, <1>7 DEF Finish, Writes, next

LEMMA RestartDurable ==
  ASSUME DInv, AInv', Restart
  PROVE  DInv' /\ [Provider!ProviderNext]_(LedgerOf(mem))
<1>1. /\ mem' = stored /\ stored' = stored /\ lateWrites' = lateWrites
      /\ observed' = observed /\ told' = told
  BY DEF Restart
<1>2. \A o \in OperationIDs : mem.subs[o].status # "not_found" =>
        /\ stored.subs[o].scenario = mem.subs[o].scenario
        /\ \/ stored.subs[o].status = mem.subs[o].status
           \/ mem.subs[o].status = "processing" /\ stored.subs[o].status = "accepted"
  BY AheadKeeps DEF DInv
<1>3. ObservedInMemory'
  <2>. SUFFICES ASSUME NEW o \in OperationIDs, NEW status \in Statuses,
                       <<o, status>> \in observed
                PROVE  Outlives(status, stored.subs[o].status)
    BY <1>1 DEF ObservedInMemory
  <2>1. Outlives(status, mem.subs[o].status) /\ status # "not_found"
    BY DEF DInv, ObservedInMemory, AInv, HistoryTyped
  <2>2. mem.subs[o].status # "not_found"
    BY <2>1 DEF Outlives, FinalStates
  <2>. QED BY <1>2, <2>1, <2>2 DEF Outlives, FinalStates
<1>4. ToldInMemory'
  <2>. SUFFICES ASSUME NEW o \in told PROVE HasCallback(stored.subs[o])
    BY <1>1 DEF ToldInMemory
  <2>1. HasCallback(mem.subs[o]) /\ o \in OperationIDs
    BY DEF DInv, ToldInMemory, AInv, HistoryTyped
  <2>. QED BY <1>2, <2>1 DEF HasCallback
<1>5. FinishedWereTold(mem)' /\ FinishedWereTold(stored)'
  BY <1>1 DEF DInv, FinishedWereTold, FinishedIn, HasCallback
<1>6. OneAhead(mem, mem') /\ OneAhead(mem, stored)'
  BY <1>1, Reflexive DEF DInv
<1>. QED BY <1>1, <1>3, <1>4, <1>5, <1>6, AheadIsProviderStep DEF DInv

LEMMA StepKeepsDInv ==
  ASSUME DInv, MaxLateWrites = 0, [Next]_vars
  PROVE  DInv' /\ [Provider!ProviderNext]_(LedgerOf(mem))
<1>0. AInv'
  BY StepKeepsAInv DEF DInv
<1>1. ASSUME NEW o \in OperationIDs, HandleStatus(o)
      PROVE  DInv' /\ [Provider!ProviderNext]_(LedgerOf(mem))
  <2>1. \A p \in OperationIDs, status \in Statuses :
          <<p, status>> \in observed' \ observed => Outlives(status, mem.subs[p].status)
    BY <1>1 DEF HandleStatus, Tell, Outlives
  <2>. QED BY <1>0, <1>1, <2>1, QuietDurable DEF HandleStatus, workVars
<1>2. ASSUME NEW o \in OperationIDs, ResumeCallback(o)
      PROVE  DInv' /\ [Provider!ProviderNext]_(LedgerOf(mem))
  BY <1>0, <1>2, QuietDurable DEF ResumeCallback
<1>3. ASSUME NEW o \in OperationIDs, CallbackGaveUp(o)
      PROVE  DInv' /\ [Provider!ProviderNext]_(LedgerOf(mem))
  <2>1. HasCallback(mem.subs[o])
    BY <1>3, CallingHasCallback DEF CallbackGaveUp, DInv
  <2>2. \A p \in OperationIDs, status \in Statuses :
          <<p, status>> \in observed' \ observed => Outlives(status, mem.subs[p].status)
    BY <1>3, <2>1 DEF CallbackGaveUp, Tell, Outlives, HasCallback
  <2>3. told \subseteq told' /\ \A p \in told' \ told : HasCallback(mem.subs[p])
    BY <1>3, <2>1 DEF CallbackGaveUp
  <2>. QED BY <1>0, <1>3, <2>2, <2>3, QuietDurable DEF CallbackGaveUp
<1>4. CASE UNCHANGED vars
  BY <1>0, <1>4, QuietDurable DEF vars
<1>5. CASE LateWrite
  BY <1>5 DEF LateWrite, DInv
<1>6. ASSUME NEW o \in OperationIDs, Goroutine(o)
      PROVE  DInv' /\ [Provider!ProviderNext]_(LedgerOf(mem))
  BY <1>0, <1>2, <1>3, <1>6, CompleteDurable, TakenDurable, FinishDurable DEF Goroutine
<1>. QED
  BY <1>0, <1>1, <1>4, <1>5, <1>6, SubmitDurable, RecordDurable, RestartDurable DEF Next

LEMMA DInvHolds ==
  ASSUME MaxLateWrites = 0
  PROVE  Spec => []DInv
<1>1. Init => DInv
  <2>. SUFFICES ASSUME Init PROVE DInv
    OBVIOUS
  <2>1. mem = stored /\ lateWrites = {} /\ observed = {} /\ told = {}
    BY DEF Init
  <2>2. \A o \in OperationIDs : mem.subs[o] = NoSubmission
    BY DEF Init, EmptyState
  <2>3. FinishedWereTold(mem) /\ FinishedWereTold(stored)
    BY <2>1, <2>2 DEF FinishedWereTold, FinishedIn, HasCallback, NoSubmission
  <2>. QED BY AInvInit, Reflexive, <2>1, <2>3 DEF DInv, ObservedInMemory, ToldInMemory
<1>2. DInv /\ [Next]_vars => DInv'
  BY StepKeepsDInv
<1>. QED BY <1>1, <1>2, PTL DEF Spec

(* Whatever a caller was ever told is in the row, in every state and so at  *)
(* every restart (server.go:366), when no failed write is committed late.   *)
THEOREM ToldIsDurable ==
  ASSUME MaxLateWrites = 0
  PROVE  Spec => []ObservedIsDurable
<1>1. DInv => ObservedIsDurable
  <2>. SUFFICES ASSUME DInv, NEW o \in OperationIDs, NEW status \in Statuses,
                       <<o, status>> \in observed
                PROVE  Outlives(status, stored.subs[o].status)
    BY DEF ObservedIsDurable, Outlives
  <2>1. Outlives(status, mem.subs[o].status) /\ status # "not_found"
    BY DEF DInv, ObservedInMemory, AInv, HistoryTyped
  <2>2. mem.subs[o].status # "not_found"
    BY <2>1 DEF Outlives, FinalStates
  <2>. QED BY <2>1, <2>2, AheadKeeps DEF DInv, Outlives, FinalStates
<1>. QED BY <1>1, DInvHolds, PTL

(* A callback reached a worker only for a durably accepted operation that   *)
(* has one, and an operation is finished only after its callback did.       *)
THEOREM CallbacksTellTheTruth ==
  ASSUME MaxLateWrites = 0
  PROVE  Spec => []CallbacksAreTruthful
<1>1. DInv => CallbacksAreTruthful
  <2>. SUFFICES ASSUME DInv PROVE CallbacksAreTruthful
    OBVIOUS
  <2>1. ASSUME NEW o \in told PROVE HasCallback(stored.subs[o])
    <3>1. HasCallback(mem.subs[o]) /\ o \in OperationIDs
      BY DEF DInv, ToldInMemory, AInv, HistoryTyped
    <3>. QED BY <3>1, AheadKeeps DEF DInv, HasCallback
  <2>. QED BY <2>1 DEF CallbacksAreTruthful, HasCallback, DInv, FinishedWereTold, FinishedIn
<1>. QED BY <1>1, DInvHolds, PTL

(* The authority implements the ledger the filing workflow relies on: every *)
(* step of the server, restarts and failed writes included, is a step of    *)
(* the provider contract or invisible to it.                                *)
THEOREM AuthorityImplementsProvider ==
  ASSUME MaxLateWrites = 0
  PROVE  Spec => ImplementsProvider
<1>1. Init => Provider!ProviderInit
  <2>. SUFFICES ASSUME Init PROVE Provider!ProviderInit
    OBVIOUS
  <2>1. \A o \in OperationIDs : mem.subs[o] = NoSubmission
    BY DEF Init, EmptyState
  <2>2. \A o \in OperationIDs :
          [status |-> mem.subs[o].status, scenario |-> mem.subs[o].scenario] = Provider!NoEntry
    BY <2>1 DEF NoSubmission, Provider!NoEntry
  <2>3. Provider!OperationIDs = OperationIDs
    BY DEF Provider!OperationIDs, OperationIDs, Provider!ProviderOperationID, ProviderOperationID
  <2>. QED BY <2>2, <2>3 DEF Provider!ProviderInit
<1>2. DInv /\ [Next]_vars =>
        [Provider!ProviderNext]_([o \in OperationIDs |->
           [status |-> mem.subs[o].status, scenario |-> mem.subs[o].scenario]])
  BY StepKeepsDInv DEF LedgerOf
<1>. QED
  BY <1>1, <1>2, DInvHolds, PTL DEF Spec, ImplementsProvider, Provider!ProviderSpec
=============================================================================
