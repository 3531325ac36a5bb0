-------------------------- MODULE PatchUpgradeProofs --------------------------
(***************************************************************************)
(* Histories under upgrades and rollbacks, for every set of filings and    *)
(* any number of crashes: the steps of the builds never mix, and v2        *)
(* recovers what v1 recorded.                                              *)
(*                                                                         *)
(* The argument: an execution that has taken n steps agrees with the       *)
(* history on these n, so what it appends at the end continues its own     *)
(* program; and the patch is only switched on before the history has two   *)
(* steps, or where the marker is the second.                               *)
(***************************************************************************)
EXTENDS PatchUpgrade, TLAPS

(* What a program begins with, up to and with the patch, and what it ends   *)
(* with.                                                                    *)
Opening(patched) ==
  <<"validate">> \o IF patched = "yes" THEN <<Marker, "riskPrecheck">> ELSE <<>>
Ending == <<"findExisting", "submit", "record">>

LEMMA Parts ==
  /\ <<"validate">> \in Seq(StepNames) /\ <<Marker, "riskPrecheck">> \in Seq(StepNames)
  /\ <<"prepare">> \in Seq(StepNames) /\ Ending \in Seq(StepNames)
  /\ <<>> \in Seq(StepNames)
BY DEF StepNames, Ending

LEMMA OpeningShape ==
  ASSUME NEW patched \in {"yes", "no"}
  PROVE  /\ Opening(patched) \in Seq(StepNames)
         /\ Opening(patched)[1] = "validate"
         /\ IF patched = "yes" THEN /\ Len(Opening(patched)) = 3
                            /\ Opening(patched)[2] = Marker
                            /\ Opening(patched)[3] = "riskPrecheck"
                       ELSE Len(Opening(patched)) = 1
<1>1. CASE patched = "yes"
  BY <1>1, Parts DEF Opening
<1>2. CASE patched # "yes"
  BY <1>2, Parts DEF Opening
<1>. QED BY <1>1, <1>2

LEMMA EndingPrepared ==
  ASSUME NEW s \in Seq(StepNames), NEW t, t = s \o <<"prepare">> \o Ending
  PROVE  /\ t \in Seq(StepNames) /\ Len(t) = Len(s) + 4
         /\ \A i \in 1..Len(s) : t[i] = s[i]
         /\ t[Len(s) + 1] = "prepare" /\ t[Len(s) + 2] = "findExisting"
         /\ t[Len(s) + 3] = "submit" /\ t[Len(s) + 4] = "record"
BY Parts DEF Ending

LEMMA EndingAlone ==
  ASSUME NEW s \in Seq(StepNames), NEW t, t = s \o <<>> \o Ending
  PROVE  /\ t \in Seq(StepNames) /\ Len(t) = Len(s) + 3
         /\ \A i \in 1..Len(s) : t[i] = s[i]
         /\ t[Len(s) + 1] = "findExisting" /\ t[Len(s) + 2] = "submit"
         /\ t[Len(s) + 3] = "record"
BY Parts DEF Ending

(* What the proofs need to know of a program. *)
LEMMA ProgramShape ==
  ASSUME NEW state \in FilingStates, NEW patched \in {"yes", "no"},
         NEW t, t = Program(state, patched)
  PROVE  /\ t \in Seq(StepNames) /\ Len(t) \in 1..7
         /\ t[1] = "validate"
         /\ state \in FinalStates => Len(t) = 1
         /\ state \notin FinalStates =>
              /\ Len(t) >= 4 /\ (t[2] = Marker <=> patched = "yes")
              /\ patched = "yes" => t[3] = "riskPrecheck"
         /\ \A i \in 1..Len(t) :
              /\ t[i] = Marker => i = 2
              /\ t[i] = "submit" =>
                   /\ i >= 3 /\ (patched = "yes" => i >= 4)
                   /\ state = "ready" => \E j \in 1..(i - 1) : t[j] = "prepare"
<1>1. CASE state \in FinalStates
  <2>1. t = <<"validate">>
    BY <1>1 DEF Program
  <2>. QED BY <1>1, <2>1 DEF StepNames, Marker
<1>2. CASE state \notin FinalStates
  <2>1. t = Opening(patched) \o (IF state = "ready" THEN <<"prepare">> ELSE <<>>) \o Ending
    BY <1>2 DEF Program, Opening, Ending
  <2>2. PICK s \in Seq(StepNames) :
          /\ s = Opening(patched)
          /\ s[1] = "validate"
          /\ IF patched = "yes" THEN Len(s) = 3 /\ s[2] = Marker /\ s[3] = "riskPrecheck"
                        ELSE Len(s) = 1
    BY OpeningShape
  <2>3. t = s \o (IF state = "ready" THEN <<"prepare">> ELSE <<>>) \o Ending
    BY <2>1, <2>2
  <2>4. CASE state = "ready" /\ patched = "yes"
    <3>1. /\ t \in Seq(StepNames) /\ Len(t) = Len(s) + 4
          /\ \A i \in 1..Len(s) : t[i] = s[i]
          /\ t[Len(s) + 1] = "prepare" /\ t[Len(s) + 2] = "findExisting"
          /\ t[Len(s) + 3] = "submit" /\ t[Len(s) + 4] = "record"
      <4>1. t = s \o <<"prepare">> \o Ending
        BY <2>4, <2>3
      <4>. QED BY <4>1, EndingPrepared
    <3>2. Len(s) = 3 /\ s[1] = "validate" /\ s[2] = Marker /\ s[3] = "riskPrecheck"
      BY <2>4, <2>2
    <3>3. /\ Len(t) = 7
          /\ t[1] = "validate" /\ t[2] = Marker /\ t[3] = "riskPrecheck"
          /\ t[4] = "prepare" /\ t[5] = "findExisting" /\ t[6] = "submit"
          /\ t[7] = "record"
      BY <3>1, <3>2
    <3>4. ASSUME NEW i \in 1..7
          PROVE  i = 1 \/ i = 2 \/ i = 3 \/ i = 4 \/ i = 5 \/ i = 6 \/ i = 7
      OBVIOUS
    <3>5. ASSUME NEW i \in 1..7
          PROVE  /\ t[i] = Marker => i = 2
                 /\ t[i] = "submit" => i = 6
      BY <3>3, <3>4 DEF Marker
    <3>6. ASSUME NEW i \in 1..Len(t)
          PROVE  /\ t[i] = Marker => i = 2
                 /\ t[i] = "submit" =>
                      /\ i >= 3 /\ (patched = "yes" => i >= 4)
                      /\ state = "ready" => \E j \in 1..(i - 1) : t[j] = "prepare"
      <4>1. i \in 1..7
        BY <3>3
      <4>2. (t[i] = Marker => i = 2) /\ (t[i] = "submit" => i = 6)
        BY <4>1, <3>5
      <4>3. i = 6 => i >= 3 /\ i >= 4 /\ (state = "ready" => 4 \in 1..(i - 1))
        BY <2>4
      <4>. QED BY <2>4, <3>3, <4>2, <4>3
    <3>7. Len(t) >= 4 /\ Len(t) \in 1..7
      BY <3>3
    <3>. QED BY <1>2, <2>4, <3>1, <3>3, <3>6, <3>7
  <2>5. CASE state = "ready" /\ patched # "yes"
    <3>1. /\ t \in Seq(StepNames) /\ Len(t) = Len(s) + 4
          /\ \A i \in 1..Len(s) : t[i] = s[i]
          /\ t[Len(s) + 1] = "prepare" /\ t[Len(s) + 2] = "findExisting"
          /\ t[Len(s) + 3] = "submit" /\ t[Len(s) + 4] = "record"
      <4>1. t = s \o <<"prepare">> \o Ending
        BY <2>5, <2>3
      <4>. QED BY <4>1, EndingPrepared
    <3>2. Len(s) = 1 /\ s[1] = "validate"
      BY <2>5, <2>2
    <3>3. /\ Len(t) = 5
          /\ t[1] = "validate" /\ t[2] = "prepare" /\ t[3] = "findExisting"
          /\ t[4] = "submit" /\ t[5] = "record"
      BY <3>1, <3>2
    <3>4. ASSUME NEW i \in 1..5
          PROVE  i = 1 \/ i = 2 \/ i = 3 \/ i = 4 \/ i = 5
      OBVIOUS
    <3>5. ASSUME NEW i \in 1..5
          PROVE  /\ t[i] = Marker => i = 2
                 /\ t[i] = "submit" => i = 4
      BY <3>3, <3>4 DEF Marker
    <3>6. ASSUME NEW i \in 1..Len(t)
          PROVE  /\ t[i] = Marker => i = 2
                 /\ t[i] = "submit" =>
                      /\ i >= 3 /\ (patched = "yes" => i >= 4)
                      /\ state = "ready" => \E j \in 1..(i - 1) : t[j] = "prepare"
      <4>1. (t[i] = Marker => i = 2) /\ (t[i] = "submit" => i = 4)
        BY <3>3, <3>5
      <4>2. i = 4 => i >= 3 /\ 2 \in 1..(i - 1)
        OBVIOUS
      <4>. QED BY <2>5, <3>3, <4>1, <4>2
    <3>7. Len(t) >= 4 /\ Len(t) \in 1..7 /\ t[2] # Marker
      BY <3>3 DEF Marker
    <3>. QED BY <1>2, <2>5, <3>1, <3>3, <3>6, <3>7
  <2>6. CASE state # "ready" /\ patched = "yes"
    <3>1. /\ t \in Seq(StepNames) /\ Len(t) = Len(s) + 3
          /\ \A i \in 1..Len(s) : t[i] = s[i]
          /\ t[Len(s) + 1] = "findExisting" /\ t[Len(s) + 2] = "submit"
          /\ t[Len(s) + 3] = "record"
      <4>1. t = s \o <<>> \o Ending
        BY <2>6, <2>3
      <4>. QED BY <4>1, EndingAlone
    <3>2. Len(s) = 3 /\ s[1] = "validate" /\ s[2] = Marker /\ s[3] = "riskPrecheck"
      BY <2>6, <2>2
    <3>3. /\ Len(t) = 6
          /\ t[1] = "validate" /\ t[2] = Marker /\ t[3] = "riskPrecheck"
          /\ t[4] = "findExisting" /\ t[5] = "submit" /\ t[6] = "record"
      BY <3>1, <3>2
    <3>4. ASSUME NEW i \in 1..6
          PROVE  i = 1 \/ i = 2 \/ i = 3 \/ i = 4 \/ i = 5 \/ i = 6
      OBVIOUS
    <3>5. ASSUME NEW i \in 1..6
          PROVE  /\ t[i] = Marker => i = 2
                 /\ t[i] = "submit" => i = 5
      BY <3>3, <3>4 DEF Marker
    <3>6. ASSUME NEW i \in 1..Len(t)
          PROVE  /\ t[i] = Marker => i = 2
                 /\ t[i] = "submit" =>
                      /\ i >= 3 /\ (patched = "yes" => i >= 4)
                      /\ state = "ready" => \E j \in 1..(i - 1) : t[j] = "prepare"
      <4>1. i \in 1..6
        BY <3>3
      <4>2. (t[i] = Marker => i = 2) /\ (t[i] = "submit" => i = 5)
        BY <4>1, <3>5
      <4>3. i = 5 => i >= 3 /\ i >= 4 /\ (state = "ready" => 4 \in 1..(i - 1))
        BY <2>6
      <4>. QED BY <2>6, <3>3, <4>2, <4>3
    <3>7. Len(t) >= 4 /\ Len(t) \in 1..7
      BY <3>3
    <3>. QED BY <1>2, <2>6, <3>1, <3>3, <3>6, <3>7
  <2>7. CASE state # "ready" /\ patched # "yes"
    <3>1. /\ t \in Seq(StepNames) /\ Len(t) = Len(s) + 3
          /\ \A i \in 1..Len(s) : t[i] = s[i]
          /\ t[Len(s) + 1] = "findExisting" /\ t[Len(s) + 2] = "submit"
          /\ t[Len(s) + 3] = "record"
      <4>1. t = s \o <<>> \o Ending
        BY <2>7, <2>3
      <4>. QED BY <4>1, EndingAlone
    <3>2. Len(s) = 1 /\ s[1] = "validate"
      BY <2>7, <2>2
    <3>3. /\ Len(t) = 4
          /\ t[1] = "validate" /\ t[2] = "findExisting" /\ t[3] = "submit"
          /\ t[4] = "record"
      BY <3>1, <3>2
    <3>4. ASSUME NEW i \in 1..4
          PROVE  i = 1 \/ i = 2 \/ i = 3 \/ i = 4
      OBVIOUS
    <3>5. ASSUME NEW i \in 1..4
          PROVE  /\ t[i] = Marker => i = 2
                 /\ t[i] = "submit" => i = 3
      BY <3>3, <3>4 DEF Marker
    <3>. QED BY <1>2, <2>7, <3>1, <3>3, <3>5 DEF Marker
  <2>. QED BY <2>4, <2>5, <2>6, <2>7
<1>. QED BY <1>1, <1>2

-----------------------------------------------------------------------------
(* The inductive invariant. *)

Typed ==
  /\ deployed \in Versions
  /\ snap \in [Filings -> FilingStates]
  /\ history \in [Filings -> Seq(StepNames)] /\ authors \in [Filings -> Seq(Versions)]
  /\ exec \in [Filings -> Executions]
  /\ status \in [Filings -> {"ENQUEUED", "PENDING", "SUCCESS", "ERROR"}]
  /\ effects \in [Filings -> SUBSET StepNames]
  /\ rollbacks \in 0..MaxRollbacks /\ crashes \in 0..MaxCrashes

(* An execution agrees with the history on the steps it has taken. *)
Agrees(f) ==
  /\ exec[f].taken <= Len(history[f]) /\ exec[f].taken <= Len(Steps(f))
  /\ \A i \in 1..exec[f].taken : history[f][i] = Steps(f)[i]

(* What an execution has executed belongs at the end of the history.        *)
AtEnd(f) ==
  exec[f].executed =>
    AtStep(f) /\ exec[f].taken = Len(history[f])

ExecShape(f) ==
  /\ exec[f].running => status[f] = "PENDING" /\ exec[f].version = deployed
  /\ ~exec[f].running => exec[f] = NotRunning
  /\ exec[f].patched # "no" => exec[f].version = "v2"
  /\ exec[f].patched = "?" => exec[f].taken <= 1
  /\ exec[f].patched = "yes" => exec[f].taken >= 2 /\ snap[f] \notin FinalStates
  /\ (exec[f].running /\ exec[f].version = "v2" /\ exec[f].patched = "no")
       => Len(history[f]) >= 2

(* Once v2 has decided about the patch, all of the history is its program;  *)
(* so it is for v1 as long as v2 has not been there.                        *)
Follows(f) ==
  (/\ exec[f].running /\ exec[f].patched # "?"
   /\ exec[f].version = "v2" \/ rollbacks = 0)
    => IsPrefixOf(history[f], Steps(f))

OneProgram(f) ==
  \E patched \in {"yes", "no"} : IsPrefixOf(history[f], Program(snap[f], patched))

OnlyOldSteps(f) ==
  (rollbacks = 0 /\ deployed = "v1") =>
    /\ IsPrefixOf(history[f], Program(snap[f], "no"))
    /\ \A i \in 1..Len(authors[f]) : authors[f][i] = "v1"

(* A submission took effect behind the patch, where the history has it.     *)
Checked(f) ==
  "submit" \in effects[f] =>
    /\ Len(history[f]) >= 2
    /\ \A i \in 1..Len(history[f]) :
         history[f][i] = Marker => i + 1 <= Len(history[f]) /\ history[f][i+1] = "riskPrecheck"
    /\ snap[f] = "ready" => \E i \in 1..Len(history[f]) : history[f][i] = "prepare"

NewChecked(f) ==
  Len(history[f]) > 1 /\ authors[f][1] = "v2" /\ rollbacks = 0
    => history[f][2] = Marker

FilingFits(f) ==
  /\ Len(authors[f]) = Len(history[f])
  /\ Agrees(f) /\ AtEnd(f) /\ ExecShape(f) /\ Follows(f)
  /\ OneProgram(f) /\ OnlyOldSteps(f) /\ Checked(f) /\ NewChecked(f)
  /\ rollbacks = 0 => status[f] # "ERROR"

UpgradeInv == Typed /\ \A f \in Filings : FilingFits(f)

(* The program of an execution. *)
LEMMA StepsOf ==
  ASSUME Typed, NEW f \in Filings
  PROVE  /\ exec[f].patched = "yes" => Steps(f) = Program(snap[f], "yes")
         /\ exec[f].patched # "yes" => Steps(f) = Program(snap[f], "no")
         /\ Steps(f) \in Seq(StepNames) /\ Len(Steps(f)) \in 1..7
         /\ Steps(f)[1] = "validate"
<1>1. snap[f] \in FilingStates
  BY DEF Typed
<1>2. /\ exec[f].patched = "yes" => Steps(f) = Program(snap[f], "yes")
      /\ exec[f].patched # "yes" => Steps(f) = Program(snap[f], "no")
  BY DEF Steps, Program
<1>. QED BY <1>1, <1>2, ProgramShape

(* A step appended to a history. *)
LEMMA AppendFacts ==
  ASSUME NEW S, NEW s \in Seq(S), NEW x \in S, NEW n \in Nat, n = Len(s),
         NEW t, t = Append(s, x)
  PROVE  /\ Len(t) = n + 1 /\ t[n + 1] = x
         /\ \A i \in 1..n : t[i] = s[i]
OBVIOUS

(* What a step of the execution of f leaves alone. *)
OtherFilings(f) ==
  /\ UNCHANGED <<deployed, snap, rollbacks, crashes>>
  /\ \A g \in Filings \ {f} :
       /\ history'[g] = history[g] /\ authors'[g] = authors[g]
       /\ exec'[g] = exec[g] /\ status'[g] = status[g] /\ effects'[g] = effects[g]

LEMMA OneFiling ==
  ASSUME UpgradeInv, NEW f \in Filings, Typed', OtherFilings(f), FilingFits(f)'
  PROVE  UpgradeInv'
<1>1. ASSUME NEW g \in Filings, g # f
      PROVE  FilingFits(g)'
  <2>1. /\ FilingFits(g)
        /\ UNCHANGED <<deployed, snap[g], rollbacks>>
        /\ UNCHANGED <<history[g], authors[g], exec[g], status[g], effects[g]>>
    BY <1>1 DEF UpgradeInv, OtherFilings, Typed
  <2>2. Steps(g)' = Steps(g)
    BY <2>1 DEF Steps
  <2>3. /\ (Len(authors[g]) = Len(history[g]))' /\ Agrees(g)'
        /\ (rollbacks = 0 => status[g] # "ERROR")'
    BY <2>1, <2>2 DEF FilingFits, Agrees
  <2>4. AtEnd(g)' /\ ExecShape(g)'
    BY <2>1, <2>2 DEF FilingFits, AtEnd, ExecShape, AtStep, AtPatch
  <2>5. Follows(g)' /\ OneProgram(g)'
    BY <2>1, <2>2 DEF FilingFits, Follows, OneProgram
  <2>6. OnlyOldSteps(g)'
    BY <2>1 DEF FilingFits, OnlyOldSteps
  <2>7. Checked(g)'
    BY <2>1 DEF FilingFits, Checked
  <2>8. NewChecked(g)'
    BY <2>1 DEF FilingFits, NewChecked
  <2>. QED BY <2>3, <2>4, <2>5, <2>6, <2>7, <2>8 DEF FilingFits
<1>. QED BY <1>1 DEF UpgradeInv

LEMMA UpgradeInitial == UpgradeInit => UpgradeInv
<1>. SUFFICES ASSUME UpgradeInit PROVE UpgradeInv
  OBVIOUS
<1>1. Typed
  BY UpgradeAssumption DEF UpgradeInit, Typed, NotRunning, Executions, Versions,
     FilingStates, FinalStates, StepNames
<1>2. ASSUME NEW f \in Filings PROVE FilingFits(f)
  <2>1. /\ history[f] = <<>> /\ authors[f] = <<>> /\ exec[f] = NotRunning
        /\ status[f] = "ENQUEUED" /\ effects[f] = {} /\ snap[f] \in FilingStates
    BY <1>1 DEF UpgradeInit, Typed
  <2>2. /\ Len(history[f]) = 0 /\ Len(authors[f]) = 0
        /\ exec[f].taken = 0 /\ exec[f].patched = "no"
        /\ ~exec[f].running /\ ~exec[f].executed
    BY <2>1 DEF NotRunning
  <2>3. /\ IsPrefixOf(history[f], Program(snap[f], "yes"))
        /\ IsPrefixOf(history[f], Program(snap[f], "no"))
    BY <2>1, <2>2, ProgramShape DEF IsPrefixOf
  <2>4. Agrees(f) /\ AtEnd(f) /\ ExecShape(f) /\ Follows(f)
    <3>1. Steps(f) = Program(snap[f], "no") /\ Len(Steps(f)) \in 1..7
      BY <1>1, <2>2, StepsOf
    <3>2. Agrees(f)
      <4>1. 1..exec[f].taken = {}
        BY <2>2
      <4>2. exec[f].taken <= Len(history[f]) /\ exec[f].taken <= Len(Steps(f))
        BY <2>2, <3>1
      <4>. QED BY <4>1, <4>2 DEF Agrees
    <3>3. AtEnd(f) /\ Follows(f)
      BY <2>2 DEF AtEnd, Follows
    <3>4. ExecShape(f)
      BY <2>1, <2>2 DEF ExecShape
    <3>. QED BY <3>2, <3>3, <3>4
  <2>5. OneProgram(f) /\ OnlyOldSteps(f)
    BY <2>2, <2>3 DEF OneProgram, OnlyOldSteps
  <2>6. Checked(f) /\ NewChecked(f)
    BY <2>1, <2>2 DEF Checked, NewChecked
  <2>. QED BY <2>1, <2>2, <2>4, <2>6, <2>5 DEF FilingFits
<1>. QED BY <1>1, <1>2 DEF UpgradeInv

-----------------------------------------------------------------------------
(* Steps of an execution. *)

(* Whatever happens to the execution, a history that stays is as fine as it *)
(* was.                                                                     *)
LEMMA HistoryKept ==
  ASSUME Typed, NEW f \in Filings, FilingFits(f),
         UNCHANGED <<deployed, snap, rollbacks, history, authors, effects>>
  PROVE  /\ (Len(authors[f]) = Len(history[f]))'
         /\ OneProgram(f)' /\ OnlyOldSteps(f)' /\ Checked(f)' /\ NewChecked(f)'
BY DEF FilingFits, OneProgram, OnlyOldSteps, Checked, NewChecked

LEMMA BeforeThePatch ==
  ASSUME Typed, NEW f \in Filings, FilingFits(f), AtStep(f)
  PROVE  /\ exec[f].taken \in 0..6 /\ exec[f].taken + 1 \in 1..Len(Steps(f))
         /\ exec[f].patched = "?" => exec[f].taken = 0
<1>1. exec[f] \in Executions /\ snap[f] \in FilingStates
  BY DEF Typed
<1>2. exec[f].taken \in Nat /\ Len(Steps(f)) \in 1..7 /\ exec[f].taken < Len(Steps(f))
  BY <1>1, StepsOf DEF Executions, AtStep
<1>3. ASSUME exec[f].patched = "?" PROVE exec[f].taken = 0
  <2>1. exec[f].taken <= 1 /\ Steps(f) = Program(snap[f], "no")
    BY <1>3, StepsOf DEF FilingFits, ExecShape
  <2>2. CASE snap[f] \in FinalStates
    BY <1>1, <1>2, <2>1, <2>2, ProgramShape
  <2>3. CASE snap[f] \notin FinalStates
    BY <1>2, <1>3, <2>1, <2>3 DEF AtStep, AtPatch
  <2>. QED BY <2>2, <2>3
<1>4. ASSUME NEW n \in Nat, NEW m \in 1..7, n < m
      PROVE  n \in 0..6 /\ n + 1 \in 1..m
  <2>1. m \in Nat /\ m <= 7
    OBVIOUS
  <2>2. n + 1 <= m /\ n <= 6 /\ n >= 0 /\ n + 1 >= 1
    BY <2>1, <1>4
  <2>. QED BY <2>1, <2>2
<1>. QED BY <1>2, <1>3, <1>4

LEMMA ReplayStep ==
  ASSUME UpgradeInv, NEW f \in Filings, Replay(f)
  PROVE  UpgradeInv'
<1>1. /\ Typed /\ FilingFits(f) /\ AtStep(f) /\ Recorded(f)
      /\ history[f][exec[f].taken + 1] = Steps(f)[exec[f].taken + 1]
      /\ UNCHANGED <<deployed, snap, history, status, effects, authors, rollbacks, crashes>>
  BY DEF UpgradeInv, Replay, NextName
<1>2. /\ exec[f].taken \in 0..6 /\ exec[f].taken + 1 \in 1..Len(Steps(f))
      /\ exec[f].patched = "?" => exec[f].taken = 0
  BY <1>1, BeforeThePatch
<1>3. ~exec[f].executed /\ exec[f].running
  BY <1>1 DEF FilingFits, AtEnd, Recorded, AtStep, Typed
<1>4. PICK e \in Executions :
        /\ exec' = [exec EXCEPT ![f] = e]
        /\ e.taken = exec[f].taken + 1 /\ e.running /\ ~e.executed
        /\ e.version = exec[f].version /\ e.patched = exec[f].patched
  <2>1. PICK e : e = [exec[f] EXCEPT !.taken = @ + 1]
    OBVIOUS
  <2>2. exec' = [exec EXCEPT ![f] = e]
    BY <2>1 DEF Replay
  <2>3. exec[f] \in Executions /\ exec[f].taken + 1 \in 0..7
    <3>1. exec[f] \in Executions
      BY <1>1 DEF Typed
    <3>2. \A n \in 0..6 : n + 1 \in 0..7
      OBVIOUS
    <3>. QED BY <1>2, <3>1, <3>2
  <2>4. /\ e \in Executions
        /\ e.taken = exec[f].taken + 1 /\ e.running /\ ~e.executed
        /\ e.version = exec[f].version /\ e.patched = exec[f].patched
    BY <1>3, <2>1, <2>3 DEF Executions
  <2>. QED BY <2>2, <2>4
<1>5. exec' \in [Filings -> Executions] /\ exec'[f] = e
  BY <1>1, <1>4 DEF Typed
<1>6. Typed'
  BY <1>1, <1>5 DEF Typed
<1>7. Steps(f)' = Steps(f)
  BY <1>1, <1>4, <1>5 DEF Steps
<1>8. Agrees(f)'
  <2>1. exec'[f].taken <= Len(history'[f]) /\ exec'[f].taken <= Len(Steps(f)')
    <3>1. exec[f].taken \in Nat /\ Len(history[f]) \in Nat /\ Len(Steps(f)) \in Nat
      <4>1. history[f] \in Seq(StepNames) /\ Steps(f) \in Seq(StepNames)
        BY <1>1, StepsOf DEF Typed
      <4>. QED BY <1>2, <4>1
    <3>2. exec[f].taken < Len(history[f]) /\ exec[f].taken + 1 <= Len(Steps(f))
      BY <1>1, <1>2 DEF Recorded
    <3>3. exec'[f].taken = exec[f].taken + 1 /\ history'[f] = history[f]
      BY <1>1, <1>4, <1>5
    <3>. QED BY <1>7, <3>1, <3>2, <3>3
  <2>2. ASSUME NEW i \in 1..exec'[f].taken
        PROVE  history'[f][i] = (Steps(f)')[i]
    <3>1. i \in 1..exec[f].taken \/ i = exec[f].taken + 1
      BY <1>2, <1>4, <1>5
    <3>. QED BY <3>1, <1>1, <1>7 DEF FilingFits, Agrees
  <2>. QED BY <2>1, <2>2 DEF Agrees
<1>9. AtEnd(f)' /\ ExecShape(f)' /\ Follows(f)'
  <2>1. AtEnd(f)'
    BY <1>3, <1>4, <1>5 DEF AtEnd
  <2>2. ExecShape(f)'
    <3>1. exec[f].running /\ ExecShape(f)
      BY <1>1, <1>3 DEF FilingFits
    <3>2. /\ exec'[f].running /\ exec'[f].taken = exec[f].taken + 1
          /\ exec'[f].version = exec[f].version /\ exec'[f].patched = exec[f].patched
      BY <1>4, <1>5
    <3>. QED BY <1>1, <1>2, <3>1, <3>2 DEF ExecShape
  <2>3. Follows(f)'
    <3>1. exec[f].running /\ Follows(f)
      BY <1>1 DEF FilingFits, AtStep
    <3>2. exec'[f].version = exec[f].version /\ exec'[f].patched = exec[f].patched
      BY <1>4, <1>5
    <3>. QED BY <1>1, <1>7, <3>1, <3>2 DEF Follows, IsPrefixOf
  <2>. QED BY <2>1, <2>2, <2>3
<1>10. FilingFits(f)'
  BY <1>1, <1>8, <1>9, HistoryKept DEF FilingFits
<1>11. OtherFilings(f)
  BY <1>1, <1>4 DEF OtherFilings, Typed
<1>. QED BY <1>6, <1>10, <1>11, OneFiling

LEMMA ExecuteStep ==
  ASSUME UpgradeInv, NEW f \in Filings, Execute(f)
  PROVE  UpgradeInv'
<1>1. /\ Typed /\ FilingFits(f) /\ AtStep(f) /\ ~Recorded(f)
      /\ effects' = [effects EXCEPT ![f] = @ \cup {NextName(f)}]
      /\ UNCHANGED <<deployed, snap, history, status, authors, rollbacks, crashes>>
  BY DEF UpgradeInv, Execute
<1>2. /\ exec[f].taken \in 0..6 /\ exec[f].taken + 1 \in 1..Len(Steps(f))
      /\ exec[f].patched = "?" => exec[f].taken = 0
  BY <1>1, BeforeThePatch
<1>3. /\ history[f] \in Seq(StepNames) /\ Len(history[f]) \in Nat
      /\ exec[f].taken = Len(history[f])
  <2>1. history[f] \in Seq(StepNames) /\ Len(history[f]) \in Nat
    BY <1>1 DEF Typed
  <2>2. exec[f].taken <= Len(history[f]) /\ ~(exec[f].taken < Len(history[f]))
    BY <1>1 DEF FilingFits, Agrees, Recorded
  <2>3. \A m \in 0..6, n \in Nat : m <= n /\ ~(m < n) => m = n
    OBVIOUS
  <2>. QED BY <1>2, <2>1, <2>2, <2>3
<1>4. PICK e \in Executions :
        /\ exec' = [exec EXCEPT ![f] = e]
        /\ e.taken = exec[f].taken /\ e.running /\ e.executed
        /\ e.version = exec[f].version /\ e.patched = exec[f].patched
  <2>1. PICK e : e = [exec[f] EXCEPT !.executed = TRUE]
    OBVIOUS
  <2>2. exec' = [exec EXCEPT ![f] = e]
    BY <2>1 DEF Execute
  <2>3. exec[f] \in Executions /\ exec[f].running
    BY <1>1 DEF Typed, AtStep
  <2>4. /\ e \in Executions
        /\ e.taken = exec[f].taken /\ e.running /\ e.executed
        /\ e.version = exec[f].version /\ e.patched = exec[f].patched
    BY <2>1, <2>3 DEF Executions
  <2>. QED BY <2>2, <2>4
<1>5. exec' \in [Filings -> Executions] /\ exec'[f] = e
  BY <1>1, <1>4 DEF Typed
<1>6. Typed'
  <2>1. NextName(f) \in StepNames
    BY <1>1, <1>2, StepsOf DEF NextName
  <2>2. effects' \in [Filings -> SUBSET StepNames]
    BY <1>1, <2>1 DEF Typed
  <2>. QED BY <1>1, <1>5, <2>2 DEF Typed
<1>7. Steps(f)' = Steps(f)
  BY <1>1, <1>4, <1>5 DEF Steps
<1>8. Agrees(f)' /\ AtEnd(f)' /\ ExecShape(f)' /\ Follows(f)'
  <2>1. Agrees(f)'
    BY <1>1, <1>4, <1>5, <1>7 DEF FilingFits, Agrees
  <2>2. AtEnd(f)'
    BY <1>1, <1>3, <1>4, <1>5, <1>7 DEF AtEnd, AtStep, AtPatch
  <2>3. ExecShape(f)'
    <3>1. exec[f].running /\ ExecShape(f)
      BY <1>1 DEF FilingFits, AtStep
    <3>2. /\ exec'[f].running /\ exec'[f].taken = exec[f].taken
          /\ exec'[f].version = exec[f].version /\ exec'[f].patched = exec[f].patched
      BY <1>4, <1>5
    <3>. QED BY <1>1, <3>1, <3>2 DEF ExecShape
  <2>4. Follows(f)'
    <3>1. exec[f].running /\ Follows(f)
      BY <1>1 DEF FilingFits, AtStep
    <3>2. exec'[f].version = exec[f].version /\ exec'[f].patched = exec[f].patched
      BY <1>4, <1>5
    <3>. QED BY <1>1, <1>7, <3>1, <3>2 DEF Follows, IsPrefixOf
  <2>. QED BY <2>1, <2>2, <2>3, <2>4
<1>9. Checked(f)'
  <2>1. CASE NextName(f) = "submit"
    <3>1. /\ Steps(f)[exec[f].taken + 1] = "submit"
          /\ \A i \in 1..exec[f].taken : history[f][i] = Steps(f)[i]
      BY <1>1, <2>1 DEF NextName, FilingFits, Agrees
    <3>2. PICK patched \in {"yes", "no"} : Steps(f) = Program(snap[f], patched)
      BY <1>1, StepsOf
    <3>3. snap[f] \in FilingStates
      BY <1>1 DEF Typed
    <3>4. /\ \A i \in 1..Len(Steps(f)) : Steps(f)[i] = Marker => i = 2
          /\ exec[f].taken >= 2 /\ (patched = "yes" => exec[f].taken >= 3)
          /\ snap[f] = "ready" => \E j \in 1..exec[f].taken : Steps(f)[j] = "prepare"
          /\ snap[f] \notin FinalStates =>
               /\ (Steps(f)[2] = Marker <=> patched = "yes")
               /\ patched = "yes" => Steps(f)[3] = "riskPrecheck"
          /\ snap[f] \notin FinalStates
      <4>1. exec[f].taken + 1 \in 1..Len(Steps(f)) /\ (exec[f].taken + 1) - 1 = exec[f].taken
        BY <1>2
      <4>2. snap[f] \notin FinalStates
        BY <1>2, <3>1, <3>2, <3>3, ProgramShape
      <4>3. /\ exec[f].taken + 1 >= 3 /\ (patched = "yes" => exec[f].taken + 1 >= 4)
            /\ snap[f] = "ready" =>
                 \E j \in 1..((exec[f].taken + 1) - 1) : Steps(f)[j] = "prepare"
        <5>1. PICK t, i : t = Program(snap[f], patched) /\ i = exec[f].taken + 1
          OBVIOUS
        <5>2. i \in 1..Len(t) /\ t[i] = "submit"
          BY <3>1, <3>2, <4>1, <5>1
        <5>3. /\ i >= 3 /\ (patched = "yes" => i >= 4)
              /\ snap[f] = "ready" => \E j \in 1..(i - 1) : t[j] = "prepare"
          <6>1. PICK state \in FilingStates : state = snap[f]
            BY <3>3
          <6>2. t = Program(state, patched)
            BY <5>1, <6>1
          <6>. QED BY <5>2, <6>1, <6>2, ProgramShape
        <5>4. Steps(f) = t /\ exec[f].taken + 1 = i
          BY <3>2, <5>1
        <5>5. snap[f] = "ready" => \E j \in 1..(i - 1) : Steps(f)[j] = "prepare"
          BY <5>3, <5>4
        <5>. QED BY <5>3, <5>4, <5>5
      <4>4. /\ \A i \in 1..Len(Steps(f)) : Steps(f)[i] = Marker => i = 2
            /\ (Steps(f)[2] = Marker <=> patched = "yes")
            /\ patched = "yes" => Steps(f)[3] = "riskPrecheck"
        BY <4>2, <3>2, <3>3, ProgramShape
      <4>. QED BY <1>2, <4>1, <4>2, <4>3, <4>4
    <3>5. ASSUME NEW i \in 1..Len(history[f]), history[f][i] = Marker
          PROVE  i + 1 <= Len(history[f]) /\ history[f][i+1] = "riskPrecheck"
      <4>1. i = 2 /\ patched = "yes"
        BY <1>2, <1>3, <3>1, <3>4, <3>5
      <4>. QED BY <1>2, <1>3, <3>1, <3>4, <4>1
    <3>6. snap[f] = "ready" => \E i \in 1..Len(history[f]) : history[f][i] = "prepare"
      BY <1>3, <3>1, <3>4
    <3>. QED BY <1>1, <1>3, <3>4, <3>5, <3>6 DEF Checked
  <2>2. CASE NextName(f) # "submit"
    <3>1. "submit" \in effects'[f] => "submit" \in effects[f]
      BY <1>1, <2>2 DEF Typed
    <3>. QED BY <1>1, <3>1 DEF FilingFits, Checked
  <2>. QED BY <2>1, <2>2
<1>10. OneProgram(f)' /\ OnlyOldSteps(f)' /\ NewChecked(f)'
  BY <1>1 DEF FilingFits, OneProgram, OnlyOldSteps, NewChecked
<1>11. FilingFits(f)'
  BY <1>1, <1>8, <1>9, <1>10 DEF FilingFits
<1>12. OtherFilings(f)
  BY <1>1, <1>4 DEF OtherFilings, Typed
<1>. QED BY <1>6, <1>11, <1>12, OneFiling

LEMMA CheckpointedStep ==
  ASSUME UpgradeInv, NEW f \in Filings, CheckpointStep(f)
  PROVE  UpgradeInv'
<1>1. /\ Typed /\ FilingFits(f) /\ AtStep(f) /\ exec[f].executed /\ exec[f].running
      /\ exec[f].taken = Len(history[f])
      /\ history' = [history EXCEPT ![f] = Append(@, Steps(f)[exec[f].taken + 1])]
      /\ authors' = [authors EXCEPT ![f] = Append(@, exec[f].version)]
      /\ UNCHANGED <<deployed, snap, status, effects, rollbacks, crashes>>
  BY DEF UpgradeInv, FilingFits, AtEnd, AtStep, CheckpointStep, Append1, NextName
<1>2. /\ exec[f].taken \in 0..6 /\ exec[f].taken + 1 \in 1..Len(Steps(f))
      /\ exec[f].patched = "?" => exec[f].taken = 0
  BY <1>1, BeforeThePatch
<1>3. PICK n \in 0..6 : n = exec[f].taken
  BY <1>2
<1>4. PICK name : name = Steps(f)[n + 1]
  OBVIOUS
<1>5. name \in StepNames /\ exec[f].version \in Versions /\ exec[f] \in Executions
  <2>1. Steps(f) \in Seq(StepNames) /\ n + 1 \in 1..Len(Steps(f))
    BY <1>1, <1>2, <1>3, StepsOf
  <2>2. exec[f] \in Executions
    BY <1>1 DEF Typed
  <2>. QED BY <1>4, <2>1, <2>2 DEF Executions
<1>6. /\ history' \in [Filings -> Seq(StepNames)] /\ authors' \in [Filings -> Seq(Versions)]
      /\ history'[f] = Append(history[f], name)
      /\ authors'[f] = Append(authors[f], exec[f].version)
  BY <1>1, <1>3, <1>4, <1>5 DEF Typed
<1>7. /\ history[f] \in Seq(StepNames) /\ authors[f] \in Seq(Versions)
      /\ Len(history[f]) = n /\ Len(authors[f]) = n
  <2>1. history[f] \in Seq(StepNames) /\ authors[f] \in Seq(Versions)
    BY <1>1 DEF Typed
  <2>2. Len(authors[f]) = Len(history[f])
    BY <1>1 DEF FilingFits
  <2>. QED BY <1>1, <1>3, <2>1, <2>2
<1>8. /\ Len(history'[f]) = n + 1 /\ Len(authors'[f]) = n + 1
      /\ \A i \in 1..n : history'[f][i] = history[f][i] /\ authors'[f][i] = authors[f][i]
      /\ history'[f][n + 1] = name /\ authors'[f][n + 1] = exec[f].version
  <2>1. n \in Nat /\ n = Len(history[f]) /\ n = Len(authors[f])
    BY <1>3, <1>7
  <2>2. /\ Len(history'[f]) = n + 1 /\ history'[f][n + 1] = name
        /\ \A i \in 1..n : history'[f][i] = history[f][i]
    <3>1. PICK s \in Seq(StepNames), t \in Seq(StepNames) : s = history[f] /\ t = history'[f]
      BY <1>1, <1>6, <1>7
    <3>2. t = Append(s, name) /\ n = Len(s)
      BY <1>6, <2>1, <3>1
    <3>3. Len(t) = n + 1 /\ t[n + 1] = name /\ \A i \in 1..n : t[i] = s[i]
      BY <1>5, <2>1, <3>2, AppendFacts
    <3>. QED BY <3>1, <3>3
  <2>3. /\ Len(authors'[f]) = n + 1 /\ authors'[f][n + 1] = exec[f].version
        /\ \A i \in 1..n : authors'[f][i] = authors[f][i]
    <3>1. PICK s \in Seq(Versions), t \in Seq(Versions) : s = authors[f] /\ t = authors'[f]
      BY <1>1, <1>6, <1>7
    <3>2. t = Append(s, exec[f].version) /\ n = Len(s)
      BY <1>6, <2>1, <3>1
    <3>3. Len(t) = n + 1 /\ t[n + 1] = exec[f].version /\ \A i \in 1..n : t[i] = s[i]
      BY <1>5, <2>1, <3>2, AppendFacts
    <3>. QED BY <3>1, <3>3
  <2>. QED BY <2>2, <2>3
<1>9. PICK e \in Executions :
        /\ exec' = [exec EXCEPT ![f] = e]
        /\ e.taken = n + 1 /\ e.running /\ ~e.executed
        /\ e.version = exec[f].version /\ e.patched = exec[f].patched
  <2>1. PICK e : e = [exec[f] EXCEPT !.executed = FALSE, !.taken = n + 1]
    OBVIOUS
  <2>2. exec' = [exec EXCEPT ![f] = e]
    BY <1>3, <2>1 DEF CheckpointStep
  <2>3. n + 1 \in 0..7
    BY <1>3
  <2>4. /\ e \in Executions
        /\ e.taken = n + 1 /\ e.running /\ ~e.executed
        /\ e.version = exec[f].version /\ e.patched = exec[f].patched
    BY <1>1, <1>5, <2>1, <2>3 DEF Executions
  <2>. QED BY <2>2, <2>4
<1>10. /\ exec' \in [Filings -> Executions]
       /\ exec'[f].running /\ exec'[f].taken = n + 1 /\ ~exec'[f].executed
       /\ exec'[f].version = exec[f].version /\ exec'[f].patched = exec[f].patched
  BY <1>1, <1>9 DEF Typed
<1>11. Typed'
  BY <1>1, <1>6, <1>10 DEF Typed
<1>12. Steps(f)' = Steps(f)
  BY <1>1, <1>10 DEF Steps
<1>13. IsPrefixOf(history'[f], Steps(f))
  <2>1. n + 1 <= Len(Steps(f))
    BY <1>2, <1>3, StepsOf, <1>1
  <2>2. ASSUME NEW i \in 1..(n + 1)
        PROVE  history'[f][i] = Steps(f)[i]
    <3>1. CASE i \in 1..n
      BY <3>1, <1>1, <1>3, <1>8 DEF FilingFits, Agrees
    <3>2. CASE i = n + 1
      BY <3>2, <1>4, <1>8
    <3>. QED BY <3>1, <3>2, <1>3
  <2>. QED BY <1>8, <2>1, <2>2 DEF IsPrefixOf
<1>14. Agrees(f)' /\ AtEnd(f)' /\ Follows(f)'
  BY <1>8, <1>10, <1>12, <1>13 DEF Agrees, AtEnd, Follows, IsPrefixOf
<1>15. ExecShape(f)'
  <2>1. ExecShape(f)
    BY <1>1 DEF FilingFits
  <2>2. n + 1 >= n /\ (n = 0 => n + 1 <= 1)
    BY <1>3
  <2>3. exec[f].patched = "yes" => n + 1 >= 2
    BY <1>3, <2>1 DEF ExecShape
  <2>4. n >= 2 => n + 1 >= 2
    BY <1>3
  <2>. QED BY <1>1, <1>2, <1>3, <1>7, <1>8, <1>10, <2>1, <2>2, <2>3, <2>4 DEF ExecShape
<1>16. PICK patched \in {"yes", "no"} :
         /\ Steps(f) = Program(snap[f], patched)
         /\ exec[f].patched = "yes" <=> patched = "yes"
  BY <1>1, StepsOf
<1>17. OneProgram(f)'
  BY <1>1, <1>13, <1>16 DEF OneProgram
<1>18. OnlyOldSteps(f)'
  <2>. SUFFICES ASSUME rollbacks = 0, deployed = "v1"
                PROVE  /\ IsPrefixOf(history'[f], Program(snap[f], "no"))
                       /\ \A i \in 1..Len(authors'[f]) : authors'[f][i] = "v1"
    BY <1>1 DEF OnlyOldSteps
  <2>1. exec[f].version = "v1" /\ patched = "no"
    BY <1>1, <1>16 DEF FilingFits, ExecShape
  <2>2. \A i \in 1..n : authors[f][i] = "v1"
    BY <1>1, <1>7 DEF FilingFits, OnlyOldSteps
  <2>3. ASSUME NEW i \in 1..(n + 1)
        PROVE  authors'[f][i] = "v1"
    <3>1. i \in 1..n \/ i = n + 1
      BY <1>3
    <3>. QED BY <3>1, <2>1, <2>2, <1>8
  <2>. QED BY <1>8, <1>13, <1>16, <2>1, <2>3
<1>19. Checked(f)'
  <2>. SUFFICES ASSUME "submit" \in effects[f]
                PROVE  /\ n + 1 >= 2
                       /\ \A i \in 1..(n + 1) : history'[f][i] = Marker =>
                            i + 1 <= n + 1 /\ history'[f][i+1] = "riskPrecheck"
                       /\ snap[f] = "ready" =>
                            \E i \in 1..(n + 1) : history'[f][i] = "prepare"
    BY <1>1, <1>8 DEF Checked
  <2>1. Checked(f)
    BY <1>1 DEF FilingFits
  <2>2. n >= 2 /\ n + 1 >= 2 /\ n + 1 # 2
    BY <2>1, <1>3, <1>7 DEF Checked
  <2>3. name # Marker
    BY <1>1, <1>2, <1>3, <1>4, <1>16, <2>2, ProgramShape DEF Typed
  <2>4. ASSUME NEW i \in 1..(n + 1), history'[f][i] = Marker
        PROVE  i + 1 <= n + 1 /\ history'[f][i+1] = "riskPrecheck"
    <3>1. i \in 1..n
      BY <1>3, <1>8, <2>3, <2>4
    <3>2. i + 1 <= n /\ history[f][i+1] = "riskPrecheck"
      BY <2>1, <2>4, <3>1, <1>7, <1>8 DEF Checked
    <3>3. i + 1 \in 1..n /\ i + 1 <= n + 1
      BY <1>3, <3>1, <3>2
    <3>. QED BY <1>8, <3>2, <3>3
  <2>5. ASSUME snap[f] = "ready"
        PROVE  \E i \in 1..(n + 1) : history'[f][i] = "prepare"
    <3>1. PICK i \in 1..n : history[f][i] = "prepare"
      BY <2>1, <2>5, <1>7 DEF Checked
    <3>2. i \in 1..(n + 1)
      BY <1>3
    <3>. QED BY <3>1, <3>2, <1>8
  <2>. QED BY <2>2, <2>4, <2>5
<1>20. NewChecked(f)'
  <2>. SUFFICES ASSUME n + 1 > 1, authors'[f][1] = "v2", rollbacks = 0
                PROVE  history'[f][2] = Marker
    BY <1>1, <1>8 DEF NewChecked
  <2>1. 1 \in 1..n
    BY <1>3
  <2>2. authors[f][1] = "v2"
    BY <1>8, <2>1
  <2>3. deployed = "v2"
    BY <1>1, <1>7, <2>1, <2>2 DEF FilingFits, OnlyOldSteps, Typed, Versions
  <2>4. n # 1
    <3>1. exec[f].version = "v2"
      BY <1>1, <2>3 DEF FilingFits, ExecShape
    <3>2. exec[f].patched = "?" => n = 0
      BY <1>2, <1>3
    <3>3. exec[f].patched = "yes" => n >= 2
      BY <1>1, <1>3 DEF FilingFits, ExecShape
    <3>4. exec[f].patched = "no" => n >= 2
      BY <1>1, <1>7, <3>1 DEF FilingFits, ExecShape
    <3>5. exec[f].patched \in {"yes", "no", "?"}
      BY <1>5 DEF Executions
    <3>. QED BY <3>2, <3>3, <3>4, <3>5
  <2>5. n > 1 /\ 2 \in 1..n
    BY <1>3, <2>1, <2>4
  <2>6. history[f][2] = Marker
    BY <1>1, <1>7, <2>2, <2>5 DEF FilingFits, NewChecked
  <2>. QED BY <1>8, <2>5, <2>6
<1>21. FilingFits(f)'
  BY <1>1, <1>8, <1>14, <1>15, <1>17, <1>18, <1>19, <1>20 DEF FilingFits
<1>22. OtherFilings(f)
  BY <1>1, <1>9 DEF OtherFilings, Typed
<1>. QED BY <1>11, <1>21, <1>22, OneFiling

LEMMA EvaluatePatchStep ==
  ASSUME UpgradeInv, NEW f \in Filings, EvaluatePatch(f)
  PROVE  UpgradeInv'
<1>1. /\ Typed /\ FilingFits(f) /\ exec[f].running /\ exec[f].taken = 1
      /\ exec[f].patched = "?" /\ snap[f] \notin FinalStates /\ ~AtStep(f)
      /\ UNCHANGED <<deployed, snap, status, effects, rollbacks, crashes>>
  BY DEF UpgradeInv, EvaluatePatch, AtPatch, AtStep
<1>2. /\ exec[f] \in Executions /\ snap[f] \in FilingStates
      /\ history[f] \in Seq(StepNames) /\ authors[f] \in Seq(Versions)
      /\ Len(history[f]) \in Nat /\ Len(history[f]) >= 1
      /\ Len(authors[f]) = Len(history[f])
  BY <1>1 DEF Typed, FilingFits, Agrees
<1>3. /\ ~exec[f].executed /\ exec[f].version = "v2" /\ deployed = "v2"
      /\ status[f] = "PENDING" /\ OneProgram(f)
  BY <1>1 DEF FilingFits, AtEnd, ExecShape
<1>4. history[f][1] = "validate"
  BY <1>1, StepsOf DEF FilingFits, Agrees
<1>5. \A name : Program(snap[f], name)[1] = "validate" \/ name \notin {"yes", "no"}
  BY <1>2, ProgramShape
<1>6. /\ Program(snap[f], "yes")[2] = Marker /\ Program(snap[f], "no")[2] # Marker
      /\ Len(Program(snap[f], "yes")) \in 4..7 /\ Len(Program(snap[f], "no")) \in 4..7
  <2>1. PICK yes, no : yes = Program(snap[f], "yes") /\ no = Program(snap[f], "no")
    OBVIOUS
  <2>2. Len(yes) \in 1..7 /\ Len(yes) >= 4 /\ yes[2] = Marker
    BY <1>1, <1>2, <2>1, ProgramShape
  <2>3. Len(no) \in 1..7 /\ Len(no) >= 4 /\ no[2] # Marker
    BY <1>1, <1>2, <2>1, ProgramShape
  <2>4. \A n \in 1..7 : n >= 4 => n \in 4..7
    OBVIOUS
  <2>. QED BY <2>1, <2>2, <2>3, <2>4
<1>7. CASE ~Recorded(f)
  <2>1. /\ Len(history[f]) = 1 /\ Len(authors[f]) = 1
        /\ history' = [history EXCEPT ![f] = Append(@, Marker)]
        /\ authors' = [authors EXCEPT ![f] = Append(@, exec[f].version)]
        /\ exec' = [exec EXCEPT ![f].patched = "yes", ![f].taken = 2]
    <3>1. Len(history[f]) = 1
      <4>1. ~(1 < Len(history[f]))
        BY <1>1, <1>7 DEF Recorded
      <4>2. \A n \in Nat : n >= 1 /\ ~(1 < n) => n = 1
        OBVIOUS
      <4>. QED BY <1>2, <4>1, <4>2
    <3>2. /\ history' = [history EXCEPT ![f] = Append(@, Marker)]
          /\ authors' = [authors EXCEPT ![f] = Append(@, exec[f].version)]
          /\ exec' = [exec EXCEPT ![f].patched = "yes", ![f].taken = 2]
      BY <1>7 DEF EvaluatePatch, Append1
    <3>. QED BY <1>2, <3>1, <3>2
  <2>2. Marker \in StepNames /\ exec[f].version \in Versions
    BY <1>2 DEF StepNames, Executions
  <2>3. /\ history' \in [Filings -> Seq(StepNames)] /\ authors' \in [Filings -> Seq(Versions)]
        /\ history'[f] = Append(history[f], Marker)
        /\ authors'[f] = Append(authors[f], exec[f].version)
    BY <1>1, <2>1, <2>2 DEF Typed
  <2>4. /\ Len(history'[f]) = 2 /\ Len(authors'[f]) = 2
        /\ history'[f][1] = "validate" /\ history'[f][2] = Marker
    <3>1. /\ Len(history'[f]) = Len(history[f]) + 1
          /\ Len(authors'[f]) = Len(authors[f]) + 1
          /\ history'[f][Len(history[f]) + 1] = Marker
          /\ \A i \in 1..Len(history[f]) : history'[f][i] = history[f][i]
      BY <1>2, <2>2, <2>3
    <3>2. 1 \in 1..Len(history[f]) /\ Len(history[f]) + 1 = 2 /\ Len(authors[f]) + 1 = 2
      BY <2>1
    <3>. QED BY <1>4, <3>1, <3>2
  <2>5. IsPrefixOf(history'[f], Program(snap[f], "yes"))
    <3>1. \A i \in 1..2 : i = 1 \/ i = 2
      OBVIOUS
    <3>. QED BY <1>5, <1>6, <2>4, <3>1 DEF IsPrefixOf
  <2>6. PICK e \in Executions :
          /\ exec' = [exec EXCEPT ![f] = e]
          /\ e.taken = 2 /\ e.running /\ ~e.executed
          /\ e.version = exec[f].version /\ e.patched = "yes"
    <3>1. PICK e : e = [exec[f] EXCEPT !.patched = "yes", !.taken = 2]
      OBVIOUS
    <3>2. exec' = [exec EXCEPT ![f] = e]
      BY <2>1, <3>1
    <3>3. /\ e \in Executions /\ e.taken = 2 /\ e.running /\ ~e.executed
          /\ e.version = exec[f].version /\ e.patched = "yes"
      BY <1>1, <1>2, <1>3, <3>1, 2 \in 0..7 DEF Executions
    <3>. QED BY <3>2, <3>3
  <2>7. exec' \in [Filings -> Executions] /\ exec'[f] = e
    BY <1>1, <2>6 DEF Typed
  <2>8. Typed'
    BY <1>1, <2>3, <2>7 DEF Typed
  <2>9. Steps(f)' = Program(snap[f], "yes")
    BY <1>1, <2>6, <2>7 DEF Steps
  <2>10. Agrees(f)' /\ AtEnd(f)' /\ Follows(f)'
    BY <1>6, <2>4, <2>5, <2>6, <2>7, <2>9 DEF Agrees, AtEnd, Follows, IsPrefixOf
  <2>11. ExecShape(f)'
    BY <1>1, <1>3, <2>4, <2>6, <2>7 DEF ExecShape
  <2>12. OneProgram(f)' /\ OnlyOldSteps(f)' /\ NewChecked(f)'
    BY <1>1, <1>3, <2>4, <2>5 DEF OneProgram, OnlyOldSteps, NewChecked
  <2>13. Checked(f)'
    BY <1>1, <2>1 DEF FilingFits, Checked
  <2>14. FilingFits(f)'
    BY <1>1, <1>3, <2>4, <2>10, <2>11, <2>12, <2>13 DEF FilingFits
  <2>15. OtherFilings(f)
    BY <1>1, <2>1 DEF OtherFilings, Typed
  <2>. QED BY <2>8, <2>14, <2>15, OneFiling
<1>8. CASE Recorded(f)
  <2>1. Len(history[f]) >= 2
    BY <1>1, <1>2, <1>8 DEF Recorded
  <2>2. PICK patched \in {"yes", "no"} :
          /\ IsPrefixOf(history[f], Program(snap[f], patched))
          /\ patched = "yes" <=> history[f][2] = Marker
    <3>1. PICK patched \in {"yes", "no"} : IsPrefixOf(history[f], Program(snap[f], patched))
      BY <1>3 DEF OneProgram
    <3>2. history[f][2] = Program(snap[f], patched)[2]
      <4>1. 2 \in 1..Len(history[f])
        BY <1>2, <2>1
      <4>. QED BY <3>1, <4>1 DEF IsPrefixOf
    <3>. QED BY <1>6, <3>1, <3>2
  <2>3. PICK e \in Executions :
          /\ exec' = [exec EXCEPT ![f] = e]
          /\ e.running /\ ~e.executed
          /\ e.version = exec[f].version /\ e.patched = patched
          /\ e.taken = IF patched = "yes" THEN 2 ELSE 1
    <3>1. PICK e : e = [exec[f] EXCEPT !.patched = patched,
                                       !.taken = IF patched = "yes" THEN 2 ELSE 1]
      OBVIOUS
    <3>2. exec' = [exec EXCEPT ![f] = e]
      <4>1. CASE patched = "yes"
        BY <1>1, <1>8, <2>2, <3>1, <4>1 DEF EvaluatePatch
      <4>2. CASE patched = "no"
        <5>1. exec' = [exec EXCEPT ![f].patched = "no"]
          BY <1>8, <2>2, <4>2 DEF EvaluatePatch
        <5>2. [exec[f] EXCEPT !.patched = "no"] = [exec[f] EXCEPT !.patched = "no", !.taken = 1]
          BY <1>1, <1>2 DEF Executions
        <5>. QED BY <3>1, <4>2, <5>1, <5>2
      <4>. QED BY <4>1, <4>2
    <3>3. /\ e \in Executions /\ e.running /\ ~e.executed
          /\ e.version = exec[f].version /\ e.patched = patched
          /\ e.taken = IF patched = "yes" THEN 2 ELSE 1
      <4>1. (IF patched = "yes" THEN 2 ELSE 1) \in 0..7
        OBVIOUS
      <4>. QED BY <1>1, <1>2, <1>3, <3>1, <4>1 DEF Executions
    <3>. QED BY <3>2, <3>3
  <2>4. UNCHANGED <<history, authors>>
    BY <1>8 DEF EvaluatePatch
  <2>5. exec' \in [Filings -> Executions] /\ exec'[f] = e
    BY <1>1, <2>3 DEF Typed
  <2>6. Typed'
    BY <1>1, <2>4, <2>5 DEF Typed
  <2>7. Steps(f)' = Program(snap[f], patched)
    BY <1>1, <2>3, <2>5 DEF Steps
  <2>8. AtEnd(f)' /\ Follows(f)'
    BY <2>2, <2>3, <2>4, <2>5, <2>7 DEF AtEnd, Follows, IsPrefixOf
  <2>9. Agrees(f)'
    <3>1. exec'[f].taken \in 1..2 /\ exec'[f].taken <= Len(history[f])
      BY <1>2, <2>1, <2>3, <2>5
    <3>2. Len(Program(snap[f], patched)) \in 4..7
      BY <1>6
    <3>. QED BY <1>2, <2>2, <2>4, <2>7, <3>1, <3>2 DEF Agrees, IsPrefixOf
  <2>10. ExecShape(f)'
    BY <1>1, <1>3, <2>1, <2>3, <2>4, <2>5 DEF ExecShape
  <2>11. FilingFits(f)'
    BY <1>1, <2>4, <2>8, <2>9, <2>10, HistoryKept DEF FilingFits
  <2>12. OtherFilings(f)
    BY <1>1, <2>3, <2>4 DEF OtherFilings, Typed
  <2>. QED BY <2>6, <2>11, <2>12, OneFiling
<1>. QED BY <1>7, <1>8

(* An execution that is over, by its end or by that of its worker, leaves a *)
(* history behind that any build can go on with.                            *)
LEMMA Stopped ==
  ASSUME Typed, NEW f \in Filings, FilingFits(f),
         UNCHANGED <<snap, history, authors, effects>>,
         exec'[f] = NotRunning,
         rollbacks' = 0 => rollbacks = 0 /\ status'[f] # "ERROR",
         rollbacks' = 0 /\ deployed' = "v1" => deployed = "v1"
  PROVE  FilingFits(f)'
<1>1. /\ exec'[f].taken = 0 /\ exec'[f].patched = "no"
      /\ ~exec'[f].running /\ ~exec'[f].executed
  BY DEF NotRunning
<1>2. Len(history[f]) \in Nat /\ snap[f] \in FilingStates
  BY DEF Typed
<1>3. Steps(f)' = Program(snap[f], "no") /\ Len(Program(snap[f], "no")) \in 1..7
  BY <1>1, <1>2, ProgramShape DEF Steps
<1>4. Agrees(f)'
  <2>1. 1..exec'[f].taken = {}
    BY <1>1
  <2>2. exec'[f].taken <= Len(history'[f]) /\ exec'[f].taken <= Len(Steps(f)')
    BY <1>1, <1>2, <1>3
  <2>. QED BY <2>1, <2>2 DEF Agrees
<1>5. AtEnd(f)' /\ ExecShape(f)' /\ Follows(f)'
  BY <1>1 DEF AtEnd, ExecShape, Follows, NotRunning
<1>6. /\ (Len(authors[f]) = Len(history[f]))'
      /\ OneProgram(f)' /\ OnlyOldSteps(f)' /\ Checked(f)' /\ NewChecked(f)'
  BY DEF FilingFits, OneProgram, OnlyOldSteps, Checked, NewChecked
<1>. QED BY <1>4, <1>5, <1>6 DEF FilingFits

LEMMA NotRunningTyped == NotRunning \in Executions
<1>1. 0 \in 0..7
  OBVIOUS
<1>. QED BY <1>1 DEF NotRunning, Executions, Versions

LEMMA StartStep ==
  ASSUME UpgradeInv, NEW f \in Filings, Start(f)
  PROVE  UpgradeInv'
<1>1. /\ Typed /\ FilingFits(f)
      /\ status' = [status EXCEPT ![f] = "PENDING"]
      /\ UNCHANGED <<deployed, snap, history, effects, authors, rollbacks, crashes>>
  BY DEF UpgradeInv, Start
<1>2. PICK e \in Executions :
        /\ exec' = [exec EXCEPT ![f] = e]
        /\ e.running /\ ~e.executed /\ e.taken = 0 /\ e.version = deployed
        /\ e.patched = IF deployed = "v2" THEN "?" ELSE "no"
  <2>1. PICK e : e = [running |-> TRUE, version |-> deployed, taken |-> 0,
                      executed |-> FALSE,
                      patched |-> IF deployed = "v2" THEN "?" ELSE "no"]
    OBVIOUS
  <2>2. 0 \in 0..7
    OBVIOUS
  <2>3. exec' = [exec EXCEPT ![f] = e]
    BY <2>1 DEF Start
  <2>4. /\ deployed \in Versions
        /\ (IF deployed = "v2" THEN "?" ELSE "no") \in {"?", "yes", "no"}
    BY <1>1 DEF Typed
  <2>5. /\ e \in Executions
        /\ e.running /\ ~e.executed /\ e.taken = 0 /\ e.version = deployed
        /\ e.patched = IF deployed = "v2" THEN "?" ELSE "no"
    BY <2>1, <2>2, <2>4 DEF Executions
  <2>. QED BY <2>3, <2>5
<1>3. /\ exec' \in [Filings -> Executions] /\ exec'[f] = e
      /\ status' \in [Filings -> {"ENQUEUED", "PENDING", "SUCCESS", "ERROR"}]
      /\ status'[f] = "PENDING"
  BY <1>1, <1>2 DEF Typed
<1>4. Typed'
  BY <1>1, <1>3 DEF Typed
<1>5. Len(history[f]) \in Nat /\ snap[f] \in FilingStates /\ deployed \in Versions
  BY <1>1 DEF Typed
<1>6. Steps(f)' = Program(snap[f], "no") /\ Len(Program(snap[f], "no")) \in 1..7
  <2>1. exec'[f].patched # "yes"
    BY <1>2, <1>3
  <2>2. Steps(f)' = Program(snap[f], "no")
    BY <1>1, <2>1 DEF Steps, Program
  <2>. QED BY <1>5, <2>2, ProgramShape
<1>7. Agrees(f)'
  <2>1. 1..exec'[f].taken = {}
    BY <1>2, <1>3
  <2>2. exec'[f].taken <= Len(history'[f]) /\ exec'[f].taken <= Len(Steps(f)')
    BY <1>1, <1>2, <1>3, <1>5, <1>6
  <2>. QED BY <2>1, <2>2 DEF Agrees
<1>8. AtEnd(f)' /\ ExecShape(f)'
  BY <1>1, <1>2, <1>3, <1>5 DEF AtEnd, ExecShape, Versions
<1>9. Follows(f)'
  <2>. SUFFICES ASSUME exec'[f].patched # "?", exec'[f].version = "v2" \/ rollbacks' = 0
                PROVE  IsPrefixOf(history'[f], Steps(f)')
    BY DEF Follows
  <2>1. deployed = "v1" /\ rollbacks = 0
    BY <1>1, <1>2, <1>3, <1>5 DEF Versions
  <2>. QED BY <1>1, <1>6, <2>1 DEF FilingFits, OnlyOldSteps
<1>10. FilingFits(f)'
  BY <1>1, <1>3, <1>7, <1>8, <1>9, HistoryKept DEF FilingFits
<1>11. OtherFilings(f)
  BY <1>1, <1>2 DEF OtherFilings, Typed
<1>. QED BY <1>4, <1>10, <1>11, OneFiling

LEMMA UnexpectedStepFails ==
  ASSUME UpgradeInv, NEW f \in Filings, UnexpectedStep(f)
  PROVE  UpgradeInv'
<1>1. /\ Typed /\ FilingFits(f) /\ AtStep(f) /\ Recorded(f)
      /\ history[f][exec[f].taken + 1] # Steps(f)[exec[f].taken + 1]
      /\ exec' = [exec EXCEPT ![f] = NotRunning]
      /\ status' = [status EXCEPT ![f] = "ERROR"]
      /\ UNCHANGED <<deployed, snap, history, effects, authors, rollbacks, crashes>>
  BY DEF UpgradeInv, UnexpectedStep, NextName
<1>2. /\ exec[f].taken \in 0..6 /\ exec[f].taken + 1 \in 1..Len(Steps(f))
      /\ exec[f].patched = "?" => exec[f].taken = 0
  BY <1>1, BeforeThePatch
<1>3. exec[f].taken + 1 \in 1..Len(history[f])
  <2>1. Len(history[f]) \in Nat /\ exec[f].taken < Len(history[f])
    BY <1>1 DEF Recorded, Typed
  <2>2. \A k, n \in Nat : k < n => k + 1 \in 1..n
    OBVIOUS
  <2>3. exec[f].taken \in Nat
    BY <1>2
  <2>. QED BY <2>1, <2>2, <2>3
<1>4. rollbacks # 0
  <2>. SUFFICES ASSUME rollbacks = 0 PROVE FALSE
    OBVIOUS
  <2>1. CASE exec[f].patched = "?"
    <3>1. PICK patched \in {"yes", "no"} : IsPrefixOf(history[f], Program(snap[f], patched))
      BY <1>1 DEF FilingFits, OneProgram
    <3>2. Program(snap[f], patched)[1] = "validate" /\ Steps(f)[1] = "validate"
      BY <1>1, ProgramShape, StepsOf DEF Typed
    <3>3. exec[f].taken + 1 = 1
      BY <1>2, <2>1
    <3>. QED BY <1>1, <1>3, <3>1, <3>2, <3>3 DEF IsPrefixOf
  <2>2. CASE exec[f].patched # "?"
    <3>1. IsPrefixOf(history[f], Steps(f))
      BY <1>1, <2>2 DEF FilingFits, Follows, AtStep
    <3>. QED BY <1>1, <1>3, <3>1 DEF IsPrefixOf
  <2>. QED BY <2>1, <2>2
<1>5. exec' \in [Filings -> Executions] /\ exec'[f] = NotRunning
  BY <1>1, NotRunningTyped DEF Typed
<1>6. Typed'
  BY <1>1, <1>5 DEF Typed
<1>7. FilingFits(f)'
  BY <1>1, <1>4, <1>5, Stopped
<1>8. OtherFilings(f)
  BY <1>1 DEF OtherFilings, Typed
<1>. QED BY <1>6, <1>7, <1>8, OneFiling

LEMMA ReturnStep ==
  ASSUME UpgradeInv, NEW f \in Filings, Returns(f)
  PROVE  UpgradeInv'
<1>1. /\ Typed /\ FilingFits(f)
      /\ exec' = [exec EXCEPT ![f] = NotRunning]
      /\ status' = [status EXCEPT ![f] = "SUCCESS"]
      /\ UNCHANGED <<deployed, snap, history, effects, authors, rollbacks, crashes>>
  BY DEF UpgradeInv, Returns
<1>2. /\ exec' \in [Filings -> Executions] /\ exec'[f] = NotRunning
      /\ status'[f] = "SUCCESS"
  BY <1>1, NotRunningTyped DEF Typed
<1>3. Typed'
  BY <1>1, <1>2 DEF Typed
<1>4. FilingFits(f)'
  BY <1>1, <1>2, Stopped
<1>5. OtherFilings(f)
  BY <1>1 DEF OtherFilings, Typed
<1>. QED BY <1>3, <1>4, <1>5, OneFiling

(* A deployment, or a crash, stops every execution. *)
LEMMA DeploymentStep ==
  ASSUME UpgradeInv, CrashWorker \/ Upgrade \/ Rollback
  PROVE  UpgradeInv'
<1>1. Typed /\ KillWorker
  BY DEF UpgradeInv, CrashWorker, Upgrade, Rollback
<1>2. /\ exec' \in [Filings -> Executions] /\ \A f \in Filings : exec'[f] = NotRunning
      /\ UNCHANGED <<snap, history, status, effects, authors>>
  BY <1>1, NotRunningTyped DEF KillWorker
<1>3. /\ deployed' \in Versions
      /\ rollbacks' \in 0..MaxRollbacks /\ crashes' \in 0..MaxCrashes
      /\ rollbacks' = 0 => rollbacks = 0
      /\ rollbacks' = 0 /\ deployed' = "v1" => deployed = "v1"
  BY <1>1, UpgradeAssumption DEF CrashWorker, Upgrade, Rollback, Typed, Versions
<1>4. Typed'
  BY <1>1, <1>2, <1>3 DEF Typed
<1>5. ASSUME NEW f \in Filings
      PROVE  FilingFits(f)'
  <2>1. FilingFits(f) /\ (rollbacks = 0 => status[f] # "ERROR")
    BY DEF UpgradeInv, FilingFits
  <2>. QED BY <1>1, <1>2, <1>3, <2>1, Stopped
<1>. QED BY <1>4, <1>5 DEF UpgradeInv

LEMMA NothingHappens ==
  ASSUME UpgradeInv, UNCHANGED upgradeVars
  PROVE  UpgradeInv'
<1>1. UNCHANGED <<deployed, snap, history, exec, status, effects, authors, rollbacks, crashes>>
  BY DEF upgradeVars
<1>2. Typed'
  BY <1>1 DEF UpgradeInv, Typed
<1>3. ASSUME NEW f \in Filings
      PROVE  FilingFits(f)'
  <2>1. FilingFits(f)
    BY DEF UpgradeInv
  <2>2. Agrees(f)' /\ AtEnd(f)' /\ ExecShape(f)'
    BY <1>1, <2>1 DEF FilingFits, Agrees, AtEnd, ExecShape, Steps, AtStep, AtPatch
  <2>3. Follows(f)' /\ OneProgram(f)' /\ OnlyOldSteps(f)'
    BY <1>1, <2>1 DEF FilingFits, Follows, OneProgram, OnlyOldSteps, Steps
  <2>4. Checked(f)' /\ NewChecked(f)'
    BY <1>1, <2>1 DEF FilingFits, Checked, NewChecked
  <2>. QED BY <1>1, <2>1, <2>2, <2>3, <2>4 DEF FilingFits
<1>. QED BY <1>2, <1>3 DEF UpgradeInv

-----------------------------------------------------------------------------
(* The theorems. *)

(* The inductive invariant: executions agree with their histories, and each *)
(* history is one build's program, whichever builds took turns on it.       *)
THEOREM UpgradeInvariance == UpgradeSpec => []UpgradeInv
<1>1. UpgradeInit => UpgradeInv
  BY UpgradeInitial
<1>2. UpgradeInv /\ [UpgradeNext]_upgradeVars => UpgradeInv'
  <2>. SUFFICES ASSUME UpgradeInv, [UpgradeNext]_upgradeVars PROVE UpgradeInv'
    OBVIOUS
  <2>1. ASSUME NEW f \in Filings, Executes(f) PROVE UpgradeInv'
    BY <2>1, StartStep, EvaluatePatchStep, ReplayStep, UnexpectedStepFails,
       ExecuteStep, CheckpointedStep, ReturnStep DEF Executes
  <2>2. CASE CrashWorker \/ Upgrade \/ Rollback
    BY <2>2, DeploymentStep
  <2>3. CASE UNCHANGED upgradeVars
    BY <2>3, NothingHappens
  <2>. QED BY <2>1, <2>2, <2>3 DEF UpgradeNext
<1>. QED BY <1>1, <1>2, PTL DEF UpgradeSpec

(* Types, and executions within their histories. *)
THEOREM UpgradeTypes == UpgradeSpec => []UpgradeTypeOK
<1>1. UpgradeInv => UpgradeTypeOK
  BY DEF UpgradeInv, Typed, FilingFits, Agrees, ExecShape, UpgradeTypeOK
<1>. QED BY <1>1, UpgradeInvariance, PTL

(* No history mixes the steps of two builds (filing.go:101). *)
THEOREM HistoriesAreOneProgram == UpgradeSpec => []HistoryIsOneProgram
<1>1. UpgradeInv => HistoryIsOneProgram
  BY DEF UpgradeInv, FilingFits, OneProgram, HistoryIsOneProgram
<1>. QED BY <1>1, UpgradeInvariance, PTL

(* Nothing is filed behind an unchecked marker, or unprepared. *)
THEOREM FiledChecked == UpgradeSpec => []NothingFiledUnchecked
<1>1. UpgradeInv => NothingFiledUnchecked
  BY DEF UpgradeInv, FilingFits, Checked, NothingFiledUnchecked
<1>. QED BY <1>1, UpgradeInvariance, PTL

(* v2 recovers every history of v1 without an unexpected step. *)
THEOREM UpgradesNeverFail == UpgradeSpec => []UpgradeNeverFails
<1>1. UpgradeInv => UpgradeNeverFails
  BY DEF UpgradeInv, FilingFits, UpgradeNeverFails
<1>. QED BY <1>1, UpgradeInvariance, PTL

(* Work begun by v2 takes the pre-check, unless a rollback lets v1 go on    *)
(* with it.                                                                 *)
THEOREM NewWorkTakesThePatch == UpgradeSpec => []NewWorkIsChecked
<1>1. UpgradeInv => NewWorkIsChecked
  BY DEF UpgradeInv, FilingFits, NewChecked, NewWorkIsChecked
<1>. QED BY <1>1, UpgradeInvariance, PTL
=============================================================================
