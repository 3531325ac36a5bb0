---------------------------- MODULE PatchUpgrade ----------------------------
(***************************************************************************)
(* The code upgrade of the filing workflow (internal/workflow/filing.go,   *)
(* the v2 patch): workers built as v1 or v2 recover each other's           *)
(* histories under one application version, and dbos.Patch decides for     *)
(* each history whether the new risk pre-check belongs in it.              *)
(*                                                                         *)
(* A history is the names of the checkpointed steps.  An execution takes   *)
(* its steps from the top: what is recorded is replayed, what is not is    *)
(* executed and then checkpointed.                                         *)
(***************************************************************************)
EXTENDS Domain, Sequences

CONSTANTS MaxRollbacks,   \* bounds: returns of the deployment to v1
          MaxCrashes

VARIABLES deployed,   \* the version of the worker binary that is deployed
          snap,       \* filing -> what its validate step reads
          history,    \* filing -> its recorded steps
          exec,       \* filing -> its execution
          status,     \* filing -> the status of its workflow row
          effects,    \* history: filing -> the steps that took effect
          authors,    \* history: filing -> the version of each recorded step
          rollbacks, crashes   \* counters for the bounds

upgradeVars == <<deployed, snap, history, exec, status, effects, authors,
                 rollbacks, crashes>>

ASSUME UpgradeAssumption == MaxRollbacks \in Nat /\ MaxCrashes \in Nat

Versions == {"v1", "v2"}
Marker == "DBOS.patch-v2-risk-precheck"
StepNames == {"validate", Marker, "riskPrecheck", "prepare", "findExisting",
              "submit", "record"}

(* The steps of a filing up to its outcome, along its shortest path: a      *)
(* ready filing is prepared, a final one is not replayed.                   *)
Program(state, patched) ==
  IF state \in FinalStates THEN <<"validate">>
  ELSE <<"validate">>
         \o (IF patched = "yes" THEN <<Marker, "riskPrecheck">> ELSE <<>>)
         \o (IF state = "ready" THEN <<"prepare">> ELSE <<>>)
         \o <<"findExisting", "submit", "record">>

(* taken counts the steps replayed or checkpointed by this execution;       *)
(* patched is "?" until Patch was evaluated; executed, that the next step   *)
(* took effect and has no checkpoint yet.                                   *)
NotRunning == [running |-> FALSE, version |-> "v1", taken |-> 0,
               patched |-> "no", executed |-> FALSE]

UpgradeInit ==
  /\ deployed = "v1"
  /\ snap \in [Filings -> {"ready", "submitting", "accepted"}]
  /\ history = [f \in Filings |-> <<>>]
  /\ exec = [f \in Filings |-> NotRunning]
  /\ status = [f \in Filings |-> "ENQUEUED"]
  /\ effects = [f \in Filings |-> {}]
  /\ authors = [f \in Filings |-> <<>>]
  /\ rollbacks = 0 /\ crashes = 0

-----------------------------------------------------------------------------
Steps(f) == Program(snap[f], exec[f].patched)
NextName(f) == Steps(f)[exec[f].taken + 1]

(* The filing switch comes before the patch: a final filing returns first. *)
AtPatch(f) ==
  exec[f].taken = 1 /\ exec[f].patched = "?" /\ snap[f] \notin FinalStates

AtStep(f) ==
  exec[f].running /\ ~AtPatch(f) /\ exec[f].taken < Len(Steps(f))
Recorded(f) == exec[f].taken < Len(history[f])

Start(f) ==
  /\ status[f] \in {"ENQUEUED", "PENDING"} /\ ~exec[f].running
  /\ status' = [status EXCEPT ![f] = "PENDING"]
  /\ exec' = [exec EXCEPT ![f] =
       [running |-> TRUE, version |-> deployed, taken |-> 0, executed |-> FALSE,
        patched |-> IF deployed = "v2" THEN "?" ELSE "no"]]
  /\ UNCHANGED <<deployed, snap, history, effects, authors, rollbacks, crashes>>

Append1(f, name) ==
  /\ history' = [history EXCEPT ![f] = Append(@, name)]
  /\ authors' = [authors EXCEPT ![f] = Append(@, exec[f].version)]

(* Seeded faults: the new step is taken in every history, or without        *)
(* recording it.                                                            *)
EvaluatePatchAlways(f) ==
  /\ exec[f].running /\ AtPatch(f)
  /\ IF Recorded(f) THEN UNCHANGED <<history, authors>> ELSE Append1(f, Marker)
  /\ exec' = [exec EXCEPT ![f].patched = "yes", ![f].taken = 2]
  /\ UNCHANGED <<deployed, snap, status, effects, rollbacks, crashes>>

EvaluatePatchUnrecorded(f) ==
  /\ exec[f].running /\ AtPatch(f)
  /\ exec' = [exec EXCEPT ![f].patched = "yes", ![f].taken = 2]
  /\ UNCHANGED <<deployed, snap, history, authors, status, effects, rollbacks, crashes>>

(* dbos.Patch: where the history goes on with the marker the patch is on;   *)
(* where it ends the marker is recorded; where it goes on otherwise the     *)
(* patch is off and uses up no step.                                        *)
EvaluatePatch(f) ==
  /\ exec[f].running /\ AtPatch(f)
  /\ \/ /\ ~Recorded(f) /\ Append1(f, Marker)
        /\ exec' = [exec EXCEPT ![f].patched = "yes", ![f].taken = 2]
     \/ /\ Recorded(f) /\ history[f][2] = Marker
        /\ exec' = [exec EXCEPT ![f].patched = "yes", ![f].taken = 2]
        /\ UNCHANGED <<history, authors>>
     \/ /\ Recorded(f) /\ history[f][2] # Marker
        /\ exec' = [exec EXCEPT ![f].patched = "no"]
        /\ UNCHANGED <<history, authors>>
  /\ UNCHANGED <<deployed, snap, status, effects, rollbacks, crashes>>

(* A recorded step answers from its checkpoint. *)
Replay(f) ==
  /\ AtStep(f) /\ Recorded(f) /\ history[f][exec[f].taken + 1] = NextName(f)
  /\ exec' = [exec EXCEPT ![f].taken = @ + 1]
  /\ UNCHANGED <<deployed, snap, history, status, effects, authors, rollbacks, crashes>>

(* Seeded fault: the name of the recorded step is not compared. *)
UnexpectedStepIgnored(f) ==
  /\ AtStep(f) /\ Recorded(f) /\ history[f][exec[f].taken + 1] # NextName(f)
  /\ exec' = [exec EXCEPT ![f].taken = @ + 1]
  /\ UNCHANGED <<deployed, snap, history, status, effects, authors, rollbacks, crashes>>

(* One recorded under another name fails the workflow. *)
UnexpectedStep(f) ==
  /\ AtStep(f) /\ Recorded(f) /\ history[f][exec[f].taken + 1] # NextName(f)
  /\ exec' = [exec EXCEPT ![f] = NotRunning]
  /\ status' = [status EXCEPT ![f] = "ERROR"]
  /\ UNCHANGED <<deployed, snap, history, effects, authors, rollbacks, crashes>>

Execute(f) ==
  /\ AtStep(f) /\ ~Recorded(f) /\ ~exec[f].executed
  /\ effects' = [effects EXCEPT ![f] = @ \cup {NextName(f)}]
  /\ exec' = [exec EXCEPT ![f].executed = TRUE]
  /\ UNCHANGED <<deployed, snap, history, status, authors, rollbacks, crashes>>

CheckpointStep(f) ==
  /\ AtStep(f) /\ exec[f].executed
  /\ Append1(f, NextName(f))
  /\ exec' = [exec EXCEPT ![f].executed = FALSE, ![f].taken = @ + 1]
  /\ UNCHANGED <<deployed, snap, status, effects, rollbacks, crashes>>

Returns(f) ==
  /\ exec[f].running /\ ~AtPatch(f) /\ exec[f].taken = Len(Steps(f))
  /\ exec' = [exec EXCEPT ![f] = NotRunning]
  /\ status' = [status EXCEPT ![f] = "SUCCESS"]
  /\ UNCHANGED <<deployed, snap, history, effects, authors, rollbacks, crashes>>

(* The worker is killed, by a fault or to deploy another build; an          *)
(* execution is recovered from its history by the build deployed then.      *)
KillWorker ==
  /\ exec' = [f \in Filings |-> NotRunning]
  /\ UNCHANGED <<snap, history, status, effects, authors>>

CrashWorker ==
  /\ crashes < MaxCrashes /\ crashes' = crashes + 1
  /\ KillWorker /\ UNCHANGED <<deployed, rollbacks>>

Upgrade ==
  /\ deployed = "v1" /\ deployed' = "v2"
  /\ KillWorker /\ UNCHANGED <<rollbacks, crashes>>

Rollback ==
  /\ deployed = "v2" /\ rollbacks < MaxRollbacks
  /\ deployed' = "v1" /\ rollbacks' = rollbacks + 1
  /\ KillWorker /\ UNCHANGED crashes

Executes(f) ==
  \/ Start(f) \/ EvaluatePatch(f) \/ Replay(f) \/ UnexpectedStep(f)
  \/ Execute(f) \/ CheckpointStep(f) \/ Returns(f)

UpgradeNext ==
  \/ \E f \in Filings : Executes(f)
  \/ CrashWorker \/ Upgrade \/ Rollback

UpgradeSpec == UpgradeInit /\ [][UpgradeNext]_upgradeVars

(* A dead worker is restarted and its executions are scheduled. *)
UpgradeFairSpec == UpgradeSpec /\ \A f \in Filings : WF_upgradeVars(Executes(f))

-----------------------------------------------------------------------------
(* Properties *)

Executions == [running : BOOLEAN, version : Versions, taken : 0..7,
               patched : {"?", "yes", "no"}, executed : BOOLEAN]

(* Every variable has its type, and an execution is within its history. *)
UpgradeTypeOK ==
  /\ deployed \in Versions
  /\ snap \in [Filings -> FilingStates]
  /\ history \in [Filings -> Seq(StepNames)] /\ authors \in [Filings -> Seq(Versions)]
  /\ exec \in [Filings -> Executions]
  /\ \A f \in Filings :
       /\ Len(authors[f]) = Len(history[f])
       /\ exec[f].taken <= Len(history[f]) /\ exec[f].taken <= Len(Steps(f))
       /\ exec[f].running => status[f] = "PENDING"
  /\ status \in [Filings -> {"ENQUEUED", "PENDING", "SUCCESS", "ERROR"}]
  /\ effects \in [Filings -> SUBSET StepNames]
  /\ rollbacks \in 0..MaxRollbacks /\ crashes \in 0..MaxCrashes

IsPrefixOf(s, t) == Len(s) <= Len(t) /\ \A i \in 1..Len(s) : s[i] = t[i]

(* Whatever builds took turns on it, by upgrades, rollbacks and crashes     *)
(* between any two steps, a history is a prefix of what one of the builds   *)
(* does alone: the builds' steps never mix (filing.go:101).                 *)
HistoryIsOneProgram ==
  \A f \in Filings : \E patched \in {"yes", "no"} :
    IsPrefixOf(history[f], Program(snap[f], patched))

(* The pre-check guards new work: nothing is filed out of a history that    *)
(* has the marker before the pre-check is recorded, and no filing is        *)
(* submitted unprepared, even where a v1 build finds a v2 history.          *)
NothingFiledUnchecked ==
  \A f \in Filings : "submit" \in effects[f] =>
    /\ \A i \in 1..Len(history[f]) :
         history[f][i] = Marker => i + 1 <= Len(history[f]) /\ history[f][i+1] = "riskPrecheck"
    /\ snap[f] = "ready" => \E i \in 1..Len(history[f]) : history[f][i] = "prepare"

(* v2 recovers every v1 history: without a rollback no execution meets a    *)
(* step it does not expect.                                                 *)
UpgradeNeverFails ==
  rollbacks = 0 => \A f \in Filings : status[f] # "ERROR"

(* Work that began under v2 takes the patch path                            *)
(* (docs/PROOF_CONTRACT.md:33, "newly started work"), as long as no         *)
(* deployment was rolled back: a v1 build may go on where v2 stopped.       *)
NewWorkIsChecked ==
  \A f \in Filings :
    Len(history[f]) > 1 /\ authors[f][1] = "v2" /\ rollbacks = 0
      => history[f][2] = Marker

(* Every filing's workflow completes across crashes and the upgrade; only a *)
(* rollback can make it fail.                                               *)
UpgradeCompletes ==
  \A f \in Filings :
    <>(status[f] = "SUCCESS" \/ (status[f] = "ERROR" /\ rollbacks > 0))
=============================================================================
