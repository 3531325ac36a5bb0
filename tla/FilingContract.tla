--------------------------- MODULE FilingContract ---------------------------
(***************************************************************************)
(* What filing promises, with the machinery taken away: docs/              *)
(* PROOF_CONTRACT.md's external-effect contract as the code keeps it.      *)
(* book is what Accountable says of a filing, effect what the authority    *)
(* says of its operation, and asserted what operators have said.  There is *)
(* no workflow, request, checkpoint or crash here: FilingWorkflow          *)
(* implements this specification.                                          *)
(***************************************************************************)
CONSTANTS Filings, Outcomes

VARIABLES book, effect, asserted

contractVars == <<book, effect, asserted>>

Final == {"accepted", "rejected"}

ContractInit ==
  /\ book = [f \in Filings |-> "absent"]
  /\ effect = [f \in Filings |-> "not_found"]
  /\ asserted = [f \in Filings |-> {}]

Enter(f) ==
  /\ book[f] = "absent"
  /\ book' = [book EXCEPT ![f] = "ready"]
  /\ UNCHANGED <<effect, asserted>>

Intend(f) ==
  /\ book[f] = "ready"
  /\ book' = [book EXCEPT ![f] = "submitting"]
  /\ UNCHANGED <<effect, asserted>>

(* The external effect: at most once, and only after the intent is booked. *)
File(f) ==
  /\ book[f] \notin {"absent", "ready"}
  /\ effect[f] = "not_found"
  /\ \E e \in {"processing", "rejected"} : effect' = [effect EXCEPT ![f] = e]
  /\ UNCHANGED <<book, asserted>>

Decide(f) ==
  /\ effect[f] = "processing"
  /\ effect' = [effect EXCEPT ![f] = "accepted"]
  /\ UNCHANGED <<book, asserted>>

Assert(f, outcome) ==
  /\ asserted' = [asserted EXCEPT ![f] = @ \cup {outcome}]
  /\ UNCHANGED <<book, effect>>

MarkSubmitted(f) ==
  /\ book[f] = "submitting"
  /\ book' = [book EXCEPT ![f] = "submitted"]
  /\ UNCHANGED <<effect, asserted>>

Review(f) ==
  /\ book[f] \in {"submitting", "submitted"}
  /\ book' = [book EXCEPT ![f] = "needs_review"]
  /\ UNCHANGED <<effect, asserted>>

(* An outcome is booked once, and only one somebody vouches for. *)
Finalise(f, outcome) ==
  /\ book[f] \in {"submitting", "submitted", "needs_review"}
  /\ outcome \in Final
  /\ effect[f] = outcome \/ outcome \in asserted[f]
  /\ book' = [book EXCEPT ![f] = outcome]
  /\ UNCHANGED <<effect, asserted>>

ContractNext ==
  \E f \in Filings :
    \/ Enter(f) \/ Intend(f) \/ File(f) \/ Decide(f)
    \/ MarkSubmitted(f) \/ Review(f)
    \/ \E outcome \in Outcomes : Assert(f, outcome)
    \/ \E outcome \in Final : Finalise(f, outcome)

ContractSpec == ContractInit /\ [][ContractNext]_contractVars
=============================================================================
