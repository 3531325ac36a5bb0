---------------------------- MODULE MCEventStarts ----------------------------
(* Small instances of EventStarts for TLC: one filing, and two events that   *)
(* conflict about it.                                                        *)
EXTENDS EventStarts, TLC

CONSTANTS f1

OneFiling == {f1}

FirstEvent  == [id |-> <<"evt", 1>>, filing |-> f1, scenario |-> "ok"]
SecondEvent == [id |-> <<"evt", 2>>, filing |-> f1, scenario |-> "reject"]

ConflictingEvents == {FirstEvent, SecondEvent}

OnePartition == [f \in Filings |-> 1]
=============================================================================
