--------------------------- MODULE MCAccountable ---------------------------
(* A small instance of Accountable for TLC: two filings, so that one can    *)
(* ask for the operation of the other, and two details, so that a key can   *)
(* be reused for a different request.                                       *)
EXTENDS Accountable, TLC

CONSTANTS f1, f2

MCFilings == {f1, f2}
MCSymmetry == Permutations(MCFilings)
=============================================================================
