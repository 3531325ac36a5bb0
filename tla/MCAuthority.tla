----------------------------- MODULE MCAuthority -----------------------------
(* Small instances of Authority for TLC.  Two operations, because the whole *)
(* ledger is one row: the write for one operation rewrites the other.       *)
EXTENDS Authority, TLC

CONSTANTS f1, f2

MCFilings == {f1, f2}
MCSymmetry == Permutations(MCFilings)
=============================================================================
