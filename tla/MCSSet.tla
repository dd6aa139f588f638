------------------------------- MODULE MCSSet -------------------------------
(* SSet with interchangeable values and transactions, for TLC. *)
EXTENDS SSet

Alike == Permutations(Vals) \cup Permutations(Txns)
=============================================================================
