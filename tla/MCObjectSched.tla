-------------------------- MODULE MCObjectSched --------------------------
(* ObjectSched on small sets of tasks, for TLC. *)
EXTENDS ObjectSched, TLC

\* Two tasks of a kind are interchangeable.
TaskSymmetry == Permutations(Readers) \cup Permutations(Writers)
                  \cup Permutations(Txns)
=============================================================================
