--------------------------- MODULE MCLockFreeQueue ---------------------------
(* Instance of LockFreeQueue for TLC: the cursors wrap within the run. *)
EXTENDS LockFreeQueue, TLC

Symmetry == Permutations(Producers) \cup Permutations(Consumers) \cup Permutations(Item)
=============================================================================
