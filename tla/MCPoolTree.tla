----------------------------- MODULE MCPoolTree -----------------------------
(* The instance of PoolTree that TLC checks. *)
EXTENDS PoolTree, TLC

(* Threads are interchangeable. *)
Symmetry == Permutations(Threads)
=============================================================================
