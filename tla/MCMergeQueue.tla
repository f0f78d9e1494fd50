---------------------------- MODULE MCMergeQueue ----------------------------
(* MergeQueue for TLC: callers and pull requests are interchangeable. *)
EXTENDS MergeQueue, TLC

Symmetry == Permutations(Calls) \cup Permutations(Prs)
=============================================================================
