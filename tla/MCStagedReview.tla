---------------------------- MODULE MCStagedReview ----------------------------
(* TLC: the requests in progress are interchangeable. *)
EXTENDS StagedReview, TLC

Symmetry == Permutations(Threads)
=============================================================================
