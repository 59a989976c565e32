---------------------------- MODULE MCEpisodeRun ----------------------------
(***************************************************************************)
(* TLC instances of EpisodeRun.  Ids of one kind are interchangeable.      *)
(***************************************************************************)
EXTENDS EpisodeRun, TLC

Symmetry == Permutations(Episodes) \cup Permutations(Calls) \cup Permutations(Moves)
=============================================================================
