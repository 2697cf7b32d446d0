----------------------------- MODULE MCPollTally -----------------------------
(***************************************************************************)
(* TLC instance of PollCount.                                              *)
(***************************************************************************)
EXTENDS PollCount, TLC

Symmetry == Permutations(Voters) \cup Permutations(Options)
=============================================================================
