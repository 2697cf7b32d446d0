----------------------------- MODULE MCCivicPoll -----------------------------
(***************************************************************************)
(* TLC instance of CivicPoll.                                              *)
(***************************************************************************)
EXTENDS CivicPoll, TLC

\* Profiles, options and threads are interchangeable in every property checked.
Symmetry == Permutations(Voters) \cup Permutations(Options) \cup Permutations(Workers)
=============================================================================
