------------------------------- MODULE MCPolls -------------------------------
(***************************************************************************)
(* TLC instance of Polls.                                                  *)
(***************************************************************************)
EXTENDS Polls, TLC

\* Profiles and request handlers are interchangeable in every property checked.
Symmetry == Permutations(Voters) \cup Permutations(Requests)
=============================================================================
