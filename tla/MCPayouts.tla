------------------------------ MODULE MCPayouts ------------------------------
(***************************************************************************)
(* TLC instance of Payouts.                                                *)
(***************************************************************************)
EXTENDS Payouts, TLC

\* Viewers, threads and browsers are interchangeable.
Symmetry == Permutations(Viewers) \cup Permutations(Threads) \cup Permutations(Devices)
=============================================================================
