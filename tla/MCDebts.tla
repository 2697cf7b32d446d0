------------------------------- MODULE MCDebts -------------------------------
(***************************************************************************)
(* TLC instance of Debts.                                                  *)
(***************************************************************************)
EXTENDS Debts, TLC

\* Request threads are interchangeable.
Symmetry == Permutations(Handlers)
=============================================================================
