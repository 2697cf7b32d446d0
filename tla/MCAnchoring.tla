----------------------------- MODULE MCAnchoring -----------------------------
(***************************************************************************)
(* TLC instance of Anchoring: each proof has a file of its own.            *)
(***************************************************************************)
EXTENDS Anchoring

OwnFile == [p \in 1 .. N |-> p]
=============================================================================
