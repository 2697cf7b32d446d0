----------------------------- MODULE MCShipments -----------------------------
(***************************************************************************)
(* TLC instance of Shipments.                                              *)
(***************************************************************************)
EXTENDS Shipments, TLC
=============================================================================
