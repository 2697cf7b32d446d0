---------------------------- MODULE MCGuestGateway ----------------------------
(***************************************************************************)
(* TLC instance of GuestGateway.                                           *)
(***************************************************************************)
EXTENDS GuestGateway
=============================================================================
