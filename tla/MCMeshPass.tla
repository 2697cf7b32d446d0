------------------------------ MODULE MCMeshPass ------------------------------
(***************************************************************************)
(* TLC instances of MeshPass. In MCMeshPass.cfg one profile buys, hosts    *)
(* two nodes and binds two devices where one is allowed; in MCMeshSpeed.cfg*)
(* two profiles want the same device, one of them hosts the terminator and *)
(* the other one's pass lapses.                                            *)
(***************************************************************************)
EXTENDS MeshPass, TLC

CONSTANTS p1, p2

BuyerOf == [i \in Invoices |-> p1]
OwnerOf == [n \in Nodes |-> p1]
NoneGranted == [p \in Profiles |-> 0]
DayGranted == [p \in Profiles |-> 1]
Symmetry == Permutations(Handlers) \cup Permutations(Macs)
=============================================================================
