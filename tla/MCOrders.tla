------------------------------ MODULE MCOrders ------------------------------
(***************************************************************************)
(* Instances of Orders for TLC.  Requests are interchangeable.             *)
(***************************************************************************)
EXTENDS Orders, TLC

Symmetry == Permutations(Requests)
=============================================================================
