------------------------------ MODULE MCOrders ------------------------------
(***************************************************************************)
(* A small account: positions of at most MaxLots, so that a partial fill   *)
(* and a position beyond the ceiling both fit.                             *)
(***************************************************************************)
EXTENDS Orders

CONSTANT sber
=============================================================================
