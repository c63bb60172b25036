---------------------------- MODULE MCSierraOrders ----------------------------
(* The trade functions on three broker ids, so that an OCO pair can be       *)
(* placed beside another order, and on quantities that can fill in part.     *)
EXTENDS SierraOrders, TLC

Symmetry == Permutations(OrderIds)
=============================================================================
