----------------------------- MODULE MC_Inventory ------------------------------
(* Two orders compete for the first unit; Odoo may receive one more. *)
EXTENDS Inventory

CONSTANTS o1, o2

TwoOrders   == {o1, o2}
OneUnitEach == [o \in Orders |-> 1]
Mixed       == [o \in Orders |-> IF o = o1 THEN 1 ELSE 2]
===============================================================================
