---------------------------- MODULE MC_Procurement ----------------------------
(* Two RFQs over one stocked and one dropshipped product.                      *)
EXTENDS Procurement, TLC

CONSTANTS s1, s2, r1, r2

AnySessionOrRfq == Permutations({s1, s2}) \cup Permutations({r1, r2})

Warehouse == [p \in Products |-> IF p = "local" THEN 2 ELSE 0]
Prices    == [p \in Products |-> IF p = "local" THEN {2, 4} ELSE {4}]
Baskets   == {[p \in Products |-> IF p = "local" THEN 2 ELSE 0],
              [p \in Products |-> 1]}
Pricelist == {[product |-> "any", min_quantity |-> 1, discount |-> 50],
              [product |-> "local", min_quantity |-> 2, discount |-> 25]}
===============================================================================
