----------------------------- MODULE MC_Storefront -----------------------------
(* Two requests at a time of one customer, for a product with one or two units. *)
EXTENDS Storefront, TLC

CONSTANTS c1, p1, s1, s2

TwoUnits == [p \in Products |-> 2]
AnySession == Permutations(Sessions)
===============================================================================
