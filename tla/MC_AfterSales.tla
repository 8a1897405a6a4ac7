---------------------------- MODULE MC_AfterSales -----------------------------
(* Small instances of AfterSales: the Stripe events of s1 are two successes     *)
(* (the session's and the payment intent's) and a failure, those of s2 a       *)
(* success of the wrong amount, a failure and a success, in any order.         *)
EXTENDS AfterSales, TLC

CONSTANTS w1, w2, q1, q2

AnySessionOrOrder == Permutations({q1, q2}) \cup Permutations({w1, w2})

WebOrStripe == {{w1, w2}, {"s1", "s2"}}

StripeEvents == {[id |-> 1, type |-> "success", order |-> "s1", amount |-> Price],
                 [id |-> 2, type |-> "success", order |-> "s1", amount |-> Price],
                 [id |-> 3, type |-> "failure", order |-> "s1", amount |-> 0],
                 [id |-> 4, type |-> "success", order |-> "s2", amount |-> Price + 1],
                 [id |-> 5, type |-> "failure", order |-> "s2", amount |-> 0],
                 [id |-> 6, type |-> "success", order |-> "s2", amount |-> Price]}
===============================================================================
