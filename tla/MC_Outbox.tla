------------------------------ MODULE MC_Outbox -------------------------------
(* Three events: one with a route, one that came from Odoo and is not echoed, *)
(* one whose payload is malformed.                                            *)
EXTENDS Outbox

CONSTANTS order, echo, malformed, w1, w2

MCEvents  == {order, echo, malformed}
MCWorkers == {w1, w2}

MCEventType == [e \in MCEvents |->
    CASE e = order -> "OrderCreated"
      [] e = echo -> "OrderConfirmed"
      [] OTHER -> "ProductUpdated"]
MCSourceContext == [e \in MCEvents |-> IF e = order THEN "application" ELSE "odoo"]
MCValidPayload  == [e \in MCEvents |-> e # malformed]
===============================================================================
