------------------------------ MODULE AfterSales ------------------------------
(***************************************************************************)
(* What happens around an order besides its fulfilment: loyalty points     *)
(* spent on it, the card payments of orders that still carry a Stripe      *)
(* session, and the warranty claims of completed orders.                   *)
(*                                                                         *)
(* A redemption locks the customer's row and reads the order without a     *)
(* lock; a claim and its review lock nothing.  Begin reads, Finish writes. *)
(* A Stripe event locks its order and is one step with its receipt.        *)
(* Amounts are in units of one redemption step, shipping and tax follow    *)
(* from the subtotal and are left out.                                     *)
(***************************************************************************)
EXTENDS Integers, Sequences, FiniteSets, FiniteSetsExt

CONSTANTS
    WebOrders,      \* orders with a Paymob attempt, all of one customer
    StripeOrders,   \* orders placed when checkout still opened a Stripe session
    Placed,         \* the sets of orders that may be there at the start
    Price,          \* amount_subtotal at checkout
    OpeningPoints,  \* balance of the ledger at the start
    Events,         \* Stripe events: [id, type, order, amount]
    LocalStock,     \* stock_qty of the one product, each Stripe order holds a unit
    MaxClaims,      \* bound on the tickets ever inserted
    MaxLedger,      \* bound on the entries ever appended
    Sessions        \* requests in flight at once

ASSUME AfterSalesAssumption ==
    /\ WebOrders \cap StripeOrders = {} /\ Placed \subseteq SUBSET (WebOrders \cup StripeOrders)
    /\ "none" \notin WebOrders /\ IsFiniteSet(StripeOrders)
    /\ Price \in Nat /\ OpeningPoints \in Nat /\ LocalStock \in Nat
    /\ MaxClaims \in Nat /\ MaxLedger \in Nat \ {0}
    /\ \A e \in Events : e.order \in StripeOrders /\ e.type \in {"success", "failure"}

ClaimIds == 1..MaxClaims

VARIABLES
    orders,     \* sale_order, with its fulfilment status and reservation row
    collected,  \* history: what the provider has taken for the order
    ledger,     \* elitedom_loyalty_ledger
    stock,      \* ProductTemplate.stock_qty
    sold,       \* history: units other checkouts took
    receipts,   \* elitedom_stripe_webhook_event
    claims,     \* elitedom_rma_ticket
    sess,       \* the requests in flight and what each has read
    contested   \* history: orders with two warranty requests on the line in flight, or both a
                \* Stripe failure and a cancellation by staff

afterSalesVars == <<orders, collected, ledger, stock, sold, receipts, claims, sess, contested>>
stripeVars == <<stock, sold, receipts>>

Orders == DOMAIN orders
Web    == WebOrders \cap Orders
Stripe == StripeOrders \cap Orders

NoRequest == [op |-> "none"]
NoClaim   == [order |-> "none", status |-> "none"]

AfterSalesInit ==
    /\ \E placed \in Placed : orders = [o \in placed |->
         [state |-> "draft", payment |-> "pending", subtotal |-> Price,
          lifecycle |-> "payment_pending", released |-> FALSE, reservation |-> "reserved"]]
    /\ collected = [o \in Orders |-> 0]
    /\ ledger = <<[delta |-> OpeningPoints, type |-> "purchase_earn", order |-> "none"]>>
    /\ stock = LocalStock /\ sold = 0
    /\ receipts = {}
    /\ claims = [i \in ClaimIds |-> NoClaim]
    /\ sess = [s \in Sessions |-> NoRequest]
    /\ contested = {}

Commit(s) == sess' = [sess EXCEPT ![s] = NoRequest]

Entries(type, o) == {i \in DOMAIN ledger : ledger[i].type = type /\ ledger[i].order = o}
Append1(delta, type, o) ==
    /\ Len(ledger) < MaxLedger
    /\ ledger' = Append(ledger, [delta |-> delta, type |-> type, order |-> o])

\* The sum the database takes over the customer's rows, in no order.
total_points == MapThenSumSet(LAMBDA i : ledger[i].delta, DOMAIN ledger)
get_balance  == IF total_points > 0 THEN total_points ELSE 0

-------------------------------------------------------------------------------
(* Loyalty.  A definition named faulty_* is no part of the code: it is the one *)
(* after it with a plausible slip, used to see that the properties notice.     *)

\* The customer's row is locked from the first read to the commit.
PartnerLocked == \E s \in Sessions : sess[s].op = "redeem"

Redeemable(o) == /\ o \in Web
                 /\ orders[o].state \in {"draft", "sent"}
                 /\ orders[o].payment = "pending"

Refused(o, points) == \/ ~Redeemable(o)
                      \/ Entries("order_redemption", o) # {}
                      \/ get_balance < points
                      \/ points > orders[o].subtotal

faulty_BeginRedeem(s, o, points) ==
    /\ sess[s] = NoRequest
    /\ ~Refused(o, points)
    /\ sess' = [sess EXCEPT ![s] = [op |-> "redeem", order |-> o, points |-> points,
                                    subtotal |-> orders[o].subtotal]]
    /\ UNCHANGED <<orders, collected, ledger, claims, contested, stripeVars>>

BeginRedeem(s, o, points) ==
    /\ sess[s] = NoRequest /\ ~PartnerLocked
    /\ ~Refused(o, points)
    /\ sess' = [sess EXCEPT ![s] = [op |-> "redeem", order |-> o, points |-> points,
                                    subtotal |-> orders[o].subtotal]]
    /\ UNCHANGED <<orders, collected, ledger, claims, contested, stripeVars>>

\* The order may have been paid or cancelled since it was read.
redeem_for_order(s) ==
    /\ sess[s].op = "redeem"
    /\ LET r == sess[s] IN
       /\ orders' = [orders EXCEPT ![r.order].subtotal = r.subtotal - r.points]
       /\ Append1(-r.points, "order_redemption", r.order)
    /\ Commit(s)
    /\ UNCHANGED <<collected, claims, contested, stripeVars>>

\* The voucher of an internal caller: it has no order.
redeem_points(points) ==
    /\ ~PartnerLocked
    /\ get_balance >= points
    /\ Append1(-points, "order_redemption", "none")
    /\ UNCHANGED <<orders, collected, claims, sess, contested, stripeVars>>

\* No route or task of the repository awards points: the caller is outside.
earn_points_for_order(o) ==
    /\ orders[o].state = "done" /\ orders[o].payment = "paid"
    /\ Entries("purchase_earn", o) = {}
    /\ Append1(1, "purchase_earn", o)
    /\ UNCHANGED <<orders, collected, claims, sess, contested, stripeVars>>

-------------------------------------------------------------------------------
(* The Paymob result and the completion of a web order, as far as loyalty and  *)
(* warranty see them (OrderLifecycle has the whole handlers).                  *)

\* The attempt keeps the amount checkout computed.
PaymobSucceeded(o) ==
    /\ o \in Web
    /\ orders[o].payment \notin {"paid", "refunded", "refund_requested"}
    /\ collected' = [collected EXCEPT ![o] = Price]
    /\ orders' = [orders EXCEPT ![o] =
         IF @.lifecycle = "cancelled" THEN [@ EXCEPT !.payment = "refund_requested"]
         ELSE [@ EXCEPT !.payment = "paid", !.state = "sale", !.lifecycle = "confirmed"]]
    /\ UNCHANGED <<ledger, claims, sess, contested, stripeVars>>

PaymobFailed(o) ==
    /\ o \in Web /\ orders[o].payment = "pending" /\ orders[o].state # "cancel"
    /\ orders' = [orders EXCEPT ![o] = [@ EXCEPT !.payment = "failed", !.state = "cancel",
                                                 !.lifecycle = "payment_failed"]]
    /\ UNCHANGED <<collected, ledger, claims, sess, contested, stripeVars>>

Complete(o) ==
    /\ o \in Web /\ orders[o].lifecycle = "confirmed"
    /\ orders' = [orders EXCEPT ![o] = [@ EXCEPT !.state = "done", !.lifecycle = "delivered"]]
    /\ UNCHANGED <<collected, ledger, claims, sess, contested, stripeVars>>

-------------------------------------------------------------------------------
(* Cancellation, and the Stripe events of older orders.  Their units were      *)
(* backfilled as reservations when fulfilment got its tables.                  *)

Holding(o) == orders[o].reservation = "reserved"

Race(o) == contested' = contested \cup {o}

\* OrderCancellationService.cancel.  The points spent on the order stay spent.
cancel(o) ==
    /\ orders[o].lifecycle \notin {"cancelled", "payment_failed", "delivered"}
    /\ orders' = [orders EXCEPT ![o] =
         [@ EXCEPT !.state = "cancel", !.lifecycle = "cancelled",
                   !.released = TRUE, !.reservation = "released",
                   !.payment = IF orders[o].payment = "paid" THEN "refund_requested"
                               ELSE orders[o].payment]]
    /\ stock' = IF o \in Stripe /\ Holding(o) THEN stock + 1 ELSE stock
    /\ IF o \in Stripe /\ orders[o].released THEN Race(o) ELSE UNCHANGED contested
    /\ UNCHANGED <<collected, ledger, claims, sess, sold, receipts>>

\* The unit another customer's checkout takes.
Sell ==
    /\ stock >= 1
    /\ stock' = stock - 1 /\ sold' = sold + 1
    /\ UNCHANGED <<orders, collected, ledger, claims, sess, contested, receipts>>

\* A second delivery of an event finds its receipt; a raised error leaves none.
_register_event(e) == e.id \notin receipts /\ receipts' = receipts \cup {e.id}

_mark_payment_succeeded(e) ==
    LET o == e.order
        q == orders[o] IN
    IF q.payment \in {"refunded", "paid"} THEN UNCHANGED <<orders, collected, stock>>
    ELSE /\ q.released => stock >= 1
         /\ stock' = IF q.released THEN stock - 1 ELSE stock
         /\ collected' = [collected EXCEPT ![o] = e.amount]
         /\ orders' = [orders EXCEPT ![o] =
              [@ EXCEPT !.payment = "paid", !.released = FALSE,
                        !.state = IF q.state \in {"draft", "sent", "cancel"} THEN "sale"
                                  ELSE q.state]]

\* The units go back on sale; the reservation row is left as it was.
_release_order_stock == stock' = stock + 1

faulty_mark_payment_failed(e) ==
    LET o == e.order
        q == orders[o] IN
    /\ UNCHANGED collected
    /\ IF q.payment \in {"paid", "refunded", "failed"}
       THEN UNCHANGED <<orders, stock>>
       ELSE /\ orders' = [orders EXCEPT ![o] = [@ EXCEPT !.payment = "failed",
                                                !.state = "cancel", !.released = TRUE]]
            /\ _release_order_stock

_mark_payment_failed(e) ==
    LET o == e.order
        q == orders[o] IN
    /\ UNCHANGED collected
    /\ IF q.payment \in {"paid", "refunded", "failed"} \/ q.released
       THEN UNCHANGED <<orders, stock>>
       ELSE /\ orders' = [orders EXCEPT ![o] = [@ EXCEPT !.payment = "failed",
                                                !.state = "cancel", !.released = TRUE]]
            /\ _release_order_stock

_find_order_for_event(e) == {e.order} \cap Orders

\* Amount and currency must be those of the order as it is now.
_success_event_validation_error(e) == e.amount # orders[e.order].subtotal

\* A success that is not this order's keeps its receipt and changes nothing; an
\* event of no order would leave a receipt that nothing reads again.
process_stripe_event(e) ==
    /\ _find_order_for_event(e) # {}
    /\ _register_event(e)
    /\ IF e.type = "failure" THEN _mark_payment_failed(e)
       ELSE IF _success_event_validation_error(e) THEN UNCHANGED <<orders, collected, stock>>
       ELSE _mark_payment_succeeded(e)
    /\ UNCHANGED <<ledger, claims, sess, sold, contested>>

-------------------------------------------------------------------------------
(* Warranty.  A claim is about one line of an order (order, product and serial  *)
(* number); claims for different lines do not meet, and an order stands here    *)
(* for the one line that is claimed.                                            *)

Working(op, o) == {s \in Sessions : sess[s].op = op /\ sess[s].order = o}
Active(o) == {i \in ClaimIds : /\ claims[i].order = o
                               /\ claims[i].status \in {"pending_review", "approved"}}
NextClaim == CHOOSE i \in ClaimIds : /\ claims[i] = NoClaim
                                     /\ \A j \in ClaimIds : claims[j] = NoClaim => i <= j

\* contested remembers that another request on the same line was in flight.
BeginWarranty(s, op, o, r) ==
    /\ sess[s] = NoRequest
    /\ sess' = [sess EXCEPT ![s] = r]
    /\ IF Working("claim", o) \cup Working("review", o) # {}
       THEN Race(o) ELSE UNCHANGED contested
    /\ UNCHANGED <<orders, collected, ledger, claims, stripeVars>>

faulty_BeginClaim(s, o) ==
    /\ orders[o].state = "done"
    /\ \A i \in Active(o) : claims[i].status = "approved"
    /\ BeginWarranty(s, "claim", o, [op |-> "claim", order |-> o])

BeginClaim(s, o) ==
    /\ orders[o].state = "done"
    /\ Active(o) = {}
    /\ BeginWarranty(s, "claim", o, [op |-> "claim", order |-> o])

submit_claim(s) ==
    /\ sess[s].op = "claim"
    /\ \E i \in ClaimIds : claims[i] = NoClaim
    /\ claims' = [claims EXCEPT ![NextClaim] =
                     [order |-> sess[s].order, status |-> "pending_review"]]
    /\ Commit(s)
    /\ UNCHANGED <<orders, collected, ledger, contested, stripeVars>>

_RMA_TRANSITIONS == [pending_review |-> {"approved", "rejected"}, approved |-> {"completed"},
                     rejected |-> {}, completed |-> {}, none |-> {}]

BeginReview(s, i, target) ==
    /\ target \in _RMA_TRANSITIONS[claims[i].status]
    /\ BeginWarranty(s, "review", claims[i].order,
                     [op |-> "review", order |-> claims[i].order, claim |-> i, target |-> target])

review_claim(s) ==
    /\ sess[s].op = "review"
    /\ claims' = [claims EXCEPT ![sess[s].claim].status = sess[s].target]
    /\ Commit(s)
    /\ UNCHANGED <<orders, collected, ledger, contested, stripeVars>>

-------------------------------------------------------------------------------
AfterSalesNext ==
    \/ \E s \in Sessions :
         \/ \E o \in Orders, points \in 1..Price : BeginRedeem(s, o, points)
         \/ \E o \in Orders : BeginClaim(s, o)
         \/ \E i \in ClaimIds, target \in {"approved", "rejected", "completed"} :
              BeginReview(s, i, target)
         \/ redeem_for_order(s) \/ submit_claim(s) \/ review_claim(s)
    \/ \E points \in 1..Price : redeem_points(points)
    \/ \E o \in Orders : \/ earn_points_for_order(o) \/ cancel(o) \/ Complete(o)
                         \/ PaymobSucceeded(o) \/ PaymobFailed(o)
    \/ \E e \in Events : process_stripe_event(e)
    \/ Sell

AfterSalesSpec == AfterSalesInit /\ [][AfterSalesNext]_afterSalesVars

-------------------------------------------------------------------------------
(* Properties *)

Redemptions(o) == Entries("order_redemption", o)

\* The ledger never goes below zero, an order is discounted at most once, and by
\* exactly the points its entry took, whichever requests overlap: the customer's
\* row is locked (loyalty/service.py:158-243).
PointsAreCovered ==
    /\ total_points >= 0
    /\ \A o \in Web :
         /\ Cardinality(Redemptions(o)) <= 1
         /\ orders[o].subtotal = Price + MapThenSumSet(LAMBDA i : ledger[i].delta, Redemptions(o))

\* A Stripe order that was paid leaves that state only for a refund, and no late,
\* repeated or reordered failure gives its unit away (stripe/webhooks.py:420-425).
StripePaidIsFinal ==
    [][\A o \in Stripe : orders[o].payment = "paid" =>
         \/ orders'[o].payment = "paid" /\ orders'[o].released = orders[o].released
         \/ orders'[o].payment = "refund_requested"]_afterSalesVars

\* Every unit is in stock, sold, or held by a Stripe order that is not released,
\* for events in any order and repetition, unless staff cancelled an order that a
\* Stripe failure had already released (stripe/webhooks.py:361-478).
StripeUnitsAccounted ==
    contested \cap Stripe = {} =>
      stock + sold + Cardinality({o \in Stripe : ~orders[o].released})
        = LocalStock + Cardinality(Stripe)

\* A line of an order has one active claim and a closed claim stays closed, unless two
\* warranty requests on that line overlapped (warranty/service.py:155-165, 238-256).
OneActiveClaim == \A o \in Web \ contested : Cardinality(Active(o)) <= 1

ClosedClaimsStayClosed ==
    [][\A i \in ClaimIds :
         claims[i].status \in {"rejected", "completed"} /\ claims[i].order \notin contested
           => claims'[i] = claims[i]]_afterSalesVars

\* "the order total records the actual checkout discount so points can never be
\* spent without an order benefit" (loyalty/service.py:165-166): an order whose
\* points are gone was paid at its discounted total.
PointsBuyADiscount ==
    \A o \in Web : orders[o].payment = "paid" => collected[o] = orders[o].subtotal
===============================================================================
