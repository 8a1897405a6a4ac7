---------------------------- MODULE OrderHandlers -----------------------------
(***************************************************************************)
(* What each request handler does to the rows of one order, as functions   *)
(* from the rows the handler SEES to the rows it leaves.  A view is a      *)
(* record that gathers                                                     *)
(*    state, pay, released       SaleOrder.state, payment_status,          *)
(*                               stock_reservation_released                *)
(*    ful, reason                OrderFulfillment.status, cancellation     *)
(*    attempt, txn               PaymentAttempt.status, transaction id     *)
(*    refund                     PaymentRefund.status ("none": no row)     *)
(*    resv                       InventoryReservation.status               *)
(*    po, drop                   the dropship PurchaseOrder, its Shipment  *)
(*    picking, leg, pick         StockPicking.state, its leg, its Shipment *)
(* A handler returns the rows, the product's stock_qty and an outcome;     *)
(* "error" means that it raised, and then get_db rolls everything back.    *)
(* Events go to the outbox, which has a module of its own.                 *)
(***************************************************************************)
EXTENDS Naturals

CONSTANTS
    Orders,
    Qty,          \* order -> units of the shared product in its local line
    Electronic,   \* orders paid by card or wallet; the others are COD
    Stocked,      \* orders with a line that is not dropshipped
    Dropship      \* orders with a dropshipped line (is_dropship)

Cod(o) == o \notin Electronic

Done(v, st, outcome) == [row |-> v, stock |-> st, outcome |-> outcome]
Raise(v, st) == Done(v, st, "error")

-------------------------------------------------------------------------------
(* inventory/reservations.py.  A definition named faulty_* is no part of the   *)
(* code: it is the definition after it with a plausible mistake, and shows     *)
(* that a property notices the mistake.                                        *)

faulty_release_order_missing(o, v, st) == [row |-> v, stock |-> st]

release_order(o, v, st) ==
    IF v.resv = "reserved"
    THEN [row |-> [v EXCEPT !.resv = "released"], stock |-> st + Qty[o]]
    ELSE [row |-> v, stock |-> st]

\* The conditional UPDATE of rereserve_order raises InsufficientStockError.
CannotRereserve(o, v, st) == v.released /\ v.resv = "released" /\ st < Qty[o]

faulty_rereserve_order(o, v, st) ==
    IF v.released /\ v.resv = "released"
    THEN [row |-> [v EXCEPT !.resv = "reserved", !.released = FALSE], stock |-> st]
    ELSE [row |-> [v EXCEPT !.released = FALSE], stock |-> st]

rereserve_order(o, v, st) ==
    IF v.released /\ v.resv = "released"
    THEN [row |-> [v EXCEPT !.resv = "reserved", !.released = FALSE], stock |-> st - Qty[o]]
    ELSE [row |-> [v EXCEPT !.released = FALSE], stock |-> st]

faulty_mark_order_consumed(v) == v

mark_order_consumed(v) ==
    IF v.resv = "reserved" THEN [v EXCEPT !.resv = "consumed"] ELSE v

-------------------------------------------------------------------------------
(* fulfillment/service.py *)

_forward_rank == [payment_pending |-> 0, confirmed |-> 1, processing |-> 2, shipped |-> 4,
                  delivered |-> 5]

BeforeShipment == {"payment_pending", "confirmed", "processing"}

faulty_force_forward_backwards(v, target) ==
    IF v.ful # "cancelled" THEN [v EXCEPT !.ful = target] ELSE v
faulty_force_forward_lost(v, target) == v

force_forward_from_integration(v, target) ==
    IF v.ful # "cancelled" /\ _forward_rank[target] > _forward_rank[v.ful]
    THEN [v EXCEPT !.ful = target] ELSE v

confirm_after_verified_payment(v) ==
    IF v.ful = "payment_pending" \/ (v.ful = "cancelled" /\ v.reason = "payment_failed")
    THEN [v EXCEPT !.ful = "confirmed", !.reason = "none"] ELSE v

\* Raises unless CanCancel; an order already cancelled keeps its first reason.
CanCancel(v) == v.ful \in BeforeShipment \cup {"cancelled"}
lifecycle_cancel(v, reason) ==
    IF v.ful = "cancelled" THEN v ELSE [v EXCEPT !.ful = "cancelled", !.reason = reason]

-------------------------------------------------------------------------------
(* payments/refunds.py, suppliers/dropship.py *)

faulty_ensure_full_refund_request(v) ==
    IF v.refund # "none" THEN v ELSE [v EXCEPT !.refund = "requested"]

\* One refund row per order and provider: the idempotency key finds it again.
ensure_full_refund_request(v) ==
    IF v.refund # "none"
    THEN [v EXCEPT !.pay = IF @ = "refunded" THEN @ ELSE "refund_requested"]
    ELSE [v EXCEPT !.refund = "requested", !.pay = "refund_requested"]

\* One draft PO and one pending leg; a PO that exists is left as it is.
ensure_purchase_orders_for_paid_order(o, v) ==
    IF v.pay = "paid" /\ o \in Dropship /\ v.po = "none"
    THEN [v EXCEPT !.po = "draft", !.drop = "pending"] ELSE v

-------------------------------------------------------------------------------
(* payments/transitions.py *)

Recovered(o, v) ==
    ensure_purchase_orders_for_paid_order(o,
        confirm_after_verified_payment(
            [v EXCEPT !.pay = "paid", !.attempt = "succeeded",
                      !.state = IF @ \in {"draft", "sent", "cancel"} THEN "sale" ELSE @]))

mark_payment_succeeded(o, t, v, st) ==
    LET r == [v EXCEPT !.txn = t]
        late == r.ful = "cancelled" /\ r.reason # "payment_failed"
    IN CASE r.pay = "refunded" -> Done(r, st, "ignored")
         [] r.pay = "paid" -> Done([r EXCEPT !.attempt = "succeeded"], st, "already_processed")
         [] r.pay \notin {"refunded", "paid"} /\ late ->
              Done(ensure_full_refund_request([r EXCEPT !.pay = "paid", !.attempt = "succeeded"]),
                   st, "refund_requested")
         [] OTHER ->
              IF CannotRereserve(o, r, st) THEN Raise(v, st)
              ELSE LET back == IF r.released THEN rereserve_order(o, r, st)
                               ELSE [row |-> r, stock |-> st]
                   IN Done(Recovered(o, back.row), back.stock, "processed")

faulty_FailureIgnored(v) == v.pay = "paid"

FailureIgnored(v) == v.pay \in {"paid", "refunded"}

mark_payment_failed(o, t, v, st) ==
    LET r == [v EXCEPT !.txn = t]
        out == release_order(o, [r EXCEPT !.pay = "failed", !.state = "cancel",
                                          !.released = TRUE, !.attempt = "failed"], st)
    IN CASE FailureIgnored(r) -> Done(r, st, "ignored")
         [] ~FailureIgnored(r) /\ (r.pay = "failed" \/ r.released) ->
              Done([r EXCEPT !.attempt = "failed"], st, "already_processed")
         [] OTHER ->
              IF CanCancel(r) THEN Done(lifecycle_cancel(out.row, "payment_failed"), out.stock, "processed")
              ELSE Raise(v, st)

mark_payment_refunded(o, t, v, st) ==
    LET r == [v EXCEPT !.txn = t]
    IN CASE r.pay = "refunded" -> Done([r EXCEPT !.attempt = "refunded"], st, "already_processed")
         [] r.pay \in {"paid", "refund_requested"} ->
              Done([r EXCEPT !.pay = "refunded", !.attempt = "refunded",
                             !.refund = IF @ = "none" THEN @ ELSE "succeeded"], st, "processed")
         [] OTHER -> Done(r, st, "ignored")

-------------------------------------------------------------------------------
(* integrations/paymob/webhooks.py *)

\* A callback whose transaction is not the one the attempt is bound to is
\* rejected, and its receipt keeps the event key for good.
_binding_error(t, v) == v.txn # "none" /\ v.txn # t

\* The flags of a transaction in the order they are looked at: Paymob leaves
\* "success" set on a payment it later voids or refunds.
ProviderFlags == [pending |-> {"pending"}, succeeded |-> {"success"}, failed |-> {},
                  refunded |-> {"success", "is_refunded"}, voided |-> {"success", "is_voided"}]

faulty_callback_type(kind) ==
    IF ProviderFlags[kind] = {} THEN "failed"
    ELSE IF "is_refunded" \in ProviderFlags[kind] THEN "refunded" ELSE "succeeded"

_callback_type(kind) ==
    LET flags == ProviderFlags[kind] IN
    CASE "is_refunded" \in flags -> "refunded"
      [] "is_voided" \in flags -> "voided"
      [] flags = {"pending"} -> "pending"
      [] flags = {"success"} -> "succeeded"
      [] OTHER -> "failed"

process_paymob_transaction(o, t, kind, v, st) ==
    LET type == _callback_type(kind) IN
    IF _binding_error(t, v) THEN Done(v, st, "rejected")
    ELSE CASE type = "pending" -> Done([v EXCEPT !.attempt = "pending", !.txn = t], st, "pending")
           [] type = "succeeded" -> mark_payment_succeeded(o, t, v, st)
           [] type = "refunded" -> mark_payment_refunded(o, t, v, st)
           [] type \in {"failed", "voided"} -> mark_payment_failed(o, t, v, st)

-------------------------------------------------------------------------------
(* orders, payments API *)

\* OrderService.checkout and the router's adoption of the reservation.
CannotReserve(o, st) == o \in Stocked /\ st < Qty[o]
checkout(o, v, st) ==
    IF v.state # "absent" \/ CannotReserve(o, st) THEN Raise(v, st)
    ELSE Done([v EXCEPT !.state = IF Cod(o) THEN "sent" ELSE "draft",
                        !.attempt = IF Cod(o) THEN "none" ELSE "pending",
                        !.ful = IF Cod(o) THEN "confirmed" ELSE "payment_pending",
                        !.resv = IF o \in Stocked THEN "reserved" ELSE "none"],
              IF o \in Stocked THEN st - Qty[o] ELSE st, "placed")

VALID_STATE_TRANSITIONS ==
    [draft |-> {"sent", "sale", "cancel"}, sent |-> {"sale", "cancel"},
     sale |-> {"done", "cancel"}, done |-> {}, cancel |-> {}]

update_order_state(target, v, st) ==
    IF target \in VALID_STATE_TRANSITIONS[v.state]
    THEN Done([v EXCEPT !.state = target], st, "updated") ELSE Raise(v, st)

cancel(o, v, st) ==
    LET r == lifecycle_cancel(v, "requested")
        p == IF r.po = "draft"
             THEN [r EXCEPT !.po = "cancelled",
                            !.drop = IF @ \in {"shipped", "delivered"} THEN @ ELSE "cancelled"]
             ELSE r
        out == release_order(o, [p EXCEPT !.released = TRUE, !.state = "cancel"], st)
    IN CASE v.ful = "cancelled" -> Done(v, st, "unchanged")
         [] v.ful # "cancelled" /\ (v.po \in {"sent", "partial", "received"} \/ ~CanCancel(v)) ->
              Raise(v, st)
         [] OTHER ->
              Done(IF v.pay = "paid" /\ o \in Electronic
                   THEN ensure_full_refund_request(out.row) ELSE out.row,
                   out.stock, "cancelled")

request_refund(v, st) ==
    IF v.pay \in {"paid", "refund_requested"} /\ v.attempt = "succeeded"
    THEN Done(ensure_full_refund_request(v), st, "refund_requested") ELSE Raise(v, st)

-------------------------------------------------------------------------------
(* shipping/service.py, suppliers/service.py *)

LocalRequired(v) == v.resv # "none"

_all_required_shipments_in(v, S) ==
    /\ LocalRequired(v) => v.leg = "local" /\ v.pick \in S
    /\ v.po \notin {"none", "cancelled"} => v.drop \in S
    /\ ~LocalRequired(v) /\ v.po \in {"none", "cancelled"} => v.pick \in S \/ v.drop \in S

\* "taken": a picking created after this dispatch read the order has its reference.
\* With a reference of its own the dispatch adds a second picking and a shipment of
\* it; from then on the latest of each counts.
dispatch_order(o, v, taken, st) ==
    LET vetted == v.state = "sent" /\ Cod(o)
        leg == IF LocalRequired(v) \/ o \notin Dropship THEN "local" ELSE "dropship"
        a == IF v.ful = "payment_pending" /\ vetted THEN [v EXCEPT !.ful = "confirmed"] ELSE v
        b == [a EXCEPT !.picking = "done", !.pick = "shipped",
                       !.leg = IF @ = "none" THEN leg ELSE @,
                       !.state = IF @ \in {"sale", "sent"} THEN "done" ELSE @]
        c == IF leg = "local" /\ v.picking # "done" THEN mark_order_consumed(b) ELSE b
    IN IF (v.state \notin {"sale", "done"} /\ ~vetted) \/ taken THEN Raise(v, st)
       ELSE Done(IF _all_required_shipments_in(c, {"shipped", "delivered"})
                 THEN force_forward_from_integration(c, "shipped") ELSE c, st, "dispatched")

Forwarded(v) == IF _all_required_shipments_in(v, {"delivered"})
                THEN force_forward_from_integration(v, "delivered") ELSE v

\* Of the shipped legs the one with the greatest id is confirmed: "last".
mark_delivered(last, v, st) ==
    IF v[last] # "shipped" THEN Raise(v, st)
    ELSE Done(Forwarded([v EXCEPT ![last] = "delivered"]), st, "delivered")

update_supplier_shipment(status, v, st) ==
    LET r == [v EXCEPT !.drop = status]
    IN CASE v.po = "none" -> Raise(v, st)
         [] v.po # "none" /\ v.drop = "delivered" /\ status # "delivered" -> Done(v, st, "unchanged")
         [] OTHER -> Done(IF _all_required_shipments_in(r, {"delivered"}) THEN Forwarded(r)
                          ELSE IF _all_required_shipments_in(r, {"shipped", "delivered"})
                               THEN force_forward_from_integration(r, "shipped") ELSE r,
                          st, "updated")

PURCHASE_ORDER_TRANSITIONS ==
    [none |-> {}, draft |-> {"sent", "cancelled"}, sent |-> {"partial", "received", "cancelled"},
     partial |-> {"received", "cancelled"}, received |-> {}, cancelled |-> {}]

update_purchase_order(target, v, st) ==
    IF target \in PURCHASE_ORDER_TRANSITIONS[v.po]
    THEN Done([v EXCEPT !.po = target], st, "updated") ELSE Raise(v, st)

-------------------------------------------------------------------------------
(* integrations/odoo/webhooks.py *)

\* The Odoo statuses grouped by what they map to.
OdooTarget == [sent       |-> [state |-> "sent",   picking |-> "open",   ful |-> "confirmed"],
               sale       |-> [state |-> "sale",   picking |-> "open",   ful |-> "confirmed"],
               processing |-> [state |-> "sale",   picking |-> "open",   ful |-> "processing"],
               shipped    |-> [state |-> "sale",   picking |-> "done",   ful |-> "shipped"],
               delivered  |-> [state |-> "done",   picking |-> "done",   ful |-> "delivered"],
               cancel     |-> [state |-> "cancel", picking |-> "cancel", ful |-> "cancelled"]]

_can_apply_fulfillment(v, status) ==
    /\ v.ful # "cancelled"
    /\ IF status = "cancel" THEN v.ful \in BeforeShipment
       ELSE _forward_rank[OdooTarget[status].ful] > _forward_rank[v.ful]

odoo_order_status_webhook(o, status, v, st) ==
    LET to == OdooTarget[status]
        leg == IF v.leg # "none" THEN v.leg ELSE IF o \in Dropship THEN "dropship" ELSE "local"
        a == [v EXCEPT !.state = to.state, !.picking = to.picking, !.leg = leg,
                       !.pick = CASE to.ful \in {"shipped", "delivered"} -> to.ful
                                  [] to.ful = "cancelled" ->
                                       IF @ \in {"shipped", "delivered"} THEN @ ELSE "cancelled"
                                  [] OTHER -> IF @ = "none" THEN "pending" ELSE @]
        b == IF status = "shipped" /\ v.picking # "done" /\ leg # "dropship"
             THEN mark_order_consumed(a) ELSE a
        freed == release_order(o, [lifecycle_cancel(a, "odoo_cancelled") EXCEPT !.released = TRUE], st)
    IN CASE ~_can_apply_fulfillment(v, status) -> Done(v, st, "stale")
         [] _can_apply_fulfillment(v, status) /\ status = "cancel" ->
              Done(freed.row, freed.stock, "processed")
         [] OTHER -> Done(force_forward_from_integration(b, to.ful), st, "processed")
===============================================================================
