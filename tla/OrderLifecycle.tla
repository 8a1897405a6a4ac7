---------------------------- MODULE OrderLifecycle ----------------------------
(***************************************************************************)
(* Orders under concurrent requests: checkout, Paymob callbacks, customer  *)
(* cancellation, refunds, warehouse dispatch, supplier legs, the back      *)
(* office and the Odoo order webhook, against the rows of PostgreSQL.      *)
(*                                                                         *)
(* Granularity.  A handler holds the row locks it takes until it commits,  *)
(* so from its first lock on it is one step.  But several handlers READ    *)
(* before they lock, and SELECT ... FOR UPDATE without populate_existing   *)
(* hands back the object already in the session as it was first read.      *)
(* Such a handler is two steps: Begin remembers the rows it read (Unlocked)*)
(* and Finish runs the rest on that view.  The ORM flushes only attributes *)
(* that differ from what was read, so Flush merges attribute by attribute. *)
(***************************************************************************)
EXTENDS OrderHandlers, FiniteSetsExt

CONSTANTS
    Txs,            \* transaction ids Paymob may use for one order
    Sessions,       \* requests in flight at once
    InitialStock,   \* stock_qty before the first checkout
    Operations,     \* kinds of request the instance exercises
    StateTargets,   \* targets of PUT /orders/{id}/status that are exercised
    OdooStatuses    \* statuses Odoo reports

AllOperations == {"callback", "cancel", "status", "dispatch", "supplier",
                  "refund", "deliver", "po", "odoo"}

ASSUME OrderAssumption ==
    /\ IsFiniteSet(Orders)
    /\ Qty \in [Orders -> Nat \ {0}]
    /\ InitialStock \in Nat
    /\ Electronic \subseteq Orders
    /\ Stocked \subseteq Orders
    /\ Dropship \subseteq Orders
    /\ Stocked \cup Dropship = Orders
    /\ Operations \subseteq AllOperations
    /\ StateTargets \subseteq {"sent", "sale", "done", "cancel"}
    /\ OdooStatuses \subseteq DOMAIN OdooTarget
    /\ "none" \notin Txs

VARIABLES
    row,        \* order -> its rows
    stock,      \* ProductTemplate.stock_qty of the product the orders share
    sess,       \* session -> the request it is working on and what it read
    paymob,     \* <<order, tx>> -> what happened at the provider
    callbacks,  \* the callbacks Paymob has emitted: <<order, tx, kind>>
    receipts    \* committed PaymentWebhookEvent keys

vars == <<row, stock, sess, paymob, callbacks, receipts>>

NoRow == [state |-> "absent", pay |-> "pending", released |-> FALSE,
          ful |-> "none", reason |-> "none", attempt |-> "none", txn |-> "none",
          refund |-> "none", resv |-> "none", po |-> "none", drop |-> "none",
          picking |-> "none", leg |-> "none", pick |-> "none"]

Free == [op |-> "none"]

Init == /\ row = [o \in Orders |-> NoRow]
        /\ stock = InitialStock
        /\ sess = [s \in Sessions |-> Free]
        /\ paymob = [x \in Orders \X Txs |-> "none"]
        /\ callbacks = {}
        /\ receipts = {}

Placed(o) == row[o].state # "absent"

-------------------------------------------------------------------------------
(* The session: unlocked reads, then the handler *)

\* Columns read before the handler holds a lock on their row.
Unlocked(op) == CASE op = "callback" -> {"attempt", "txn"}
                  [] op \in {"cancel", "status"} -> {"state", "pay", "released"}
                  [] op = "dispatch" -> {"state", "pay", "released", "picking"}
                  [] OTHER -> {}

\* Columns of the other fulfilment leg: read without a lock while the handler
\* already holds its own, so either side of a concurrent commit may be seen.
ReadLate(op) == CASE op = "dispatch" -> {"drop"}
                  [] op = "supplier" -> {"pick"}
                  [] OTHER -> {}

Seen(s, o, F) == [f \in DOMAIN NoRow |-> IF f \in F THEN sess[s].read[f] ELSE row[o][f]]

Flush(current, view, new) ==
    [f \in DOMAIN NoRow |-> IF new[f] # view[f] THEN new[f] ELSE current[f]]

Begin(s, op, o, arg) ==
    /\ sess[s] = Free
    /\ op \in Operations
    /\ Placed(o)
    /\ sess' = [sess EXCEPT ![s] =
                  [op |-> op, o |-> o, arg |-> arg,
                   read |-> [f \in Unlocked(op) \cup ReadLate(op) |-> row[o][f]]]]
    /\ UNCHANGED <<row, stock, paymob, callbacks, receipts>>

\* _register_event: the unique event key makes a second delivery wait for the
\* first and then return "duplicate", which changes nothing.
BeginCallback(s, key) ==
    /\ key \in callbacks \ receipts
    /\ \A z \in Sessions : sess[z] # Free => ~(sess[z].op = "callback" /\ sess[z].arg = key)
    /\ Begin(s, "callback", key[1], key)

BeginRequest(s, o) ==
    \/ Begin(s, "cancel", o, "none")
    \/ \E target \in StateTargets : Begin(s, "status", o, target)
    \/ Begin(s, "dispatch", o, "none")
    \/ \E status \in {"shipped", "delivered", "exception"} : Begin(s, "supplier", o, status)

\* Whether the reference of a dispatch is taken: only by a picking that was created
\* since it read the order.  It uses the default reference or one of its own, and
\* Odoo's pickings have names of theirs, so such a picking may have another one.
Taken(o, v) == {FALSE, v.picking = "none" /\ row[o].picking # "none"}

Handle(req, v, taken) ==
    CASE req.op = "callback" -> process_paymob_transaction(req.o, req.arg[2], req.arg[3], v, stock)
      [] req.op = "cancel"   -> cancel(req.o, v, stock)
      [] req.op = "status"   -> update_order_state(req.arg, v, stock)
      [] req.op = "dispatch" -> dispatch_order(req.o, v, taken, stock)
      [] req.op = "supplier" -> update_supplier_shipment(req.arg, v, stock)

Commit(o, view, res) ==
    /\ row' = IF res.outcome = "error" THEN row
              ELSE [row EXCEPT ![o] = Flush(row[o], view, res.row)]
    /\ stock' = res.stock

Finish(s) ==
    LET req == sess[s] IN
    /\ req # Free
    /\ \E late \in SUBSET ReadLate(req.op) :
         LET v == Seen(s, req.o, Unlocked(req.op) \cup late) IN
         \E taken \in Taken(req.o, v) :
           LET res == Handle(req, v, taken) IN
           /\ Commit(req.o, v, res)
           /\ receipts' = IF req.op = "callback" /\ res.outcome # "error"
                          THEN receipts \cup {req.arg} ELSE receipts
    /\ sess' = [sess EXCEPT ![s] = Free]
    /\ UNCHANGED <<paymob, callbacks>>

-------------------------------------------------------------------------------
(* Handlers whose first statement takes the lock *)

Atomic(op, o, res) ==
    /\ op \in Operations
    /\ Placed(o)
    /\ res.outcome # "error"
    /\ Commit(o, row[o], res)
    /\ UNCHANGED <<sess, paymob, callbacks, receipts>>

Checkout(o) == /\ checkout(o, row[o], stock).outcome # "error"
               /\ Commit(o, row[o], checkout(o, row[o], stock))
               /\ UNCHANGED <<sess, paymob, callbacks, receipts>>

RequestRefund(o) == Atomic("refund", o, request_refund(row[o], stock))

MarkDelivered(o) == \E last \in {"pick", "drop"} :
                       Atomic("deliver", o, mark_delivered(last, row[o], stock))

UpdatePurchaseOrder(o) == \E target \in {"sent", "partial", "received", "cancelled"} :
                       Atomic("po", o, update_purchase_order(target, row[o], stock))

OdooOrderStatus(o) == \E status \in OdooStatuses :
                       Atomic("odoo", o, odoo_order_status_webhook(o, status, row[o], stock))

-------------------------------------------------------------------------------
(* Paymob: transactions change state there, and every change is called back *)
(* any number of times, in any order.                                      *)

ProviderMoves == [none      |-> {"pending", "succeeded", "failed"},
                  pending   |-> {"succeeded", "failed"},
                  failed    |-> {"succeeded"},
                  succeeded |-> {"refunded", "voided"},
                  refunded  |-> {}, voided |-> {}]

\* An intention is paid once: a second transaction may follow a failed one only.
PaymobMoves(o, t) ==
    /\ "callback" \in Operations
    /\ Placed(o) /\ o \in Electronic
    /\ \E k \in ProviderMoves[paymob[<<o, t>>]] :
         /\ \A z \in Txs \ {t} : paymob[<<o, z>>] \in {"none", "failed"}
         /\ paymob' = [paymob EXCEPT ![<<o, t>>] = k]
         /\ callbacks' = callbacks \cup {<<o, t, k>>}
    /\ UNCHANGED <<row, stock, sess, receipts>>

Next == \/ \E o \in Orders : \/ Checkout(o)
                             \/ RequestRefund(o)
                             \/ MarkDelivered(o)
                             \/ UpdatePurchaseOrder(o)
                             \/ OdooOrderStatus(o)
                             \/ \E t \in Txs : PaymobMoves(o, t)
                             \/ \E s \in Sessions : BeginRequest(s, o)
        \/ \E s \in Sessions : Finish(s) \/ \E key \in callbacks : BeginCallback(s, key)

Spec == Init /\ [][Next]_vars

-------------------------------------------------------------------------------
(* Properties *)

\* The columns keep their enumerations, a session the rows it read.
RowType == [state : {"absent", "draft", "sent", "sale", "done", "cancel"},
            pay : {"pending", "paid", "failed", "refund_requested", "refunded"},
            released : BOOLEAN,
            ful : DOMAIN _forward_rank \cup {"none", "cancelled"},
            reason : {"none", "requested", "payment_failed", "odoo_cancelled"},
            attempt : {"none", "pending", "succeeded", "failed", "refunded"},
            txn : Txs \cup {"none"},
            refund : {"none", "requested", "succeeded"},
            resv : {"none", "reserved", "released", "consumed"},
            po : DOMAIN PURCHASE_ORDER_TRANSITIONS,
            drop : {"none", "pending", "shipped", "delivered", "exception", "cancelled"},
            picking : {"none", "open", "done", "cancel"},
            leg : {"none", "local", "dropship"},
            pick : {"none", "pending", "shipped", "delivered", "cancelled"}]

TypeOK == /\ row \in [Orders -> RowType]
          /\ stock \in Nat
          /\ \A s \in Sessions : sess[s] # Free =>
                /\ sess[s].op \in Operations
                /\ Placed(sess[s].o)
                /\ DOMAIN sess[s].read = Unlocked(sess[s].op) \cup ReadLate(sess[s].op)
          /\ receipts \subseteq callbacks
          /\ \A key \in callbacks : key[1] \in Orders /\ key[2] \in Txs

\* reservations.py:31: checkout takes the units once, release gives them back
\* once, shipment takes none: no interleaving of checkout, late payment,
\* cancellation and dispatch creates or loses a unit, or oversells.
Holds(o) == IF row[o].resv \in {"reserved", "consumed"} THEN Qty[o] ELSE 0
StockConserved == stock + MapThenSumSet(Holds, Orders) = InitialStock

\* A cancelled order never keeps units withheld from sale: cancel and
\* mark_payment_failed release, and only a recovery takes them again.
CancelledHoldsNoStock ==
    \A o \in Orders : row[o].ful = "cancelled" => row[o].resv # "reserved"

\* Money is recorded as received, asked back or returned, and suppliers are
\* asked to deliver, only after a verified success callback of that order.
Captured(o) == \E t \in Txs : <<o, t, "succeeded">> \in receipts
NothingFollowsFromUnpaid ==
    \A o \in Orders :
        \/ row[o].pay \in {"paid", "refund_requested", "refunded"}
        \/ row[o].refund # "none"
        \/ row[o].po # "none"
        => Captured(o)

\* transitions.py:38: an order cancelled for any reason but a failed payment is
\* never reopened, and fulfilment only moves forward otherwise.
NeverReopened ==
    [][\A o \in Orders :
         LET v == row[o]
             w == row'[o] IN
         /\ v.ful = "cancelled" /\ w.ful # "cancelled" =>
              v.reason = "payment_failed" /\ w.ful = "confirmed" /\ w.pay = "paid"
         /\ v.ful \in DOMAIN _forward_rank /\ w.ful \in DOMAIN _forward_rank =>
              _forward_rank[w.ful] >= _forward_rank[v.ful]]_vars

\* No request of one of the kinds P is in flight beside one of the kinds Q about the same order.
NeverTogether(P, Q) ==
    \A s, z \in Sessions :
        s # z /\ sess[s] # Free /\ sess[z] # Free /\ sess[s].op \in P /\ sess[z].op \in Q =>
            sess[s].o # sess[z].o

\* Hypotheses of the theorems: overlaps that spoil what was read early and that do not happen.
\* No payment is reported while the customer cancels;
PaymentsApart == NeverTogether({"callback"}, {"cancel"})
\* nor is an order cancelled or reopened while the back office or the warehouse moves it;
DecisionsApart == PaymentsApart /\ NeverTogether({"callback", "cancel"}, {"status", "dispatch"})
\* nor do the two legs of an order leave at once.
LegsApart == DecisionsApart /\ NeverTogether({"dispatch"}, {"supplier"})

\* router.py:325, "releasing inventory and requesting refunds once": an order
\* cancelled while the store holds its money has a refund on its way.
CancelledPaidIsRefunded ==
    \A o \in Orders : row[o].ful = "cancelled" => row[o].pay # "paid"

\* A refund that the provider has completed is never asked for again.
RefundedIsFinal ==
    [][\A o \in Orders : row[o].pay = "refunded" => row'[o].pay = "refunded"]_vars

\* reservations.py:31: "physical shipment does not subtract it again because
\* those units were already withheld": what has left the warehouse was reserved
\* for that order, and stays off the shelf.
ShippedUnitsWereWithheld ==
    \A o \in Stocked :
        row[o].leg = "local" /\ row[o].pick \in {"shipped", "delivered"} => row[o].resv = "consumed"

\* transitions.py:38: an order that operations cancelled is not reopened by a
\* late success.
OperationsCancelIsFinal ==
    [][\A o \in Orders :
         row[o].state = "cancel" /\ row[o].pay = "pending" => row'[o].state = "cancel"]_vars

\* cancellation.py:21, "Cancel an unshipped order once": no leg has left when an
\* order becomes cancelled.
OnlyUnshippedIsCancelled ==
    [][\A o \in Orders :
         row'[o].ful = "cancelled" /\ row[o].ful # "cancelled" =>
             {row[o].pick, row[o].drop} \cap {"shipped", "delivered"} = {}]_vars

\* The fulfilment status says shipped or delivered as soon as every leg is.
LegsAreReflected ==
    \A o \in Orders :
        LET v == row[o] IN
        /\ v.ful \notin {"none", "cancelled"}
        /\ \A s \in Sessions : sess[s] = Free
        /\ _all_required_shipments_in(v, {"shipped", "delivered"})
        => _forward_rank[v.ful] >= _forward_rank["shipped"]
===============================================================================
