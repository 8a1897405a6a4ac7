------------------------- MODULE OrderLifecycleProofs -------------------------
(***************************************************************************)
(* Safety of OrderLifecycle for every number of orders, transactions and   *)
(* concurrent requests.                                                    *)
(*                                                                         *)
(* The argument.  A handler may decide on columns that are out of date, so *)
(* no property can rest on them.  The columns in Locked are read under the *)
(* lock of their row by every handler; Keeps says, for a handler as a      *)
(* function from the row it sees to the row it returns, what it may do to  *)
(* them.  FlushKeeps carries Keeps over to the row as it is when the       *)
(* changed attributes are written, and CommitKeeps to the whole state.     *)
(* What remains is the payment status, which the cancel route reads early: *)
(* the invariant keeps, for every request in flight, that what it read was *)
(* once a row of the order, charged only if a success had been verified.   *)
(*                                                                         *)
(* Four more inductive invariants rest on IInv.  Conserved needs only the  *)
(* columns under lock, and holds whatever requests are in flight.  The     *)
(* others hold where an order has one request at a time, which is what the *)
(* code relies on between its early reads and its row lock: MoneyInv says  *)
(* how far a payment may have moved since it was read, GoodsInv where the  *)
(* units of an order are, LegsInv which of its parcels have left.          *)
(***************************************************************************)
EXTENDS OrderLifecycle, UnitSums, TLAPS

-------------------------------------------------------------------------------
(* One order at a time. *)

\* The columns that the promises below are about.
Word == {"state", "pay", "ful", "reason", "resv", "refund", "po"}
\* Two rows agree on the columns F.
Same(v, w, F) == \A f \in F : w[f] = v[f]

\* The fulfilment status has moved back.
Behind(v, w) == /\ v.ful \in DOMAIN _forward_rank
                /\ w.ful \in DOMAIN _forward_rank
                /\ ~(_forward_rank[w.ful] >= _forward_rank[v.ful])

\* A cancelled order holds no units.
Safe(v) == v.ful = "cancelled" => v.resv # "reserved"

\* Money or a supplier is involved.
Charged(v) == \/ v.pay \in {"paid", "refund_requested", "refunded"}
              \/ v.refund # "none"
              \/ v.po # "none"

\* What a handler may do to a row; "paid": it applies a verified success.
Keeps(v, w, paid) ==
    /\ w \in RowType
    /\ w.state = v.state \/ w.state # "absent"
    /\ Safe(v) => Safe(w)
    /\ Charged(w) => Charged(v) \/ paid
    /\ v.ful = "cancelled" /\ w.ful # "cancelled" =>
         paid /\ v.reason = "payment_failed" /\ w.ful = "confirmed" /\ w.pay = "paid"
    /\ ~Behind(v, w)

\* A handler that does not raise keeps the promises.
Sound(v, res, paid) ==
    /\ res.stock \in Nat
    /\ res.outcome # "error" => Keeps(v, res.row, paid)

\* Writing a value of its column into a row leaves a row.
LEMMA Put ==
  ASSUME NEW v \in RowType
  PROVE  /\ \A x \in {"draft", "sent", "sale", "done", "cancel"} :
              [v EXCEPT !.state = x] \in RowType
         /\ \A x \in {"paid", "failed", "refund_requested", "refunded"} :
              [v EXCEPT !.pay = x] \in RowType
         /\ \A x \in BOOLEAN : [v EXCEPT !.released = x] \in RowType
         /\ \A x \in {"payment_pending", "confirmed", "processing", "shipped", "delivered", "cancelled"} :
              [v EXCEPT !.ful = x] \in RowType
         /\ \A x \in {"none", "requested", "payment_failed", "odoo_cancelled"} :
              [v EXCEPT !.reason = x] \in RowType
         /\ \A x \in {"none", "pending", "succeeded", "failed", "refunded"} :
              [v EXCEPT !.attempt = x] \in RowType
         /\ \A x \in Txs : [v EXCEPT !.txn = x] \in RowType
         /\ \A x \in {"none", "requested", "succeeded"} :
              [v EXCEPT !.refund = x] \in RowType
         /\ \A x \in {"none", "reserved", "released", "consumed"} :
              [v EXCEPT !.resv = x] \in RowType
         /\ \A x \in {"draft", "sent", "partial", "received", "cancelled"} :
              [v EXCEPT !.po = x] \in RowType
         /\ \A x \in {"pending", "shipped", "delivered", "exception", "cancelled"} :
              [v EXCEPT !.drop = x] \in RowType
         /\ \A x \in {"open", "done", "cancel"} : [v EXCEPT !.picking = x] \in RowType
         /\ \A x \in {"none", "local", "dropship"} : [v EXCEPT !.leg = x] \in RowType
         /\ \A x \in {"none", "pending", "shipped", "delivered", "cancelled"} :
              [v EXCEPT !.pick = x] \in RowType
<1>1. \A x \in {"draft", "sent", "sale", "done", "cancel"} :
        [v EXCEPT !.state = x] \in RowType
  BY DEF RowType
<1>2. \A x \in {"paid", "failed", "refund_requested", "refunded"} :
        [v EXCEPT !.pay = x] \in RowType
  BY DEF RowType
<1>3. \A x \in BOOLEAN : [v EXCEPT !.released = x] \in RowType BY DEF RowType
<1>4. \A x \in {"payment_pending", "confirmed", "processing", "shipped", "delivered", "cancelled"} :
              [v EXCEPT !.ful = x] \in RowType BY DEF RowType, _forward_rank
<1>5. \A x \in {"none", "requested", "payment_failed", "odoo_cancelled"} :
        [v EXCEPT !.reason = x] \in RowType
  BY DEF RowType
<1>6. \A x \in {"none", "pending", "succeeded", "failed", "refunded"} :
        [v EXCEPT !.attempt = x] \in RowType
  BY DEF RowType
<1>7. \A x \in Txs : [v EXCEPT !.txn = x] \in RowType BY DEF RowType
<1>8. \A x \in {"none", "requested", "succeeded"} : [v EXCEPT !.refund = x] \in RowType
  BY DEF RowType
<1>9. \A x \in {"none", "reserved", "released", "consumed"} :
        [v EXCEPT !.resv = x] \in RowType
  BY DEF RowType
<1>10. \A x \in {"draft", "sent", "partial", "received", "cancelled"} :
         [v EXCEPT !.po = x] \in RowType
  BY DEF RowType, PURCHASE_ORDER_TRANSITIONS
<1>11. \A x \in {"pending", "shipped", "delivered", "exception", "cancelled"} :
         [v EXCEPT !.drop = x] \in RowType
  BY DEF RowType
<1>12. \A x \in {"open", "done", "cancel"} : [v EXCEPT !.picking = x] \in RowType
  BY DEF RowType
<1>13. \A x \in {"none", "local", "dropship"} : [v EXCEPT !.leg = x] \in RowType
  BY DEF RowType
<1>14. \A x \in {"none", "pending", "shipped", "delivered", "cancelled"} :
         [v EXCEPT !.pick = x] \in RowType
  BY DEF RowType
<1> QED
  BY <1>1, <1>2, <1>3, <1>4, <1>5, <1>6, <1>7, <1>8, <1>9, <1>10, <1>11, <1>12, <1>13, <1>14

\* release_order: nothing stays reserved, no other column of interest moves.
LEMMA ReleaseOrder ==
  ASSUME NEW o \in Orders, NEW v \in RowType, NEW st \in Nat
  PROVE  LET r == release_order(o, v, st) IN
         /\ r.row \in RowType /\ r.stock \in Nat
         /\ r.row.resv # "reserved"
         /\ Same(v, r.row, Word \ {"resv"})
<1> DEFINE r == release_order(o, v, st)
<1>1. r.row \in RowType BY Put DEF release_order
<1>2. r.stock \in Nat BY OrderAssumption DEF release_order
<1>3. r.row.resv # "reserved" BY DEF release_order, RowType
<1>4. Same(v, r.row, Word \ {"resv"}) BY DEF release_order, RowType, Same, Word
<1> QED BY <1>1, <1>2, <1>3, <1>4

\* rereserve_order takes units only if there are enough.
LEMMA RereserveOrder ==
  ASSUME NEW o \in Orders, NEW v \in RowType, NEW st \in Nat, ~CannotRereserve(o, v, st)
  PROVE  LET r == rereserve_order(o, v, st) IN
         /\ r.row \in RowType /\ r.stock \in Nat
         /\ Same(v, r.row, Word \ {"resv"})
<1> DEFINE r == rereserve_order(o, v, st)
<1>1. r.row \in RowType BY Put DEF rereserve_order
<1>2. r.stock \in Nat BY OrderAssumption DEF rereserve_order, CannotRereserve
<1>3. Same(v, r.row, Word \ {"resv"}) BY DEF rereserve_order, RowType, Same, Word
<1> QED BY <1>1, <1>2, <1>3

\* mark_order_consumed: what was reserved is not reserved any more.
LEMMA MarkConsumed ==
  ASSUME NEW v \in RowType
  PROVE  LET r == mark_order_consumed(v) IN
         /\ r \in RowType
         /\ r.resv # "reserved"
         /\ Same(v, r, Word \ {"resv"})
<1> DEFINE r == mark_order_consumed(v)
<1>1. r \in RowType BY Put DEF mark_order_consumed
<1>2. r.resv # "reserved" BY DEF mark_order_consumed, RowType
<1>3. Same(v, r, Word \ {"resv"}) BY DEF mark_order_consumed, RowType, Same, Word
<1> QED BY <1>1, <1>2, <1>3

\* force_forward_from_integration never cancels, reopens or moves back.
LEMMA ForceForward ==
  ASSUME NEW v \in RowType, NEW target \in {"confirmed", "processing", "shipped", "delivered"}
  PROVE  LET r == force_forward_from_integration(v, target) IN
         /\ r \in RowType
         /\ Same(v, r, Word \ {"ful"})
         /\ (r.ful = "cancelled" <=> v.ful = "cancelled")
         /\ ~Behind(v, r)
<1> DEFINE r == force_forward_from_integration(v, target)
<1>1. r \in RowType BY Put DEF force_forward_from_integration
<1>2. Same(v, r, Word \ {"ful"}) BY DEF force_forward_from_integration, RowType, Same, Word
<1>3. r.ful = "cancelled" <=> v.ful = "cancelled"
  BY DEF force_forward_from_integration, RowType
<1>4. ~Behind(v, r) BY DEF force_forward_from_integration, RowType, _forward_rank, Behind
<1> QED BY <1>1, <1>2, <1>3, <1>4

\* confirm_after_verified_payment reopens a failed payment's cancellation only.
LEMMA Confirm ==
  ASSUME NEW v \in RowType
  PROVE  LET r == confirm_after_verified_payment(v) IN
         /\ r \in RowType
         /\ Same(v, r, Word \ {"ful", "reason"})
         /\ \/ r.ful = v.ful /\ ~(v.ful = "cancelled" /\ v.reason = "payment_failed")
            \/ r.ful = "confirmed" /\ v.ful = "payment_pending"
            \/ r.ful = "confirmed" /\ v.ful = "cancelled" /\ v.reason = "payment_failed"
<1> DEFINE r == confirm_after_verified_payment(v)
<1>1. r \in RowType
  <2>1. [v EXCEPT !.ful = "confirmed"] \in RowType BY Put
  <2>2. [v EXCEPT !.ful = "confirmed", !.reason = "none"] \in RowType BY <2>1, Put
  <2> QED BY <2>2 DEF confirm_after_verified_payment
<1>2. Same(v, r, Word \ {"ful", "reason"})
  BY DEF confirm_after_verified_payment, RowType, Same, Word
<1>3. \/ r.ful = v.ful /\ ~(v.ful = "cancelled" /\ v.reason = "payment_failed")
      \/ r.ful = "confirmed" /\ v.ful = "payment_pending"
      \/ r.ful = "confirmed" /\ v.ful = "cancelled" /\ v.reason = "payment_failed"
  BY DEF confirm_after_verified_payment, RowType
<1> QED BY <1>1, <1>2, <1>3

\* Cancelling writes the status and the reason, nothing else.
LEMMA LifecycleCancel ==
  ASSUME NEW v \in RowType, NEW why \in {"requested", "payment_failed", "odoo_cancelled"}
  PROVE  LET r == lifecycle_cancel(v, why) IN
         /\ r \in RowType /\ r.ful = "cancelled"
         /\ Same(v, r, Word \ {"ful", "reason"})
<1> DEFINE r == lifecycle_cancel(v, why)
<1>1. r \in RowType
  <2>1. [v EXCEPT !.ful = "cancelled"] \in RowType BY Put
  <2>2. [v EXCEPT !.ful = "cancelled", !.reason = why] \in RowType BY <2>1, Put
  <2> QED BY <2>2 DEF lifecycle_cancel
<1>2. r.ful = "cancelled" BY DEF lifecycle_cancel, RowType
<1>3. Same(v, r, Word \ {"ful", "reason"}) BY DEF lifecycle_cancel, RowType, Same, Word
<1> QED BY <1>1, <1>2, <1>3

\* A refund request writes the payment status and the refund row.
LEMMA RefundRequest ==
  ASSUME NEW v \in RowType
  PROVE  LET r == ensure_full_refund_request(v) IN
         /\ r \in RowType
         /\ Same(v, r, Word \ {"pay", "refund"})
<1> DEFINE r == ensure_full_refund_request(v)
<1>1. r \in RowType
  <2>1. [v EXCEPT !.refund = "requested"] \in RowType BY Put
  <2>2. [v EXCEPT !.refund = "requested", !.pay = "refund_requested"] \in RowType
    BY <2>1, Put
  <2>3. [v EXCEPT !.pay = IF @ = "refunded" THEN @ ELSE "refund_requested"] \in RowType
    BY Put
  <2> QED BY <2>2, <2>3 DEF ensure_full_refund_request
<1>2. Same(v, r, Word \ {"pay", "refund"})
  BY DEF ensure_full_refund_request, RowType, Same, Word
<1> QED BY <1>1, <1>2

\* A dropship purchase order touches neither payment, reservation nor status.
LEMMA PurchaseOrders ==
  ASSUME NEW o \in Orders, NEW v \in RowType
  PROVE  LET r == ensure_purchase_orders_for_paid_order(o, v) IN
         /\ r \in RowType
         /\ Same(v, r, Word \ {"po"})
<1> DEFINE r == ensure_purchase_orders_for_paid_order(o, v)
<1>1. r \in RowType
  <2>1. [v EXCEPT !.po = "draft"] \in RowType BY Put
  <2>2. [v EXCEPT !.po = "draft", !.drop = "pending"] \in RowType BY <2>1, Put
  <2> QED BY <2>2 DEF ensure_purchase_orders_for_paid_order
<1>2. Same(v, r, Word \ {"po"})
  BY DEF ensure_purchase_orders_for_paid_order, RowType, Same, Word
<1> QED BY <1>1, <1>2

\* A handler that leaves the fulfilment status alone keeps the promises if the
\* reservation and the payment are in order.
LEMMA UnmovedKeeps ==
  ASSUME NEW v \in RowType, NEW w \in RowType, NEW paid \in BOOLEAN,
         w.state = v.state \/ w.state # "absent",
         w.ful = v.ful, Safe(v) => Safe(w), Charged(w) => Charged(v) \/ paid
  PROVE  Keeps(v, w, paid)
<1>1. ~Behind(v, w) BY DEF Behind, _forward_rank
<1> QED BY <1>1 DEF Keeps

\* A handler that touches none of the columns of interest keeps everything.
LEMMA SameKeeps ==
  ASSUME NEW v \in RowType, NEW w \in RowType, NEW paid \in BOOLEAN, Same(v, w, Word)
  PROVE  Keeps(v, w, paid)
BY UnmovedKeeps DEF Same, Word, Safe, Charged

\* A handler that raises is sound: get_db rolls it back.
LEMMA RaiseSound ==
  ASSUME NEW v, NEW st \in Nat, NEW paid PROVE Sound(v, Raise(v, st), paid)
BY DEF Sound, Raise, Done

\* A handler that returns is sound if its row keeps the promises.
LEMMA DoneSound ==
  ASSUME NEW v, NEW w, NEW st \in Nat, NEW paid, NEW outcome, Keeps(v, w, paid)
  PROVE  Sound(v, Done(w, st, outcome), paid)
BY DEF Sound, Done

\* What a verified payment makes of an order.
LEMMA RecoveredRow ==
  ASSUME NEW o \in Orders, NEW v \in RowType
  PROVE  LET r == Recovered(o, v) IN
         /\ r \in RowType /\ r.pay = "paid"
         /\ r.state = v.state \/ r.state # "absent"
         /\ r.resv = v.resv
         /\ \/ r.ful = v.ful /\ ~(v.ful = "cancelled" /\ v.reason = "payment_failed")
            \/ r.ful = "confirmed" /\ v.ful = "payment_pending"
            \/ r.ful = "confirmed" /\ v.ful = "cancelled" /\ v.reason = "payment_failed"
<1> DEFINE p == [v EXCEPT !.pay = "paid", !.attempt = "succeeded",
                          !.state = IF @ \in {"draft", "sent", "cancel"} THEN "sale" ELSE @]
           c == confirm_after_verified_payment(p)
           r == ensure_purchase_orders_for_paid_order(o, c)
<1>1. p \in RowType
  <2>1. [v EXCEPT !.pay = "paid"] \in RowType BY Put
  <2>2. [v EXCEPT !.pay = "paid", !.attempt = "succeeded"] \in RowType BY <2>1, Put
  <2>3. CASE v.state \in {"draft", "sent", "cancel"}
    <3>1. [v EXCEPT !.pay = "paid", !.attempt = "succeeded", !.state = "sale"] \in RowType
      BY <2>2, Put
    <3> QED BY <2>3, <3>1 DEF RowType
  <2>4. CASE v.state \notin {"draft", "sent", "cancel"}
    <3>1. p = [v EXCEPT !.pay = "paid", !.attempt = "succeeded"] BY <2>4 DEF RowType
    <3> QED BY <3>1, <2>2
  <2> QED BY <2>3, <2>4
<1>2. p.pay = "paid" /\ Same(v, p, Word \ {"pay", "state"})
/\ (p.state = v.state \/ p.state # "absent")
  BY DEF RowType, Same, Word
<1>3. /\ c \in RowType
      /\ Same(p, c, Word \ {"ful", "reason"})
      /\ \/ c.ful = p.ful /\ ~(p.ful = "cancelled" /\ p.reason = "payment_failed")
         \/ c.ful = "confirmed" /\ p.ful = "payment_pending"
         \/ c.ful = "confirmed" /\ p.ful = "cancelled" /\ p.reason = "payment_failed"
  BY <1>1, Confirm
<1>4. r \in RowType /\ Same(c, r, Word \ {"po"}) BY <1>3, PurchaseOrders
<1>5. Recovered(o, v) = r BY DEF Recovered
<1> HIDE DEF p, c, r
<1> QED BY <1>2, <1>3, <1>4, <1>5 DEF Same, Word

\* mark_payment_succeeded: an order that was cancelled for another reason than a
\* failed payment gets a refund request and stays cancelled.
LEMMA PaymentSucceeded ==
  ASSUME NEW o \in Orders, NEW t \in Txs, NEW v \in RowType, NEW st \in Nat
  PROVE  Sound(v, mark_payment_succeeded(o, t, v, st), TRUE)
<1> DEFINE r == [v EXCEPT !.txn = t]
           late == r.ful = "cancelled" /\ r.reason # "payment_failed"
           res == mark_payment_succeeded(o, t, v, st)
<1>1. r \in RowType BY Put
<1>2. Same(v, r, Word) BY DEF RowType, Same, Word
<1>3. CASE r.pay = "refunded"
  <2>1. res = Done(r, st, "ignored") BY <1>3 DEF mark_payment_succeeded
  <2> QED BY <2>1, <1>1, <1>2, SameKeeps, DoneSound
<1>4. CASE r.pay = "paid"
  <2> DEFINE a == [r EXCEPT !.attempt = "succeeded"]
  <2>1. res = Done(a, st, "already_processed") BY <1>4 DEF mark_payment_succeeded
  <2>2. a \in RowType BY <1>1, Put
  <2>3. Same(v, a, Word) BY DEF RowType, Same, Word
  <2> QED BY <2>1, <2>2, <2>3, SameKeeps, DoneSound
<1>5. CASE r.pay \notin {"refunded", "paid"} /\ late
  <2> DEFINE a == [r EXCEPT !.pay = "paid", !.attempt = "succeeded"]
             w == ensure_full_refund_request(a)
  <2>1. res = Done(w, st, "refund_requested") BY <1>5 DEF mark_payment_succeeded
  <2>2. a \in RowType
    <3>1. [r EXCEPT !.pay = "paid"] \in RowType BY <1>1, Put
    <3> QED BY <3>1, Put
  <2>3. Same(v, a, Word \ {"pay"}) BY DEF RowType, Same, Word
  <2>4. w \in RowType /\ Same(a, w, Word \ {"pay", "refund"}) BY <2>2, RefundRequest
  <2> HIDE DEF a, w
  <2>5. Keeps(v, w, TRUE) BY <2>3, <2>4, UnmovedKeeps DEF Same, Word, Safe
  <2> QED BY <2>1, <2>5, DoneSound
<1>6. CASE ~(r.pay = "refunded") /\ ~(r.pay = "paid") /\ ~late
  <2>1. CASE CannotRereserve(o, r, st)
    <3>1. res = Raise(v, st) BY <1>6, <2>1 DEF mark_payment_succeeded
    <3> QED BY <3>1, RaiseSound
  <2>2. CASE ~CannotRereserve(o, r, st)
    <3> DEFINE back == IF r.released THEN rereserve_order(o, r, st) ELSE [row |-> r, stock |-> st]
               w == Recovered(o, back.row)
    <3>1. res = Done(w, back.stock, "processed") BY <1>6, <2>2 DEF mark_payment_succeeded
    <3>2. back.row \in RowType /\ back.stock \in Nat /\ Same(r, back.row, Word \ {"resv"})
      <4>1. CASE r.released BY <4>1, <1>1, <2>2, RereserveOrder
      <4>2. CASE ~r.released BY <4>2, <1>1 DEF Same
      <4> QED BY <4>1, <4>2
    <3> HIDE DEF back
    <3>3. /\ w \in RowType /\ w.pay = "paid"
          /\ w.state = back.row.state \/ w.state # "absent"
          /\ \/ w.ful = back.row.ful
                /\ ~(back.row.ful = "cancelled" /\ back.row.reason = "payment_failed")
             \/ w.ful = "confirmed" /\ back.row.ful = "payment_pending"
             \/ w.ful = "confirmed" /\ back.row.ful = "cancelled"
                /\ back.row.reason = "payment_failed"
      BY <3>2, RecoveredRow
    <3>4. back.row.ful = v.ful /\ back.row.state = v.state /\ back.row.reason = v.reason
      BY <1>2, <3>2 DEF Same, Word
    <3>5. ~(v.ful = "cancelled" /\ v.reason # "payment_failed") BY <1>6, <1>2 DEF Same, Word
    <3> HIDE DEF w, r
    <3>6. w.ful # "cancelled" BY <3>3, <3>4, <3>5
    <3>7. ~Behind(v, w) BY <3>3, <3>4 DEF Behind, _forward_rank
    <3>8. Keeps(v, w, TRUE) BY <3>3, <3>4, <3>5, <3>6, <3>7 DEF Keeps, Safe
    <3> QED BY <3>1, <3>2, <3>8, DoneSound
  <2> QED BY <2>1, <2>2
<1> QED BY <1>3, <1>4, <1>5, <1>6

\* mark_payment_failed cancels and releases together.
LEMMA PaymentFailed ==
  ASSUME NEW o \in Orders, NEW t \in Txs, NEW v \in RowType, NEW st \in Nat
  PROVE  Sound(v, mark_payment_failed(o, t, v, st), FALSE)
<1> DEFINE r == [v EXCEPT !.txn = t]
           res == mark_payment_failed(o, t, v, st)
<1>1. r \in RowType BY Put
<1>2. Same(v, r, Word) BY DEF RowType, Same, Word
<1>3. CASE FailureIgnored(r)
  <2>1. res = Done(r, st, "ignored") BY <1>3 DEF mark_payment_failed
  <2> QED BY <2>1, <1>1, <1>2, SameKeeps, DoneSound
<1>4. CASE ~FailureIgnored(r) /\ (r.pay = "failed" \/ r.released)
  <2> DEFINE a == [r EXCEPT !.attempt = "failed"]
  <2>1. res = Done(a, st, "already_processed") BY <1>4 DEF mark_payment_failed
  <2>2. a \in RowType BY <1>1, Put
  <2>3. Same(v, a, Word) BY DEF RowType, Same, Word
  <2> QED BY <2>1, <2>2, <2>3, SameKeeps, DoneSound
<1>5. CASE ~FailureIgnored(r) /\ ~(r.pay = "failed" \/ r.released)
  <2>1. CASE ~CanCancel(r)
    <3>1. res = Raise(v, st) BY <1>5, <2>1 DEF mark_payment_failed
    <3> QED BY <3>1, RaiseSound
  <2>2. CASE CanCancel(r)
    <3> DEFINE a == [r EXCEPT !.pay = "failed", !.state = "cancel",
                              !.released = TRUE, !.attempt = "failed"]
               out == release_order(o, a, st)
               w == lifecycle_cancel(out.row, "payment_failed")
    <3>1. res = Done(w, out.stock, "processed") BY <1>5, <2>2 DEF mark_payment_failed
    <3>2. a \in RowType
      <4>1. [r EXCEPT !.pay = "failed"] \in RowType BY <1>1, Put
      <4>2. [r EXCEPT !.pay = "failed", !.state = "cancel"] \in RowType BY <4>1, Put
      <4>3. [r EXCEPT !.pay = "failed", !.state = "cancel", !.released = TRUE] \in RowType
        BY <4>2, Put
      <4> QED BY <4>3, Put
    <3>3. a.pay = "failed" /\ a.state = "cancel" /\ a.refund = v.refund /\ a.po = v.po
      BY DEF RowType
    <3>4. /\ out.row \in RowType /\ out.stock \in Nat
          /\ out.row.resv # "reserved" /\ Same(a, out.row, Word \ {"resv"})
      BY <3>2, ReleaseOrder
    <3>5. w \in RowType /\ w.ful = "cancelled" /\ Same(out.row, w, Word \ {"ful", "reason"})
      BY <3>4, LifecycleCancel
    <3> HIDE DEF a, out, w
    <3>6. Keeps(v, w, FALSE)
      BY <3>3, <3>4, <3>5 DEF Keeps, Same, Word, Safe, Charged, Behind, _forward_rank
    <3> QED BY <3>1, <3>4, <3>6, DoneSound
  <2> QED BY <2>1, <2>2
<1> QED BY <1>3, <1>4, <1>5

\* mark_payment_refunded acts on orders that were paid only.
LEMMA PaymentRefunded ==
  ASSUME NEW o \in Orders, NEW t \in Txs, NEW v \in RowType, NEW st \in Nat
  PROVE  Sound(v, mark_payment_refunded(o, t, v, st), FALSE)
<1> DEFINE r == [v EXCEPT !.txn = t]
           res == mark_payment_refunded(o, t, v, st)
<1>1. r \in RowType BY Put
<1>2. Same(v, r, Word) BY DEF RowType, Same, Word
<1>3. CASE r.pay = "refunded"
  <2> DEFINE a == [r EXCEPT !.attempt = "refunded"]
  <2>1. res = Done(a, st, "already_processed") BY <1>3 DEF mark_payment_refunded
  <2>2. a \in RowType BY <1>1, Put
  <2>3. Same(v, a, Word) BY DEF RowType, Same, Word
  <2> QED BY <2>1, <2>2, <2>3, SameKeeps, DoneSound
<1>4. CASE r.pay \in {"paid", "refund_requested"}
  <2> DEFINE a == [r EXCEPT !.pay = "refunded", !.attempt = "refunded",
                            !.refund = IF @ = "none" THEN @ ELSE "succeeded"]
  <2>1. res = Done(a, st, "processed") BY <1>4 DEF mark_payment_refunded
  <2>2. a \in RowType
    <3>1. [r EXCEPT !.pay = "refunded"] \in RowType BY <1>1, Put
    <3>2. [r EXCEPT !.pay = "refunded", !.attempt = "refunded"] \in RowType BY <3>1, Put
    <3> DEFINE b == [r EXCEPT !.pay = "refunded", !.attempt = "refunded"]
    <3>3. b \in RowType BY <3>2
    <3>4. a = [b EXCEPT !.refund = IF b.refund = "none" THEN b.refund ELSE "succeeded"] OBVIOUS
    <3> HIDE DEF b
    <3>5. [b EXCEPT !.refund = IF b.refund = "none" THEN b.refund ELSE "succeeded"] \in RowType
      BY <3>3, Put
    <3> QED BY <3>4, <3>5
  <2>3. Same(v, a, Word \ {"pay", "refund"}) BY DEF RowType, Same, Word
  <2>4. Charged(v) BY <1>4, <1>2 DEF Charged, Same, Word
  <2> HIDE DEF a
  <2>5. Keeps(v, a, FALSE) BY <2>2, <2>3, <2>4, UnmovedKeeps DEF Same, Word, Safe, Charged
  <2> QED BY <2>1, <2>5, DoneSound
<1>5. CASE r.pay \notin {"paid", "refund_requested", "refunded"}
  <2>1. res = Done(r, st, "ignored") BY <1>5 DEF mark_payment_refunded
  <2> QED BY <2>1, <1>1, <1>2, SameKeeps, DoneSound
<1> QED BY <1>3, <1>4, <1>5

\* Only the callback of a success counts as a payment.
LEMMA CallbackSound ==
  ASSUME NEW o \in Orders, NEW t \in Txs, NEW kind \in DOMAIN ProviderFlags,
         NEW v \in RowType, NEW st \in Nat,
         NEW paid \in BOOLEAN, paid <=> kind = "succeeded"
  PROVE  Sound(v, process_paymob_transaction(o, t, kind, v, st), paid)
<1> DEFINE res == process_paymob_transaction(o, t, kind, v, st)
           type == _callback_type(kind)
<1>1. /\ type \in {"pending", "succeeded", "refunded", "failed", "voided"}
      /\ type = "succeeded" => kind = "succeeded"
  BY DEF _callback_type, ProviderFlags
<1>2. CASE _binding_error(t, v)
  <2>1. res = Done(v, st, "rejected") BY <1>2 DEF process_paymob_transaction
  <2>2. Keeps(v, v, paid) BY SameKeeps DEF Same
  <2> QED BY <2>1, <2>2, DoneSound
<1> HIDE DEF type
<1>3. CASE ~_binding_error(t, v) /\ type = "pending"
  <2> DEFINE a == [v EXCEPT !.attempt = "pending", !.txn = t]
  <2>1. res = Done(a, st, "pending") BY <1>3 DEF process_paymob_transaction, type
  <2>2. a \in RowType
    <3>1. [v EXCEPT !.attempt = "pending"] \in RowType BY Put
    <3> QED BY <3>1, Put
  <2>3. Same(v, a, Word) BY DEF RowType, Same, Word
  <2> QED BY <2>1, <2>2, <2>3, SameKeeps, DoneSound
<1>4. CASE ~_binding_error(t, v) /\ type = "succeeded"
  <2>1. res = mark_payment_succeeded(o, t, v, st)
    BY <1>4 DEF process_paymob_transaction, type
  <2>2. paid BY <1>1, <1>4
  <2> QED BY <2>1, <2>2, PaymentSucceeded
<1>5. CASE ~_binding_error(t, v) /\ type = "refunded"
  <2>1. res = mark_payment_refunded(o, t, v, st)
    BY <1>5 DEF process_paymob_transaction, type
  <2> QED BY <2>1, PaymentRefunded DEF Sound, Keeps
<1>6. CASE ~_binding_error(t, v) /\ type \in {"failed", "voided"}
  <2>1. res = mark_payment_failed(o, t, v, st) BY <1>6 DEF process_paymob_transaction, type
  <2> QED BY <2>1, PaymentFailed DEF Sound, Keeps
<1> QED BY <1>1, <1>2, <1>3, <1>4, <1>5, <1>6

\* Checkout withholds units that are there, and charges nothing.
LEMMA CheckoutSound ==
  ASSUME NEW o \in Orders, NEW st \in Nat
  PROVE  Sound(NoRow, checkout(o, NoRow, st), FALSE)
<1> DEFINE w == [NoRow EXCEPT !.state = IF Cod(o) THEN "sent" ELSE "draft",
                              !.attempt = IF Cod(o) THEN "none" ELSE "pending",
                              !.ful = IF Cod(o) THEN "confirmed" ELSE "payment_pending",
                              !.resv = IF o \in Stocked THEN "reserved" ELSE "none"]
<1>1. CASE CannotReserve(o, st)
  <2>1. checkout(o, NoRow, st) = Raise(NoRow, st) BY <1>1 DEF checkout
  <2> QED BY <2>1, RaiseSound
<1>2. CASE ~CannotReserve(o, st)
  <2>1. checkout(o, NoRow, st) = Done(w, IF o \in Stocked THEN st - Qty[o] ELSE st, "placed")
    BY <1>2 DEF checkout, NoRow
  <2>2. (IF o \in Stocked THEN st - Qty[o] ELSE st) \in Nat
    BY <1>2, OrderAssumption DEF CannotReserve
  <2>3. NoRow \in RowType BY DEF NoRow, RowType, _forward_rank, PURCHASE_ORDER_TRANSITIONS
  <2>4. w \in RowType
    <3>1. [NoRow EXCEPT !.state = IF Cod(o) THEN "sent" ELSE "draft"] \in RowType
      BY <2>3, Put
    <3>2. [NoRow EXCEPT !.state = IF Cod(o) THEN "sent" ELSE "draft",
                        !.attempt = IF Cod(o) THEN "none" ELSE "pending"] \in RowType
                          BY <3>1, Put
    <3>3. [NoRow EXCEPT !.state = IF Cod(o) THEN "sent" ELSE "draft",
                        !.attempt = IF Cod(o) THEN "none" ELSE "pending",
                        !.ful = IF Cod(o) THEN "confirmed" ELSE "payment_pending"] \in RowType
      BY <3>2, Put
    <3> QED BY <3>3, Put
  <2>5. /\ w.state # "absent" /\ w.ful # "cancelled"
        /\ w.pay = "pending" /\ w.refund = "none" /\ w.po = "none"
        /\ NoRow.ful = "none"
    BY DEF NoRow
  <2> HIDE DEF w
  <2>6. Keeps(NoRow, w, FALSE)
    BY <2>4, <2>5 DEF Keeps, Safe, Charged, Behind, _forward_rank
  <2> QED BY <2>1, <2>2, <2>6, DoneSound
<1> QED BY <1>1, <1>2

\* The status route writes the state of the order and nothing else.
LEMMA StatusSound ==
  ASSUME NEW v \in RowType, NEW st \in Nat, NEW target \in {"sent", "sale", "done", "cancel"}
  PROVE  Sound(v, update_order_state(target, v, st), FALSE)
<1> DEFINE w == [v EXCEPT !.state = target]
<1>1. w \in RowType BY Put
<1>2. Same(v, w, Word \ {"state"}) /\ w.state = target BY DEF RowType, Same, Word
<1>3. update_order_state(target, v, st) \in {Done(w, st, "updated"), Raise(v, st)}
  BY DEF update_order_state
<1> HIDE DEF w
<1>4. Keeps(v, w, FALSE) BY <1>1, <1>2, UnmovedKeeps DEF Same, Word, Safe, Charged
<1> QED BY <1>3, <1>4, RaiseSound, DoneSound

\* The customer's cancellation releases what it cancels, and asks for a refund of
\* a paid order only.
LEMMA CancelSound ==
  ASSUME NEW o \in Orders, NEW v \in RowType, NEW st \in Nat
  PROVE  Sound(v, cancel(o, v, st), FALSE)
<1> DEFINE r == lifecycle_cancel(v, "requested")
           p == IF r.po = "draft"
                THEN [r EXCEPT !.po = "cancelled",
                               !.drop = IF @ \in {"shipped", "delivered"} THEN @ ELSE "cancelled"]
                ELSE r
           q == [p EXCEPT !.released = TRUE, !.state = "cancel"]
           out == release_order(o, q, st)
           w == IF v.pay = "paid" /\ o \in Electronic
                THEN ensure_full_refund_request(out.row) ELSE out.row
           res == cancel(o, v, st)
<1>1. CASE v.ful = "cancelled"
  <2>1. res = Done(v, st, "unchanged") BY <1>1 DEF cancel
  <2>2. Keeps(v, v, FALSE) BY SameKeeps DEF Same
  <2> QED BY <2>1, <2>2, DoneSound
<1>2. CASE v.ful # "cancelled" /\ (v.po \in {"sent", "partial", "received"} \/ ~CanCancel(v))
  <2>1. res = Raise(v, st) BY <1>2 DEF cancel
  <2> QED BY <2>1, RaiseSound
<1>3. CASE v.ful # "cancelled" /\ ~(v.po \in {"sent", "partial", "received"} \/ ~CanCancel(v))
  <2>1. res = Done(w, out.stock, "cancelled") BY <1>3 DEF cancel
  <2>2. r \in RowType /\ r.ful = "cancelled" /\ Same(v, r, Word \ {"ful", "reason"})
    BY LifecycleCancel
  <2> HIDE DEF r
  <2>3. /\ p \in RowType /\ p.ful = "cancelled"
        /\ Same(r, p, Word \ {"po"}) /\ (p.po # "none" => r.po # "none")
    <3>1. CASE r.po # "draft" BY <3>1, <2>2 DEF Same
    <3>2. CASE r.po = "draft"
      <4> DEFINE b == [r EXCEPT !.po = "cancelled"]
                 c == [b EXCEPT !.drop = IF b.drop \in {"shipped", "delivered"} THEN b.drop
                                         ELSE "cancelled"]
      <4>1. p = c BY <3>2
      <4>2. b \in RowType BY <2>2, Put
      <4>3. b.ful = "cancelled" /\ Same(r, b, Word \ {"po"}) BY <2>2 DEF RowType, Same, Word
      <4> HIDE DEF b
      <4>4. c \in RowType BY <4>2, Put
      <4>5. Same(b, c, Word) BY <4>2 DEF RowType, Same, Word
      <4> HIDE DEF c, p
      <4> QED BY <3>2, <4>1, <4>3, <4>4, <4>5 DEF Same, Word
    <3> QED BY <3>1, <3>2
  <2> HIDE DEF p
  <2>4. q \in RowType
    <3>1. [p EXCEPT !.released = TRUE] \in RowType BY <2>3, Put
    <3> QED BY <3>1, Put
  <2>5. Same(p, q, Word \ {"state"}) /\ q.state = "cancel" BY <2>3 DEF RowType, Same, Word
  <2> HIDE DEF q
  <2>6. /\ out.row \in RowType /\ out.stock \in Nat
        /\ out.row.resv # "reserved" /\ Same(q, out.row, Word \ {"resv"})
    BY <2>4, ReleaseOrder
  <2> HIDE DEF out
  <2>7. w \in RowType /\ Same(out.row, w, Word \ {"pay", "refund"})
    BY <2>6, RefundRequest DEF Same
  <2>8. v.pay # "paid" => w = out.row OBVIOUS
  <2> HIDE DEF w
  <2>9. w.ful = "cancelled" /\ w.state = "cancel" /\ w.resv # "reserved"
    BY <2>3, <2>5, <2>6, <2>7 DEF Same, Word
  <2>10. Charged(w) => Charged(v)
    BY <2>2, <2>3, <2>5, <2>6, <2>7, <2>8 DEF Same, Word, Charged
  <2>11. Keeps(v, w, FALSE)
    BY <2>7, <2>9, <2>10 DEF Keeps, Safe, Behind, _forward_rank
  <2> QED BY <2>1, <2>6, <2>11, DoneSound
<1> QED BY <1>1, <1>2, <1>3

\* A refund is requested for a paid order only.
LEMMA RefundSound ==
  ASSUME NEW v \in RowType, NEW st \in Nat
  PROVE  Sound(v, request_refund(v, st), FALSE)
<1> DEFINE w == ensure_full_refund_request(v)
<1>1. CASE v.pay \in {"paid", "refund_requested"} /\ v.attempt = "succeeded"
  <2>1. request_refund(v, st) = Done(w, st, "refund_requested") BY <1>1 DEF request_refund
  <2>2. w \in RowType /\ Same(v, w, Word \ {"pay", "refund"}) BY RefundRequest
  <2> HIDE DEF w
  <2>3. Keeps(v, w, FALSE) BY <1>1, <2>2, UnmovedKeeps DEF Same, Word, Safe, Charged
  <2> QED BY <2>1, <2>3, DoneSound
<1>2. CASE ~(v.pay \in {"paid", "refund_requested"} /\ v.attempt = "succeeded")
  <2>1. request_refund(v, st) = Raise(v, st) BY <1>2 DEF request_refund
  <2> QED BY <2>1, RaiseSound
<1> QED BY <1>1, <1>2

\* Dispatch moves a status forward, and reserves nothing.
LEMMA DispatchSound ==
  ASSUME NEW o \in Orders, NEW v \in RowType, NEW taken, NEW st \in Nat
  PROVE  Sound(v, dispatch_order(o, v, taken, st), FALSE)
<1> DEFINE vetted == v.state = "sent" /\ Cod(o)
           leg == IF LocalRequired(v) \/ o \notin Dropship THEN "local" ELSE "dropship"
           a == IF v.ful = "payment_pending" /\ vetted THEN [v EXCEPT !.ful = "confirmed"] ELSE v
           b == [a EXCEPT !.picking = "done", !.pick = "shipped",
                          !.leg = IF @ = "none" THEN leg ELSE @,
                          !.state = IF @ \in {"sale", "sent"} THEN "done" ELSE @]
           c == IF leg = "local" /\ v.picking # "done" THEN mark_order_consumed(b) ELSE b
           w == IF _all_required_shipments_in(c, {"shipped", "delivered"})
                THEN force_forward_from_integration(c, "shipped") ELSE c
           refused == (v.state \notin {"sale", "done"} /\ ~vetted) \/ taken
           res == dispatch_order(o, v, taken, st)
<1>1. CASE refused
  <2>1. res = Raise(v, st) BY <1>1 DEF dispatch_order
  <2> QED BY <2>1, RaiseSound
<1>2. CASE ~refused
  <2>1. res = Done(w, st, "dispatched") BY <1>2 DEF dispatch_order
  <2> HIDE DEF leg, vetted, refused
  <2>2. /\ a \in RowType /\ Same(v, a, Word \ {"ful"})
        /\ a.ful = v.ful \/ (v.ful = "payment_pending" /\ a.ful = "confirmed")
    <3>1. a \in RowType BY Put
    <3>2. Same(v, a, Word \ {"ful"}) BY DEF RowType, Same, Word
    <3>3. a.ful = v.ful \/ (v.ful = "payment_pending" /\ a.ful = "confirmed") BY DEF RowType
    <3> QED BY <3>1, <3>2, <3>3
  <2> HIDE DEF a
  <2>3. /\ b \in RowType /\ Same(a, b, Word \ {"state"})
        /\ b.state = a.state \/ b.state = "done"
    <3> DEFINE d == [a EXCEPT !.picking = "done", !.pick = "shipped"]
               e == [d EXCEPT !.leg = IF d.leg = "none" THEN leg ELSE d.leg]
               f == [e EXCEPT !.state = IF e.state \in {"sale", "sent"} THEN "done" ELSE e.state]
    <3>1. b = f OBVIOUS
    <3>2. leg \in {"local", "dropship"} BY DEF leg
    <3>3. d \in RowType
      <4>1. [a EXCEPT !.picking = "done"] \in RowType BY <2>2, Put
      <4> QED BY <4>1, Put
    <3>4. Same(a, d, Word) BY <2>2 DEF RowType, Same, Word
    <3> HIDE DEF d
    <3>5. (IF d.leg = "none" THEN leg ELSE d.leg) \in {"none", "local", "dropship"}
      BY <3>2, <3>3 DEF RowType
    <3>6. e \in RowType BY <3>3, <3>5, Put
    <3>7. Same(d, e, Word) BY <3>3 DEF RowType, Same, Word
    <3> HIDE DEF e
    <3>8. f \in RowType
      <4>1. CASE e.state \in {"sale", "sent"} BY <4>1, <3>6, Put
      <4>2. CASE e.state \notin {"sale", "sent"} BY <4>2, <3>6 DEF RowType
      <4> QED BY <4>1, <4>2
    <3>9. Same(e, f, Word \ {"state"}) /\ (f.state = e.state \/ f.state = "done")
      BY <3>6 DEF RowType, Same, Word
    <3> HIDE DEF f, b
    <3> QED BY <3>1, <3>4, <3>7, <3>8, <3>9 DEF Same, Word
  <2> HIDE DEF b
  <2>4. /\ c \in RowType /\ Same(b, c, Word \ {"resv"})
        /\ c.resv = b.resv \/ c.resv # "reserved"
    BY <2>3, MarkConsumed DEF Same
  <2> HIDE DEF c
  <2>5. /\ w \in RowType /\ Same(c, w, Word \ {"ful"})
        /\ (w.ful = "cancelled" <=> c.ful = "cancelled")
        /\ w.ful = c.ful \/ ~Behind(c, w)
    BY <2>4, ForceForward DEF Same
  <2> HIDE DEF w
  <2>6. /\ w.state = v.state \/ w.state # "absent"
        /\ w.pay = v.pay /\ w.refund = v.refund /\ w.po = v.po
        /\ (w.ful = "cancelled" <=> v.ful = "cancelled")
        /\ w.resv = v.resv \/ w.resv # "reserved"
    BY <2>2, <2>3, <2>4, <2>5 DEF Same, Word
  <2>7. ~Behind(v, w)
    BY <2>2, <2>3, <2>4, <2>5 DEF Same, Word, Behind, _forward_rank
  <2>8. Keeps(v, w, FALSE) BY <2>5, <2>6, <2>7 DEF Keeps, Safe, Charged
  <2> QED BY <2>1, <2>8, DoneSound
<1> QED BY <1>1, <1>2

\* The status after a delivery: forward or where it was.
LEMMA ForwardedRow ==
  ASSUME NEW v \in RowType
  PROVE  LET r == Forwarded(v) IN
         /\ r \in RowType /\ Same(v, r, Word \ {"ful"})
         /\ (r.ful = "cancelled" <=> v.ful = "cancelled")
         /\ ~Behind(v, r)
<1>1. ~Behind(v, v) BY DEF Behind, _forward_rank
<1> QED BY <1>1, ForceForward DEF Forwarded, Same

\* A leg that moves and then the status that follows it keep the promises.
LEMMA ForwardKeeps ==
  ASSUME NEW v \in RowType, NEW u \in RowType, NEW w \in RowType,
         Same(v, u, Word), Same(u, w, Word \ {"ful"}),
         w.ful = "cancelled" <=> u.ful = "cancelled", ~Behind(u, w)
  PROVE  Keeps(v, w, FALSE)
<1>1. ~Behind(v, w) BY DEF Behind, Same, Word
<1> QED BY <1>1 DEF Keeps, Same, Word, Safe, Charged

\* mark_delivered keeps the promises.
LEMMA DeliveredSound ==
  ASSUME NEW v \in RowType, NEW st \in Nat, NEW last \in {"pick", "drop"}
  PROVE  Sound(v, mark_delivered(last, v, st), FALSE)
<1> DEFINE u == [v EXCEPT ![last] = "delivered"]
           w == Forwarded(u)
<1>1. CASE v[last] # "shipped"
  <2>1. mark_delivered(last, v, st) = Raise(v, st) BY <1>1 DEF mark_delivered
  <2> QED BY <2>1, RaiseSound
<1>2. CASE v[last] = "shipped"
  <2>1. mark_delivered(last, v, st) = Done(w, st, "delivered") BY <1>2 DEF mark_delivered
  <2>2. u \in RowType
    <3>1. [v EXCEPT !.pick = "delivered"] \in RowType BY Put
    <3>2. [v EXCEPT !.drop = "delivered"] \in RowType BY Put
    <3>3. last = "pick" \/ last = "drop" OBVIOUS
    <3> QED BY <3>1, <3>2, <3>3
  <2>3. Same(v, u, Word) BY DEF RowType, Same, Word
  <2> HIDE DEF u
  <2>4. Keeps(v, w, FALSE) BY <2>2, <2>3, ForwardedRow, ForwardKeeps
  <2> QED BY <2>1, <2>4, DoneSound
<1> QED BY <1>1, <1>2

\* A supplier's update keeps the promises.
LEMMA SupplierSound ==
  ASSUME NEW v \in RowType, NEW st \in Nat, NEW status \in {"shipped", "delivered", "exception"}
  PROVE  Sound(v, update_supplier_shipment(status, v, st), FALSE)
<1> DEFINE u == [v EXCEPT !.drop = status]
           w == IF _all_required_shipments_in(u, {"delivered"}) THEN Forwarded(u)
                ELSE IF _all_required_shipments_in(u, {"shipped", "delivered"})
                     THEN force_forward_from_integration(u, "shipped") ELSE u
           res == update_supplier_shipment(status, v, st)
<1>1. CASE v.po = "none"
  <2>1. res = Raise(v, st) BY <1>1 DEF update_supplier_shipment
  <2> QED BY <2>1, RaiseSound
<1>2. CASE v.po # "none" /\ v.drop = "delivered" /\ status # "delivered"
  <2>1. res = Done(v, st, "unchanged") BY <1>2 DEF update_supplier_shipment
  <2>2. Keeps(v, v, FALSE) BY SameKeeps DEF Same
  <2> QED BY <2>1, <2>2, DoneSound
<1>3. CASE v.po # "none" /\ ~(v.drop = "delivered" /\ status # "delivered")
  <2>1. res = Done(w, st, "updated") BY <1>3 DEF update_supplier_shipment
  <2>2. u \in RowType BY Put
  <2>3. Same(v, u, Word) BY DEF RowType, Same, Word
  <2> HIDE DEF u
  <2>4. ~Behind(u, u) BY DEF Behind, _forward_rank
  <2>5. /\ w \in RowType /\ Same(u, w, Word \ {"ful"})
        /\ (w.ful = "cancelled" <=> u.ful = "cancelled") /\ ~Behind(u, w)
    BY <2>2, <2>4, ForceForward, ForwardedRow DEF Same
  <2> HIDE DEF w
  <2>6. Keeps(v, w, FALSE) BY <2>2, <2>3, <2>5, ForwardKeeps
  <2> QED BY <2>1, <2>6, DoneSound
<1> QED BY <1>1, <1>2, <1>3

\* A purchase order changes status only once it exists.
LEMMA PurchaseOrderSound ==
  ASSUME NEW v \in RowType, NEW st \in Nat,
         NEW target \in {"sent", "partial", "received", "cancelled"}
  PROVE  Sound(v, update_purchase_order(target, v, st), FALSE)
<1> DEFINE w == [v EXCEPT !.po = target]
<1>1. CASE target \notin PURCHASE_ORDER_TRANSITIONS[v.po]
  <2>1. update_purchase_order(target, v, st) = Raise(v, st)
    BY <1>1 DEF update_purchase_order
  <2> QED BY <2>1, RaiseSound
<1>2. CASE target \in PURCHASE_ORDER_TRANSITIONS[v.po]
  <2>1. update_purchase_order(target, v, st) = Done(w, st, "updated")
    BY <1>2 DEF update_purchase_order
  <2>2. w \in RowType BY Put
  <2>3. Same(v, w, Word \ {"po"}) BY DEF RowType, Same, Word
  <2>4. v.po # "none" BY <1>2 DEF PURCHASE_ORDER_TRANSITIONS
  <2> HIDE DEF w
  <2>5. Keeps(v, w, FALSE) BY <2>2, <2>3, <2>4, UnmovedKeeps DEF Same, Word, Safe, Charged
  <2> QED BY <2>1, <2>5, DoneSound
<1> QED BY <1>1, <1>2

\* The Odoo webhook never acts on a cancelled order, and releases what it cancels.
LEMMA OdooSound ==
  ASSUME NEW o \in Orders, NEW v \in RowType, NEW st \in Nat, NEW status \in DOMAIN OdooTarget
  PROVE  Sound(v, odoo_order_status_webhook(o, status, v, st), FALSE)
<1> DEFINE to == OdooTarget[status]
           leg == IF v.leg # "none" THEN v.leg ELSE IF o \in Dropship THEN "dropship" ELSE "local"
           pick == CASE to.ful \in {"shipped", "delivered"} -> to.ful
                     [] to.ful = "cancelled" ->
                          IF v.pick \in {"shipped", "delivered"} THEN v.pick ELSE "cancelled"
                     [] OTHER -> IF v.pick = "none" THEN "pending" ELSE v.pick
           a == [v EXCEPT !.state = to.state, !.picking = to.picking, !.leg = leg, !.pick = pick]
           b == IF status = "shipped" /\ v.picking # "done" /\ leg # "dropship"
                THEN mark_order_consumed(a) ELSE a
           k == lifecycle_cancel(a, "odoo_cancelled")
           q == [k EXCEPT !.released = TRUE]
           freed == release_order(o, q, st)
           w == force_forward_from_integration(b, to.ful)
           res == odoo_order_status_webhook(o, status, v, st)
<1>1. CASE ~_can_apply_fulfillment(v, status)
  <2>1. res = Done(v, st, "stale") BY <1>1 DEF odoo_order_status_webhook
  <2>2. Keeps(v, v, FALSE) BY SameKeeps DEF Same
  <2> QED BY <2>1, <2>2, DoneSound
<1>2. /\ to.state \in {"sent", "sale", "done", "cancel"}
      /\ to.picking \in {"open", "done", "cancel"}
      /\ to.ful \in {"confirmed", "processing", "shipped", "delivered", "cancelled"}
      /\ status # "cancel" => to.ful # "cancelled"
  BY DEF OdooTarget
<1>3. leg \in {"local", "dropship"} BY DEF RowType
<1>4. pick \in {"none", "pending", "shipped", "delivered", "cancelled"} BY <1>2 DEF RowType
<1>5. v.ful # "cancelled" \/ ~_can_apply_fulfillment(v, status)
  BY DEF _can_apply_fulfillment
<1>6. a = [v EXCEPT !.state = to.state, !.picking = to.picking, !.leg = leg,
                    !.pick = CASE to.ful \in {"shipped", "delivered"} -> to.ful
                               [] to.ful = "cancelled" ->
                                    IF @ \in {"shipped", "delivered"} THEN @ ELSE "cancelled"
                               [] OTHER -> IF @ = "none" THEN "pending" ELSE @]
  BY DEF RowType
<1> HIDE DEF pick
<1>7. a \in RowType
  <2>1. [v EXCEPT !.state = to.state] \in RowType BY <1>2, Put
  <2>2. [v EXCEPT !.state = to.state, !.picking = to.picking] \in RowType BY <2>1, <1>2, Put
  <2> DEFINE u == [v EXCEPT !.state = to.state, !.picking = to.picking, !.leg = leg]
  <2>3. u \in RowType BY <2>2, <1>3, Put
  <2>4. a = [u EXCEPT !.pick = pick] OBVIOUS
  <2> HIDE DEF u, a, leg
  <2>5. [u EXCEPT !.pick = pick] \in RowType BY <2>3, <1>4, Put
  <2> QED BY <2>4, <2>5
<1>8. Same(v, a, Word \ {"state"}) /\ a.state = to.state
  <2>1. DOMAIN v = DOMAIN NoRow BY DEF RowType, NoRow
  <2>2. a.state = to.state BY <2>1 DEF NoRow
  <2>3. \A f \in DOMAIN NoRow \ {"state", "picking", "leg", "pick"} : a[f] = v[f] BY <2>1
  <2>4. Word \ {"state"} \subseteq DOMAIN NoRow \ {"state", "picking", "leg", "pick"}
    BY DEF Word, NoRow
  <2> HIDE DEF a
  <2> QED BY <2>2, <2>3, <2>4 DEF Same
<1>9. CASE _can_apply_fulfillment(v, status) /\ status = "cancel"
  <2>1. res = Done(freed.row, freed.stock, "processed")
    BY <1>6, <1>9 DEF odoo_order_status_webhook
  <2> HIDE DEF a
  <2>2. k \in RowType /\ k.ful = "cancelled" /\ Same(a, k, Word \ {"ful", "reason"})
    BY <1>7, LifecycleCancel
  <2> HIDE DEF k
  <2>3. q \in RowType BY <2>2, Put
  <2>4. Same(k, q, Word) BY <2>2 DEF RowType, Same, Word
  <2> HIDE DEF q
  <2>5. /\ freed.row \in RowType /\ freed.stock \in Nat
        /\ freed.row.resv # "reserved" /\ Same(q, freed.row, Word \ {"resv"})
    BY <2>3, ReleaseOrder
  <2> HIDE DEF freed, to
  <2>6. /\ freed.row.ful = "cancelled" /\ freed.row.state = to.state
        /\ freed.row.pay = v.pay /\ freed.row.refund = v.refund /\ freed.row.po = v.po
    BY <1>8, <2>2, <2>4, <2>5 DEF Same, Word
  <2>7. Keeps(v, freed.row, FALSE)
    BY <1>2, <2>5, <2>6 DEF Keeps, Safe, Charged, Behind, _forward_rank
  <2> QED BY <2>1, <2>5, <2>7, DoneSound
<1>10. CASE _can_apply_fulfillment(v, status) /\ status # "cancel"
  <2>1. res = Done(w, st, "processed") BY <1>6, <1>10 DEF odoo_order_status_webhook
  <2> HIDE DEF a
  <2>2. b \in RowType /\ Same(a, b, Word \ {"resv"}) BY <1>7, MarkConsumed DEF Same
  <2> HIDE DEF b, to
  <2>3. /\ w \in RowType /\ Same(b, w, Word \ {"ful"})
        /\ (w.ful = "cancelled" <=> b.ful = "cancelled") /\ ~Behind(b, w)
    BY <1>2, <1>10, <2>2, ForceForward
  <2> HIDE DEF w
  <2>4. /\ b.ful = v.ful /\ w.state = to.state /\ w.ful # "cancelled"
        /\ w.pay = v.pay /\ w.refund = v.refund /\ w.po = v.po
    BY <1>5, <1>8, <1>10, <2>2, <2>3 DEF Same, Word
  <2>5. ~Behind(v, w) BY <2>3, <2>4 DEF Behind
  <2>6. Keeps(v, w, FALSE) BY <1>2, <1>5, <1>10, <2>3, <2>4, <2>5 DEF Keeps, Safe, Charged
  <2> QED BY <2>1, <2>6, DoneSound
<1> QED BY <1>1, <1>9, <1>10

-------------------------------------------------------------------------------
(* What a handler saw, and what it flushes *)

\* Columns of two rows put together are a row.
LEMMA MergedRow ==
  ASSUME NEW v \in RowType, NEW w \in RowType, NEW F
  PROVE  [f \in DOMAIN NoRow |-> IF f \in F THEN v[f] ELSE w[f]] \in RowType
BY DEF NoRow, RowType

\* Columns that no handler reads before it holds the lock.
Locked == {"ful", "reason", "resv", "refund", "po"}

\* The flush writes changed attributes over the current row.  The columns that are
\* read under the lock carry the promises over, however old the others are.
LEMMA FlushKeeps ==
  ASSUME NEW cur \in RowType, NEW view \in RowType, NEW new, NEW paid,
         Keeps(view, new, paid), Same(cur, view, Locked), paid => cur.pay = view.pay
  PROVE  LET w == Flush(cur, view, new) IN
         /\ w \in RowType
         /\ Safe(cur) => Safe(w)
         /\ Charged(w) => Charged(cur) \/ Charged(view) \/ paid
         /\ cur.ful = "cancelled" /\ w.ful # "cancelled" =>
              cur.reason = "payment_failed" /\ w.ful = "confirmed" /\ w.pay = "paid"
         /\ ~Behind(cur, w)
         /\ cur.state # "absent" \/ (cur.state = view.state /\ new.state # "absent")
              => w.state # "absent"
<1> DEFINE w == Flush(cur, view, new)
           F == {f \in DOMAIN NoRow : new[f] # view[f]}
<1>1. new \in RowType BY DEF Keeps
<1>2. w = [f \in DOMAIN NoRow |-> IF f \in F THEN new[f] ELSE cur[f]] BY DEF Flush
<1>3. w \in RowType
  <2> HIDE DEF F
  <2>1. [f \in DOMAIN NoRow |-> IF f \in F THEN new[f] ELSE cur[f]] \in RowType
    BY <1>1, MergedRow
  <2> QED BY <1>2, <2>1
<1>4. \A f \in DOMAIN NoRow : w[f] = IF new[f] # view[f] THEN new[f] ELSE cur[f]
  BY DEF Flush
<1> HIDE DEF w
<1>5. /\ w.ful = new.ful /\ w.reason = new.reason /\ w.resv = new.resv
      /\ w.refund = new.refund /\ w.po = new.po
  BY <1>4 DEF Same, Locked, NoRow
<1>6. /\ w.pay = new.pay \/ w.pay = cur.pay
      /\ paid => w.pay = new.pay
      /\ w.state = IF new.state # view.state THEN new.state ELSE cur.state
  BY <1>4 DEF NoRow
<1>7. Safe(cur) => Safe(w) BY <1>5 DEF Keeps, Safe, Same, Locked
<1>8. Charged(w) => Charged(cur) \/ Charged(view) \/ paid
  BY <1>5, <1>6 DEF Keeps, Charged
<1>9. cur.ful = "cancelled" /\ w.ful # "cancelled" =>
        cur.reason = "payment_failed" /\ w.ful = "confirmed" /\ w.pay = "paid"
  BY <1>5, <1>6 DEF Keeps, Same, Locked
<1>10. ~Behind(cur, w) BY <1>5 DEF Keeps, Behind, Same, Locked
<1>11. cur.state # "absent" \/ (cur.state = view.state /\ new.state # "absent")
         => w.state # "absent"
  BY <1>6 DEF Keeps
<1> QED BY <1>3, <1>7, <1>8, <1>9, <1>10, <1>11 DEF w

-------------------------------------------------------------------------------
(* The inductive invariant *)

\* What a request has read was once the row of its order.
ReadsARow(s) ==
    \E was \in RowType :
        /\ \A f \in Unlocked(sess[s].op) \cup ReadLate(sess[s].op) : sess[s].read[f] = was[f]
        /\ Charged(was) => Captured(sess[s].o)

\* A request in flight is about an order, and has read a row of it.
SessionOK(s) ==
    /\ sess[s].o \in Orders
    /\ sess[s].op \in {"callback", "cancel", "status", "dispatch", "supplier"}
    /\ sess[s].op = "callback" => sess[s].arg \in callbacks /\ sess[s].arg[1] = sess[s].o
    /\ sess[s].op = "status" => sess[s].arg \in StateTargets
    /\ sess[s].op = "supplier" => sess[s].arg \in {"shipped", "delivered", "exception"}
    /\ ReadsARow(s)

IInv == /\ TypeOK
        /\ CancelledHoldsNoStock
        /\ NothingFollowsFromUnpaid
        /\ \A o \in Orders : ~Placed(o) => row[o] = NoRow
        /\ sess = [s \in Sessions |-> sess[s]]
        /\ \A s \in Sessions : sess[s] # Free => SessionOK(s)
        /\ paymob \in [Orders \X Txs -> DOMAIN ProviderMoves]
        /\ callbacks \subseteq Orders \X Txs \X DOMAIN ProviderFlags

\* The part of the invariant about the rows.
RowsOK == /\ row \in [Orders -> RowType]
          /\ stock \in Nat
          /\ CancelledHoldsNoStock
          /\ NothingFollowsFromUnpaid
          /\ \A o \in Orders : ~Placed(o) => row[o] = NoRow

\* The part about the requests in flight.
SessOK == /\ sess = [s \in Sessions |-> sess[s]]
          /\ \A s \in Sessions : sess[s] # Free =>
                /\ SessionOK(s)
                /\ sess[s].op \in Operations
                /\ Placed(sess[s].o)
                /\ DOMAIN sess[s].read = Unlocked(sess[s].op) \cup ReadLate(sess[s].op)

\* The part about the provider.
PaymobOK == /\ paymob \in [Orders \X Txs -> DOMAIN ProviderMoves]
            /\ callbacks \subseteq Orders \X Txs \X DOMAIN ProviderFlags
            /\ receipts \subseteq callbacks

\* The invariant is about the rows, the sessions and the provider.
LEMMA Parts == IInv <=> RowsOK /\ SessOK /\ PaymobOK
<1>1. IInv => RowsOK /\ SessOK /\ PaymobOK BY DEF IInv, TypeOK, RowsOK, SessOK, PaymobOK
<1>2. RowsOK /\ SessOK /\ PaymobOK => IInv BY DEF IInv, TypeOK, RowsOK, SessOK, PaymobOK
<1> QED BY <1>1, <1>2

\* The same in the next state.
LEMMA NextParts == RowsOK' /\ SessOK' /\ PaymobOK' => IInv'
BY Parts, PTL

\* What a step may do to the fulfilment of an order: NeverReopened for one step.
StepOnward == \A o \in Orders :
                 /\ row[o].ful = "cancelled" /\ row'[o].ful # "cancelled" =>
                      row[o].reason = "payment_failed" /\ row'[o].ful = "confirmed"
                      /\ row'[o].pay = "paid"
                 /\ ~Behind(row[o], row'[o])

\* At the start there are no orders and no requests.
LEMMA InitIInv == Init => IInv
<1> SUFFICES ASSUME Init PROVE RowsOK /\ SessOK /\ PaymobOK BY Parts
<1>1. NoRow \in RowType BY DEF NoRow, RowType, _forward_rank, PURCHASE_ORDER_TRANSITIONS
<1>2. RowsOK
  BY <1>1, OrderAssumption
  DEF Init, RowsOK, CancelledHoldsNoStock, NothingFollowsFromUnpaid, NoRow, Placed
<1>3. SessOK BY DEF Init, SessOK
<1>4. PaymobOK BY DEF Init, PaymobOK, ProviderMoves
<1> QED BY <1>2, <1>3, <1>4

\* Committing what a sound handler returns keeps the rows in order, whatever was
\* stale in its view of them.
LEMMA CommitKeeps ==
  ASSUME RowsOK, NEW o \in Orders, NEW view \in RowType, NEW res, NEW paid,
         Commit(o, view, res), Sound(view, res, paid),
         Same(row[o], view, Locked), paid => row[o].pay = view.pay,
         res.outcome # "error" =>
           Placed(o) \/ (row[o].state = view.state /\ res.row.state # "absent"),
         Charged(view) => Captured(o),
         paid /\ res.outcome # "error" => Captured(o)',
         receipts \subseteq receipts'
  PROVE  /\ RowsOK' /\ StepOnward
         /\ \A p \in Orders : Placed(p) => Placed(p)'
<1> DEFINE w == Flush(row[o], view, res.row)
<1>1. stock' \in Nat BY DEF Commit, Sound
<1>2. \A p \in Orders : Captured(p) => Captured(p)' BY DEF Captured
<1>3. \A v \in RowType : ~Behind(v, v) BY DEF Behind, _forward_rank
<1>4. row \in [Orders -> RowType] BY DEF RowsOK
<1>5. CASE res.outcome = "error"
  <2>1. row' = row BY <1>5 DEF Commit
  <2> QED BY <2>1, <1>1, <1>2, <1>3, <1>4
    DEF RowsOK, CancelledHoldsNoStock, NothingFollowsFromUnpaid, Placed, StepOnward
<1>6. CASE res.outcome # "error"
  <2>1. row' = [row EXCEPT ![o] = w] BY <1>6 DEF Commit
  <2>2. /\ w \in RowType
        /\ Safe(row[o]) => Safe(w)
        /\ Charged(w) => Charged(row[o]) \/ Charged(view) \/ paid
        /\ row[o].ful = "cancelled" /\ w.ful # "cancelled" =>
             row[o].reason = "payment_failed" /\ w.ful = "confirmed" /\ w.pay = "paid"
        /\ ~Behind(row[o], w)
        /\ w.state # "absent"
    <3>1. Keeps(view, res.row, paid) BY <1>6 DEF Sound
    <3> QED BY <3>1, <1>4, <1>6, FlushKeeps DEF Placed
  <2> HIDE DEF w
  <2>3. row' \in [Orders -> RowType] /\ row'[o] = w /\ \A p \in Orders \ {o} : row'[p] = row[p]
    BY <1>4, <2>1, <2>2
  <2>4. CancelledHoldsNoStock'
    BY <2>2, <2>3 DEF RowsOK, CancelledHoldsNoStock, Safe
  <2>5. NothingFollowsFromUnpaid'
    <3>1. \A p \in Orders : Charged(row[p]) => Captured(p)
      BY DEF RowsOK, NothingFollowsFromUnpaid, Charged
    <3>2. Charged(w) => Captured(o)' BY <3>1, <2>2, <1>2, <1>6
    <3>3. \A p \in Orders : Charged(row'[p]) => Captured(p)' BY <3>1, <3>2, <2>3, <1>2
    <3> QED BY <3>3 DEF NothingFollowsFromUnpaid, Charged
  <2>6. \A p \in Orders : Placed(p) => Placed(p)' BY <2>2, <2>3 DEF Placed
  <2>7. (\A p \in Orders : ~Placed(p) => row[p] = NoRow)' BY <2>2, <2>3 DEF Placed, RowsOK
  <2>8. StepOnward BY <1>3, <1>4, <2>2, <2>3 DEF StepOnward
  <2> QED BY <1>1, <2>3, <2>4, <2>5, <2>6, <2>7, <2>8 DEF RowsOK
<1> QED BY <1>5, <1>6

\* A step that leaves the rows alone keeps them in order.
LEMMA UnchangedRows ==
  ASSUME RowsOK, UNCHANGED <<row, stock, receipts>>
  PROVE  RowsOK' /\ StepOnward /\ \A p \in Orders : Placed(p) => Placed(p)'
<1>1. \A v \in RowType : ~Behind(v, v) BY DEF Behind, _forward_rank
<1>2. \A p \in Orders : Captured(p) => Captured(p)' BY DEF Captured
<1> QED BY <1>1, <1>2
  DEF RowsOK, CancelledHoldsNoStock, NothingFollowsFromUnpaid, Placed, StepOnward

\* A session that does not move keeps what it read.
LEMMA SessionStays ==
  ASSUME NEW s \in Sessions, SessionOK(s), Placed(sess[s].o), sess'[s] = sess[s],
         callbacks \subseteq callbacks', receipts \subseteq receipts',
         \A p \in Orders : Placed(p) => Placed(p)'
  PROVE  SessionOK(s)' /\ Placed(sess[s].o)'
<1>1. Captured(sess[s].o) => Captured(sess[s].o)' BY DEF Captured
<1>2. ReadsARow(s)' BY <1>1 DEF SessionOK, ReadsARow, Captured
<1> QED BY <1>2 DEF SessionOK, Placed

\* If no session moves, all keep what they read.
LEMMA SessionsStay ==
  ASSUME SessOK, UNCHANGED sess, callbacks \subseteq callbacks', receipts \subseteq receipts',
         \A p \in Orders : Placed(p) => Placed(p)'
  PROVE  SessOK'
<1>1. ASSUME NEW s \in Sessions, sess'[s] # Free
      PROVE  /\ SessionOK(s)' /\ sess'[s].op \in Operations /\ Placed(sess[s].o)'
             /\ DOMAIN sess'[s].read = Unlocked(sess'[s].op) \cup ReadLate(sess'[s].op)
  BY <1>1, SessionStays DEF SessOK
<1> QED BY <1>1 DEF SessOK, Placed

\* A request that begins remembers columns of a row that its order has now.
LEMMA BeginKeeps ==
  ASSUME IInv, NEW s \in Sessions, NEW op, NEW o \in Orders, NEW arg, Begin(s, op, o, arg),
         op \in {"callback", "cancel", "status", "dispatch", "supplier"},
         op = "callback" => arg \in callbacks /\ arg[1] = o,
         op = "status" => arg \in StateTargets,
         op = "supplier" => arg \in {"shipped", "delivered", "exception"}
  PROVE  IInv' /\ StepOnward
<1> DEFINE req == [op |-> op, o |-> o, arg |-> arg,
                   read |-> [f \in Unlocked(op) \cup ReadLate(op) |-> row[o][f]]]
<1>0. RowsOK /\ SessOK /\ PaymobOK BY Parts
<1>1. RowsOK' /\ StepOnward /\ \A p \in Orders : Placed(p) => Placed(p)'
  BY <1>0, UnchangedRows DEF Begin
<1>2. PaymobOK' BY <1>0 DEF PaymobOK, Begin
<1>3. sess' = [sess EXCEPT ![s] = req] /\ op \in Operations /\ Placed(o) BY DEF Begin
<1>4. sess'[s] = req /\ \A z \in Sessions \ {s} : sess'[z] = sess[z]
  BY <1>0, <1>3 DEF SessOK
<1>5. sess' = [z \in Sessions |-> sess'[z]] BY <1>0, <1>3 DEF SessOK
<1>6. /\ req.op = op /\ req.o = o /\ req.arg = arg
      /\ req.read = [f \in Unlocked(op) \cup ReadLate(op) |-> row[o][f]]
  OBVIOUS
<1> HIDE DEF req
<1>7. SessionOK(s)'
  <2>1. row[o] \in RowType BY <1>0 DEF RowsOK
  <2>2. Charged(row[o]) => Captured(o)'
    BY <1>0 DEF RowsOK, NothingFollowsFromUnpaid, Charged, Captured, Begin
  <2>3. ReadsARow(s)' BY <1>4, <1>6, <2>1, <2>2 DEF ReadsARow, Captured
  <2> QED BY <1>4, <1>6, <2>3 DEF SessionOK, Begin
<1>8. ASSUME NEW z \in Sessions, z # s, sess'[z] # Free
      PROVE  /\ SessionOK(z)' /\ sess'[z].op \in Operations /\ Placed(sess[z].o)'
             /\ DOMAIN sess'[z].read = Unlocked(sess'[z].op) \cup ReadLate(sess'[z].op)
  BY <1>0, <1>1, <1>4, <1>8, SessionStays DEF SessOK, Begin
<1>9. SessOK' BY <1>1, <1>3, <1>4, <1>5, <1>6, <1>7, <1>8 DEF SessOK, Placed
<1> QED BY <1>1, <1>2, <1>9, NextParts

\* From the invariant to the view of the handler that finishes: stale columns
\* were those of a row, and the columns of Locked are current.
LEMMA SeenRow ==
  ASSUME IInv, NEW s \in Sessions, sess[s] # Free, NEW late \in SUBSET ReadLate(sess[s].op)
  PROVE  LET o == sess[s].o
             v == Seen(s, o, Unlocked(sess[s].op) \cup late) IN
         /\ v \in RowType
         /\ Same(row[o], v, Locked)
         /\ sess[s].op = "callback" => row[o].pay = v.pay
         /\ Charged(v) => Captured(o)
<1> DEFINE o == sess[s].o
           G == Unlocked(sess[s].op) \cup late
           v == Seen(s, o, G)
<1>0. RowsOK /\ SessOK BY Parts
<1>1. SessionOK(s) BY <1>0 DEF SessOK
<1>2. PICK was \in RowType :
        /\ \A f \in Unlocked(sess[s].op) \cup ReadLate(sess[s].op) : sess[s].read[f] = was[f]
        /\ Charged(was) => Captured(o)
  BY <1>1 DEF SessionOK, ReadsARow
<1>3. o \in Orders /\ row[o] \in RowType BY <1>0, <1>1 DEF SessionOK, RowsOK
<1>4. v = [f \in DOMAIN NoRow |-> IF f \in G THEN was[f] ELSE row[o][f]] BY <1>2 DEF Seen
<1>5. /\ {"ful", "reason", "resv", "refund", "po"} \cap G = {}
      /\ sess[s].op = "callback" => "pay" \notin G
  BY <1>1 DEF SessionOK, Unlocked, ReadLate
<1> HIDE DEF G, v
<1>6. v \in RowType BY <1>2, <1>3, <1>4, MergedRow
<1>7. Same(row[o], v, Locked) BY <1>4, <1>5 DEF Same, Locked, NoRow
<1>8. sess[s].op = "callback" => row[o].pay = v.pay BY <1>4, <1>5 DEF NoRow
<1>9. Charged(v) => Captured(o)
  <2>1. Charged(row[o]) => Captured(o)
    BY <1>0, <1>3 DEF RowsOK, NothingFollowsFromUnpaid, Charged
  <2>2. v.pay = was.pay \/ v.pay = row[o].pay BY <1>4 DEF NoRow
  <2> QED BY <1>2, <1>7, <2>1, <2>2 DEF Charged, Same, Locked
<1> QED BY <1>6, <1>7, <1>8, <1>9 DEF v, G

\* Every handler that may be stale is sound on the view it has.
LEMMA HandleSound ==
  ASSUME IInv, NEW s \in Sessions, sess[s] # Free, NEW v \in RowType, NEW taken,
         NEW paid \in BOOLEAN,
         paid <=> sess[s].op = "callback" /\ sess[s].arg[3] = "succeeded"
  PROVE  Sound(v, Handle(sess[s], v, taken), paid)
<1> DEFINE req == sess[s]
<1>0. RowsOK /\ SessOK /\ PaymobOK BY Parts
<1>1. SessionOK(s) BY <1>0 DEF SessOK
<1>2. req.o \in Orders /\ stock \in Nat BY <1>0, <1>1 DEF SessionOK, RowsOK
<1>3. CASE req.op = "callback"
  <2>1. req.arg \in Orders \X Txs \X DOMAIN ProviderFlags
    BY <1>0, <1>1, <1>3 DEF SessionOK, PaymobOK
  <2>2. req.arg[2] \in Txs /\ req.arg[3] \in DOMAIN ProviderFlags BY <2>1
  <2>3. Handle(req, v, taken)
          = process_paymob_transaction(req.o, req.arg[2], req.arg[3], v, stock)
    BY <1>3 DEF Handle
  <2>4. paid <=> req.arg[3] = "succeeded" BY <1>3
  <2> QED BY <1>2, <2>2, <2>3, <2>4, CallbackSound
<1>4. CASE req.op = "cancel"
  <2>1. Handle(req, v, taken) = cancel(req.o, v, stock) BY <1>4 DEF Handle
  <2>2. ~paid BY <1>4
  <2> QED BY <1>2, <2>1, <2>2, CancelSound DEF Sound, Keeps
<1>5. CASE req.op = "status"
  <2>1. Handle(req, v, taken) = update_order_state(req.arg, v, stock) BY <1>5 DEF Handle
  <2>2. ~paid /\ req.arg \in {"sent", "sale", "done", "cancel"}
    BY <1>1, <1>5, OrderAssumption DEF SessionOK
  <2> QED BY <1>2, <2>1, <2>2, StatusSound DEF Sound, Keeps
<1>6. CASE req.op = "dispatch"
  <2>1. Handle(req, v, taken) = dispatch_order(req.o, v, taken, stock) BY <1>6 DEF Handle
  <2>2. ~paid BY <1>6
  <2>3. Sound(v, dispatch_order(req.o, v, taken, stock), FALSE) BY <1>2, DispatchSound
  <2> QED BY <2>1, <2>2, <2>3 DEF Sound, Keeps
<1>7. CASE req.op = "supplier"
  <2>1. Handle(req, v, taken) = update_supplier_shipment(req.arg, v, stock) BY <1>7 DEF Handle
  <2>2. ~paid /\ req.arg \in {"shipped", "delivered", "exception"}
    BY <1>1, <1>7 DEF SessionOK
  <2> QED BY <1>2, <2>1, <2>2, SupplierSound DEF Sound, Keeps
<1> QED BY <1>1, <1>3, <1>4, <1>5, <1>6, <1>7 DEF SessionOK

\* A request that finishes on a stale view keeps the invariant.
LEMMA FinishKeeps ==
  ASSUME IInv, NEW s \in Sessions, Finish(s)
  PROVE  IInv' /\ StepOnward
<1> DEFINE req == sess[s]
<1>0. RowsOK /\ SessOK /\ PaymobOK BY Parts
<1>1. sess[s] # Free BY DEF Finish
<1>2. PICK o \in Orders : o = req.o /\ Placed(o) /\ SessionOK(s)
  BY <1>0, <1>1 DEF SessOK, SessionOK
<1>3. PICK late \in SUBSET ReadLate(req.op) :
        LET v == Seen(s, o, Unlocked(req.op) \cup late) IN
        \E taken \in Taken(o, v) :
          LET res == Handle(req, v, taken) IN
          /\ Commit(o, v, res)
          /\ receipts' = IF req.op = "callback" /\ res.outcome # "error"
                         THEN receipts \cup {req.arg} ELSE receipts
  BY <1>2 DEF Finish
<1> DEFINE v == Seen(s, o, Unlocked(req.op) \cup late)
<1>3a. PICK taken \in Taken(o, v) :
        LET res == Handle(req, v, taken) IN
        /\ Commit(o, v, res)
        /\ receipts' = IF req.op = "callback" /\ res.outcome # "error"
                       THEN receipts \cup {req.arg} ELSE receipts
  BY <1>3
<1> DEFINE res == Handle(req, v, taken)
<1>4. /\ v \in RowType /\ Same(row[o], v, Locked)
      /\ req.op = "callback" => row[o].pay = v.pay
      /\ Charged(v) => Captured(o)
  BY <1>1, <1>2, SeenRow
<1>5. PICK paid \in BOOLEAN : paid <=> req.op = "callback" /\ req.arg[3] = "succeeded"
  OBVIOUS
<1>6. Sound(v, res, paid) BY <1>1, <1>4, <1>5, HandleSound
<1>7. Commit(o, v, res) BY <1>3a
<1>8. receipts' = IF req.op = "callback" /\ res.outcome # "error"
                  THEN receipts \cup {req.arg} ELSE receipts
  BY <1>3a
<1> HIDE DEF v, res
<1>9. receipts \subseteq receipts' BY <1>8
<1>10. req.op = "callback" =>
         /\ req.arg \in callbacks /\ req.arg \in Orders \X Txs \X DOMAIN ProviderFlags
         /\ req.arg[1] = o
  BY <1>0, <1>2 DEF SessionOK, PaymobOK
<1>11. paid /\ res.outcome # "error" => Captured(o)'
  <2> SUFFICES ASSUME paid, res.outcome # "error" PROVE Captured(o)' OBVIOUS
  <2>1. req.op = "callback" /\ req.arg[3] = "succeeded" BY <1>5
  <2>2. req.arg = <<o, req.arg[2], "succeeded">> /\ req.arg[2] \in Txs BY <1>10, <2>1
  <2>3. req.arg \in receipts' BY <1>8, <2>1
  <2>4. \E t \in Txs : <<o, t, "succeeded">> \in receipts' BY <2>2, <2>3
  <2> QED BY <2>4 DEF Captured
<1>12. RowsOK' /\ StepOnward /\ \A p \in Orders : Placed(p) => Placed(p)'
  BY <1>0, <1>2, <1>4, <1>5, <1>6, <1>7, <1>9, <1>11, CommitKeeps
<1>13. sess' = [sess EXCEPT ![s] = Free] /\ UNCHANGED <<paymob, callbacks>> BY DEF Finish
<1>14. PaymobOK' BY <1>0, <1>8, <1>10, <1>13 DEF PaymobOK
<1>15. SessOK'
  <2>1. sess'[s] = Free /\ \A z \in Sessions \ {s} : sess'[z] = sess[z]
    BY <1>0, <1>13 DEF SessOK
  <2>2. sess' = [z \in Sessions |-> sess'[z]] BY <1>0, <1>13 DEF SessOK
  <2>3. ASSUME NEW z \in Sessions, z # s, sess'[z] # Free
        PROVE  /\ SessionOK(z)' /\ sess'[z].op \in Operations /\ Placed(sess[z].o)'
               /\ DOMAIN sess'[z].read = Unlocked(sess'[z].op) \cup ReadLate(sess'[z].op)
    BY <1>0, <1>9, <1>12, <1>13, <2>1, <2>3, SessionStays DEF SessOK
  <2> QED BY <2>1, <2>2, <2>3 DEF SessOK, Placed
<1> QED BY <1>12, <1>14, <1>15, NextParts

\* A handler that locks first keeps the invariant.
LEMMA AtomicKeeps ==
  ASSUME IInv, NEW op, NEW o \in Orders, NEW res,
         Atomic(op, o, res), Sound(row[o], res, FALSE)
  PROVE  IInv' /\ StepOnward
<1>0. RowsOK /\ SessOK /\ PaymobOK BY Parts
<1>1. Placed(o) /\ Commit(o, row[o], res) /\ UNCHANGED <<sess, paymob, callbacks, receipts>>
  BY DEF Atomic
<1>2. row[o] \in RowType /\ Same(row[o], row[o], Locked) BY <1>0 DEF RowsOK, Same
<1>3. Charged(row[o]) => Captured(o) BY <1>0 DEF RowsOK, NothingFollowsFromUnpaid, Charged
<1>4. RowsOK' /\ StepOnward /\ \A p \in Orders : Placed(p) => Placed(p)'
  BY <1>0, <1>1, <1>2, <1>3, CommitKeeps
<1>5. SessOK' BY <1>0, <1>1, <1>4, SessionsStay
<1>6. PaymobOK' BY <1>0, <1>1 DEF PaymobOK
<1> QED BY <1>4, <1>5, <1>6, NextParts

\* A new order.
LEMMA CheckoutKeeps == ASSUME IInv, NEW o \in Orders, Checkout(o) PROVE IInv' /\ StepOnward
<1> DEFINE res == checkout(o, row[o], stock)
<1>0. RowsOK /\ SessOK /\ PaymobOK BY Parts
<1>1. /\ res.outcome # "error" /\ Commit(o, row[o], res)
      /\ UNCHANGED <<sess, paymob, callbacks, receipts>>
  BY DEF Checkout
<1>2. row[o].state = "absent" BY <1>1 DEF checkout, Raise, Done
<1>3. row[o] = NoRow BY <1>0, <1>2 DEF RowsOK, Placed
<1>4. stock \in Nat /\ row[o] \in RowType BY <1>0 DEF RowsOK
<1>5. Sound(row[o], res, FALSE) BY <1>3, <1>4, CheckoutSound
<1>6. res.row.state # "absent"
  BY <1>1, <1>3 DEF checkout, Raise, Done, NoRow
<1>7. Same(row[o], row[o], Locked) BY DEF Same
<1>8. Charged(row[o]) => Captured(o) BY <1>0 DEF RowsOK, NothingFollowsFromUnpaid, Charged
<1> HIDE DEF res
<1>9. RowsOK' /\ StepOnward /\ \A p \in Orders : Placed(p) => Placed(p)'
  BY <1>0, <1>1, <1>4, <1>5, <1>6, <1>7, <1>8, CommitKeeps
<1>10. SessOK' BY <1>0, <1>1, <1>9, SessionsStay
<1>11. PaymobOK' BY <1>0, <1>1 DEF PaymobOK
<1> QED BY <1>9, <1>10, <1>11, NextParts

\* A transaction moves at Paymob, and a callback is on its way.
LEMMA PaymobKeeps ==
  ASSUME IInv, NEW o \in Orders, NEW t \in Txs, PaymobMoves(o, t) PROVE IInv' /\ StepOnward
<1>0. RowsOK /\ SessOK /\ PaymobOK BY Parts
<1>1. UNCHANGED <<row, stock, sess, receipts>> BY DEF PaymobMoves
<1>2. PICK k \in ProviderMoves[paymob[<<o, t>>]] :
        /\ paymob' = [paymob EXCEPT ![<<o, t>>] = k]
        /\ callbacks' = callbacks \cup {<<o, t, k>>}
  BY DEF PaymobMoves
<1>3. k \in DOMAIN ProviderMoves /\ k \in DOMAIN ProviderFlags
  BY <1>0 DEF PaymobOK, ProviderMoves, ProviderFlags
<1>4. PaymobOK' BY <1>0, <1>1, <1>2, <1>3 DEF PaymobOK
<1>5. RowsOK' /\ StepOnward /\ \A p \in Orders : Placed(p) => Placed(p)'
  BY <1>0, <1>1, UnchangedRows
<1>6. SessOK' BY <1>0, <1>1, <1>2, <1>5, SessionsStay
<1> QED BY <1>4, <1>5, <1>6, NextParts

\* The four handlers that lock first.
LEMMA RequestsKeep ==
  ASSUME IInv, NEW o \in Orders, RequestRefund(o) \/ MarkDelivered(o)
                                 \/ UpdatePurchaseOrder(o) \/ OdooOrderStatus(o)
  PROVE  IInv' /\ StepOnward
<1>1. row[o] \in RowType /\ stock \in Nat BY Parts DEF RowsOK
<1>2. CASE RequestRefund(o)
  <2>1. Sound(row[o], request_refund(row[o], stock), FALSE) BY <1>1, RefundSound
  <2> QED BY <1>2, <2>1, AtomicKeeps DEF RequestRefund
<1>3. CASE MarkDelivered(o)
  <2>1. PICK last \in {"pick", "drop"} : Atomic("deliver", o, mark_delivered(last, row[o], stock))
    BY <1>3 DEF MarkDelivered
  <2>2. Sound(row[o], mark_delivered(last, row[o], stock), FALSE) BY <1>1, DeliveredSound
  <2> QED BY <2>1, <2>2, AtomicKeeps
<1>4. CASE UpdatePurchaseOrder(o)
  <2>1. PICK target \in {"sent", "partial", "received", "cancelled"} :
          Atomic("po", o, update_purchase_order(target, row[o], stock))
    BY <1>4 DEF UpdatePurchaseOrder
  <2>2. Sound(row[o], update_purchase_order(target, row[o], stock), FALSE)
    BY <1>1, PurchaseOrderSound
  <2> QED BY <2>1, <2>2, AtomicKeeps
<1>5. CASE OdooOrderStatus(o)
  <2>1. PICK status \in OdooStatuses :
          Atomic("odoo", o, odoo_order_status_webhook(o, status, row[o], stock))
    BY <1>5 DEF OdooOrderStatus
  <2>2. status \in DOMAIN OdooTarget BY OrderAssumption
  <2>3. Sound(row[o], odoo_order_status_webhook(o, status, row[o], stock), FALSE)
    BY <1>1, <2>2, OdooSound
  <2> QED BY <2>1, <2>3, AtomicKeeps
<1> QED BY <1>2, <1>3, <1>4, <1>5

\* Every request that begins.
LEMMA BeginningsKeep ==
  ASSUME IInv, NEW s \in Sessions,
         (\E o \in Orders : BeginRequest(s, o)) \/ (\E key \in callbacks : BeginCallback(s, key))
  PROVE  IInv' /\ StepOnward
<1>1. CASE \E o \in Orders : BeginRequest(s, o)
  <2>1. PICK o \in Orders : BeginRequest(s, o) BY <1>1
  <2>2. CASE Begin(s, "cancel", o, "none") BY <2>2, BeginKeeps
  <2>3. CASE \E target \in StateTargets : Begin(s, "status", o, target) BY <2>3, BeginKeeps
  <2>4. CASE Begin(s, "dispatch", o, "none") BY <2>4, BeginKeeps
  <2>5. CASE \E status \in {"shipped", "delivered", "exception"} : Begin(s, "supplier", o, status)
    BY <2>5, BeginKeeps
  <2> QED BY <2>1, <2>2, <2>3, <2>4, <2>5 DEF BeginRequest
<1>2. CASE \E key \in callbacks : BeginCallback(s, key)
  <2>1. PICK key \in callbacks : BeginCallback(s, key) BY <1>2
  <2>2. key[1] \in Orders BY Parts DEF PaymobOK
  <2>3. Begin(s, "callback", key[1], key) BY <2>1 DEF BeginCallback
  <2> QED BY <2>2, <2>3, BeginKeeps
<1> QED BY <1>1, <1>2

\* Every step keeps the invariant, and moves every order onward.
LEMMA NextKeeps == IInv /\ [Next]_vars => IInv' /\ StepOnward
<1> SUFFICES ASSUME IInv, [Next]_vars PROVE IInv' /\ StepOnward OBVIOUS
<1>1. ASSUME NEW o \in Orders, Checkout(o) PROVE IInv' /\ StepOnward BY <1>1, CheckoutKeeps
<1>2. ASSUME NEW o \in Orders, RequestRefund(o) \/ MarkDelivered(o)
                               \/ UpdatePurchaseOrder(o) \/ OdooOrderStatus(o)
      PROVE IInv' /\ StepOnward
  BY <1>2, RequestsKeep
<1>3. ASSUME NEW o \in Orders, NEW t \in Txs, PaymobMoves(o, t) PROVE IInv' /\ StepOnward
  BY <1>3, PaymobKeeps
<1>4. ASSUME NEW o \in Orders, NEW s \in Sessions, BeginRequest(s, o) PROVE IInv' /\ StepOnward
  BY <1>4, BeginningsKeep
<1>5. ASSUME NEW s \in Sessions, Finish(s) PROVE IInv' /\ StepOnward BY <1>5, FinishKeeps
<1>6. ASSUME NEW s \in Sessions, NEW key \in callbacks, BeginCallback(s, key)
      PROVE IInv' /\ StepOnward
  BY <1>6, BeginningsKeep
<1>7. CASE UNCHANGED vars
  <2>1. RowsOK /\ SessOK /\ PaymobOK BY Parts
  <2>2. RowsOK' /\ StepOnward /\ \A p \in Orders : Placed(p) => Placed(p)'
    BY <1>7, <2>1, UnchangedRows DEF vars
  <2>3. SessOK' BY <1>7, <2>1, <2>2, SessionsStay DEF vars
  <2>4. PaymobOK' BY <1>7, <2>1 DEF PaymobOK, vars
  <2> QED BY <2>2, <2>3, <2>4, NextParts
<1> QED BY <1>1, <1>2, <1>3, <1>4, <1>5, <1>6, <1>7 DEF Next

-------------------------------------------------------------------------------
(* The theorems *)

\* The inductive invariant holds in every reachable state, for any number of orders,
\* transactions and requests in flight.
THEOREM LifecycleInvariant == Spec => []IInv
BY InitIInv, NextKeeps, PTL DEF Spec

\* The columns keep their enumerations, and stock_qty never becomes negative: no
\* interleaving of checkouts and late payments oversells the product.
THEOREM LifecycleTypes == Spec => []TypeOK
BY LifecycleInvariant, PTL DEF IInv

\* No interleaving of stale requests leaves a cancelled order with reserved units.
THEOREM CancelledOrdersHoldNoStock == Spec => []CancelledHoldsNoStock
BY LifecycleInvariant, PTL DEF IInv

\* No order is paid, refunded or ordered from a supplier without a verified success
\* callback for it, however stale the requests in flight are.
THEOREM UnpaidOrdersGoNowhere == Spec => []NothingFollowsFromUnpaid
BY LifecycleInvariant, PTL DEF IInv

\* Only a success after a failed payment reopens an order, and fulfilment never
\* moves back, for any number of requests in flight.
THEOREM NoOrderIsReopened == Spec => NeverReopened
<1> DEFINE Onward == \A o \in Orders :
         LET v == row[o]
             w == row'[o] IN
         /\ v.ful = "cancelled" /\ w.ful # "cancelled" =>
              v.reason = "payment_failed" /\ w.ful = "confirmed" /\ w.pay = "paid"
         /\ v.ful \in DOMAIN _forward_rank /\ w.ful \in DOMAIN _forward_rank =>
              _forward_rank[w.ful] >= _forward_rank[v.ful]
<1>1. StepOnward => Onward BY DEF StepOnward, Behind
<1>2. IInv /\ [Next]_vars => [Onward]_vars BY <1>1, NextKeeps
<1>3. NeverReopened <=> [][Onward]_vars BY DEF NeverReopened
<1> QED BY <1>2, <1>3, LifecycleInvariant, PTL DEF Spec

-------------------------------------------------------------------------------
(* Units are conserved *)

\* The units of the order that have left the shelf for good or for a while.
HeldBy(o, v) == IF v.resv \in {"reserved", "consumed"} THEN Qty[o] ELSE 0

\* A handler moves units between the shelf and its order, and loses none.
Balanced(o, v, st, res) ==
    IF res.outcome = "error" THEN res.stock = st
    ELSE HeldBy(o, res.row) + res.stock = HeldBy(o, v) + st

\* Releasing returns what the reservation held (reservations.py, release_order).
LEMMA ReleaseBalances ==
  ASSUME NEW o \in Orders, NEW v \in RowType, NEW st \in Nat
  PROVE  LET r == release_order(o, v, st) IN HeldBy(o, r.row) + r.stock = HeldBy(o, v) + st
<1>1. Qty[o] \in Nat BY OrderAssumption
<1> QED BY <1>1 DEF HeldBy, release_order, RowType

\* A success holds no more units than it takes from the shelf.
LEMMA SucceededBalances ==
  ASSUME NEW o \in Orders, NEW t \in Txs, NEW v \in RowType, NEW st \in Nat
  PROVE  Balanced(o, v, st, mark_payment_succeeded(o, t, v, st))
BY OrderAssumption, SMTT(60) DEF Balanced, HeldBy, mark_payment_succeeded, Done, Raise,
                                 Recovered,
   ensure_full_refund_request, ensure_purchase_orders_for_paid_order, rereserve_order,
       confirm_after_verified_payment,
   RowType

\* A failed payment returns what it releases.
LEMMA FailedBalances ==
  ASSUME NEW o \in Orders, NEW t \in Txs, NEW v \in RowType, NEW st \in Nat
  PROVE  Balanced(o, v, st, mark_payment_failed(o, t, v, st))
BY OrderAssumption, SMTT(60) DEF Balanced, HeldBy, mark_payment_failed, Done, Raise,
                                 release_order, lifecycle_cancel,
   RowType

\* A completed refund moves no units.
LEMMA RefundedBalances ==
  ASSUME NEW o \in Orders, NEW t \in Txs, NEW v \in RowType, NEW st \in Nat
  PROVE  Balanced(o, v, st, mark_payment_refunded(o, t, v, st))
BY OrderAssumption, SMTT(60) DEF Balanced, HeldBy, mark_payment_refunded, Done, Raise, RowType

\* Every callback of Paymob balances.
LEMMA CallbackBalances ==
  ASSUME NEW o \in Orders, NEW t \in Txs, NEW kind, NEW v \in RowType, NEW st \in Nat
  PROVE  Balanced(o, v, st, process_paymob_transaction(o, t, kind, v, st))
<1>1. HeldBy(o, v) + st \in Nat BY OrderAssumption DEF HeldBy
<1>2. _callback_type(kind) \in {"pending", "succeeded", "refunded", "failed", "voided"}
  BY DEF _callback_type
<1>3. Balanced(o, v, st, Done(v, st, "rejected")) BY DEF Balanced, Done
<1>4. Balanced(o, v, st, Done([v EXCEPT !.attempt = "pending", !.txn = t], st, "pending"))
  BY DEF Balanced, Done, HeldBy, RowType
<1> QED BY <1>2, <1>3, <1>4, SucceededBalances, FailedBalances, RefundedBalances
        DEF process_paymob_transaction

\* The customer's cancellation balances.
LEMMA CancelBalances ==
  ASSUME NEW o \in Orders, NEW v \in RowType, NEW st \in Nat
  PROVE  Balanced(o, v, st, cancel(o, v, st))
BY OrderAssumption, SMTT(60) DEF Balanced, HeldBy, cancel, Done, Raise, release_order,
                                 lifecycle_cancel, ensure_full_refund_request, RowType

\* A dispatch consumes what was reserved: the shelf does not change.
LEMMA DispatchBalances ==
  ASSUME NEW o \in Orders, NEW v \in RowType, NEW taken, NEW st \in Nat
  PROVE  Balanced(o, v, st, dispatch_order(o, v, taken, st))
BY OrderAssumption, SMTT(60) DEF Balanced, HeldBy, dispatch_order, Done, Raise,
                                 mark_order_consumed, force_forward_from_integration, RowType

\* A status report of Odoo balances.
LEMMA OdooBalances ==
  ASSUME NEW o \in Orders, NEW v \in RowType, NEW st \in Nat, NEW status \in DOMAIN OdooTarget
  PROVE  Balanced(o, v, st, odoo_order_status_webhook(o, status, v, st))
BY OrderAssumption, SMTT(60) DEF Balanced, HeldBy, odoo_order_status_webhook, Done, Raise,
                                 mark_order_consumed, force_forward_from_integration,
                                     release_order, lifecycle_cancel, RowType

\* So do the handlers that only move statuses, and the checkout of a new order.
LEMMA OtherBalances ==
  ASSUME NEW o \in Orders, NEW v \in RowType, NEW st \in Nat
  PROVE  /\ \A status : Balanced(o, v, st, update_supplier_shipment(status, v, st))
         /\ Balanced(o, v, st, request_refund(v, st))
         /\ \A last \in {"pick", "drop"} : Balanced(o, v, st, mark_delivered(last, v, st))
         /\ \A target : Balanced(o, v, st, update_purchase_order(target, v, st))
         /\ \A target : Balanced(o, v, st, update_order_state(target, v, st))
         /\ v = NoRow => Balanced(o, v, st, checkout(o, v, st))
<1>1. \A status : Balanced(o, v, st, update_supplier_shipment(status, v, st))
  BY OrderAssumption DEF Balanced, HeldBy, update_supplier_shipment, Done, Raise, Forwarded,
                         force_forward_from_integration, RowType
<1>2. Balanced(o, v, st, request_refund(v, st))
  BY OrderAssumption DEF Balanced, HeldBy, request_refund, Done, Raise,
                         ensure_full_refund_request, RowType
<1>3. \A last \in {"pick", "drop"} : Balanced(o, v, st, mark_delivered(last, v, st))
  BY OrderAssumption DEF Balanced, HeldBy, mark_delivered, Done, Raise, Forwarded,
                         force_forward_from_integration, RowType
<1>4. \A target : Balanced(o, v, st, update_purchase_order(target, v, st))
  BY OrderAssumption DEF Balanced, HeldBy, update_purchase_order, Done, Raise, RowType
<1>5. \A target : Balanced(o, v, st, update_order_state(target, v, st))
  BY OrderAssumption DEF Balanced, HeldBy, update_order_state, Done, Raise, RowType
<1>6. v = NoRow => Balanced(o, v, st, checkout(o, v, st))
  BY OrderAssumption DEF Balanced, HeldBy, checkout, Done, Raise, NoRow, CannotReserve
<1> QED BY <1>1, <1>2, <1>3, <1>4, <1>5, <1>6

\* Whatever the request, its handler balances.
LEMMA HandleBalances ==
  ASSUME IInv, NEW s \in Sessions, sess[s] # Free, NEW v \in RowType, NEW taken
  PROVE  Balanced(sess[s].o, v, stock, Handle(sess[s], v, taken))
<1> DEFINE req == sess[s]
<1>0. RowsOK /\ SessOK /\ PaymobOK BY Parts
<1>1. SessionOK(s) BY <1>0 DEF SessOK
<1>2. req.o \in Orders /\ stock \in Nat BY <1>0, <1>1 DEF SessionOK, RowsOK
<1>3. CASE req.op = "callback"
  <2>1. req.arg \in Orders \X Txs \X DOMAIN ProviderFlags
    BY <1>0, <1>1, <1>3 DEF SessionOK, PaymobOK
  <2>2. req.arg[2] \in Txs BY <2>1
  <2>3. Handle(req, v, taken)
          = process_paymob_transaction(req.o, req.arg[2], req.arg[3], v, stock)
    BY <1>3 DEF Handle
  <2> QED BY <1>2, <2>2, <2>3, CallbackBalances
<1>4. CASE req.op = "cancel"
  BY <1>2, <1>4, CancelBalances DEF Handle
<1>5. CASE req.op = "status"
  BY <1>2, <1>5, OtherBalances DEF Handle
<1>6. CASE req.op = "dispatch"
  BY <1>2, <1>6, DispatchBalances DEF Handle
<1>7. CASE req.op = "supplier"
  BY <1>2, <1>7, OtherBalances DEF Handle
<1> QED BY <1>1, <1>3, <1>4, <1>5, <1>6, <1>7 DEF SessionOK

\* The units of every order.
Held == [o \in Orders |-> HeldBy(o, row[o])]

\* The inductive invariant: StockConserved with its sum as that of a table.
Conserved == stock + SumOf(Held, Orders) = InitialStock

\* The table holds the terms of the sum.
LEMMA HeldTerm == \A o \in Orders : Held[o] = Holds(o)
BY DEF Held, HeldBy, Holds

\* The sum of the property is the sum of the table.
LEMMA HeldSum == MapThenSumSet(Holds, Orders) = SumOf(Held, Orders)
<1> DEFINE IsSum(f) == f = [s \in SUBSET Orders |->
                              IF s = {} THEN 0 ELSE Holds(Pick(s)) + f[s \ {Pick(s)}]]
           g == CHOOSE f : IsSum(f)
<1>0. IsFiniteSet(Orders) BY OrderAssumption
<1>1. \E f : IsTable(f, Held, Orders) BY <1>0, TableExists
<1>2. ASSUME NEW f PROVE IsTable(f, Held, Orders) <=> IsSum(f)
  <2>1. \A s \in SUBSET Orders : s # {} => Held[Pick(s)] = Holds(Pick(s)) BY HeldTerm, PickIn
  <2>2. [s \in SUBSET Orders |-> IF s = {} THEN 0 ELSE Held[Pick(s)] + f[s \ {Pick(s)}]]
        = [s \in SUBSET Orders |-> IF s = {} THEN 0 ELSE Holds(Pick(s)) + f[s \ {Pick(s)}]]
    BY <2>1
  <2> QED BY <2>2 DEF IsTable
<1>3. IsSum(g) BY <1>1, <1>2
<1>4. IsTable(g, Held, Orders)
  <2> HIDE DEF g
  <2> QED BY <1>2, <1>3
<1>5. MapThenSumSet(Holds, Orders) = g[Orders] BY DEF MapThenSumSet, MapThenFoldSet, Pick
<1>6. PICK k : IsTable(k, Held, Orders) /\ SumOf(Held, Orders) = k[Orders]
  BY <1>0, SumIsTable
<1>7. g[Orders] = k[Orders]
  <2> HIDE DEF g
  <2>1. \A s \in SUBSET Orders : g[s] = k[s] BY <1>0, <1>4, <1>6, TableUnique
  <2> QED BY <2>1
<1> QED BY <1>5, <1>6, <1>7

\* A handler that balances on what it saw of a row under lock balances when it is written.
LEMMA CommitBalances ==
  ASSUME RowsOK, NEW o \in Orders, NEW view \in RowType, NEW res,
         Commit(o, view, res), Balanced(o, view, stock, res), res.stock \in Nat,
         Same(row[o], view, Locked), res.outcome # "error" => res.row \in RowType,
         Conserved
  PROVE  Conserved'
<1>0. row \in [Orders -> RowType] /\ stock \in Nat BY DEF RowsOK
<1>1. IsFiniteSet(Orders) BY OrderAssumption
<1>2. stock' = res.stock BY DEF Commit
<1>3. CASE res.outcome = "error"
  <2>1. row' = row /\ stock' = stock BY <1>2, <1>3 DEF Commit, Balanced
  <2> QED BY <2>1 DEF Conserved, Held
<1>4. CASE res.outcome # "error"
  <2> DEFINE w == Flush(row[o], view, res.row)
  <2>1. row' = [row EXCEPT ![o] = w] BY <1>4 DEF Commit
  <2>2. w.resv = res.row.resv BY DEF Flush, Same, Locked, NoRow
  <2> HIDE DEF w
  <2>3. row'[o] = w /\ \A p \in Orders \ {o} : row'[p] = row[p] BY <1>0, <2>1
  <2>4. DifferAt(o, Held, Held', Orders)
    BY <2>3, OrderAssumption DEF DifferAt, Held, HeldBy
  <2>5. SumOf(Held, Orders) \in Int
        /\ SumOf(Held', Orders) = SumOf(Held, Orders) + (Held'[o] - Held[o])
    BY <1>1, <2>4, SumChanges
  <2>6. Held[o] \in Int /\ Held'[o] \in Int BY <2>4 DEF DifferAt
  <2>7. Held'[o] = HeldBy(o, res.row) /\ Held[o] = HeldBy(o, view)
    BY <2>2, <2>3 DEF Held, HeldBy, Same, Locked
  <2>8. Held'[o] + stock' = Held[o] + stock BY <1>2, <1>4, <2>7 DEF Balanced
  <2>9. stock' \in Nat BY <1>2
  <2> QED BY <1>0, <2>5, <2>6, <2>8, <2>9 DEF Conserved
<1> QED BY <1>3, <1>4

\* A request conserves the units however old what it read first is.
LEMMA FinishConserves ==
  ASSUME IInv, Conserved, NEW s \in Sessions, Finish(s)
  PROVE  Conserved'
<1> DEFINE req == sess[s]
<1>0. RowsOK /\ SessOK /\ PaymobOK BY Parts
<1>1. sess[s] # Free BY DEF Finish
<1>2. SessionOK(s) /\ req.o \in Orders BY <1>0, <1>1 DEF SessOK, SessionOK
<1>3. PICK late \in SUBSET ReadLate(req.op) :
        LET v == Seen(s, req.o, Unlocked(req.op) \cup late) IN
        \E taken \in Taken(req.o, v) : Commit(req.o, v, Handle(req, v, taken))
  BY DEF Finish
<1> DEFINE v == Seen(s, req.o, Unlocked(req.op) \cup late)
<1>3a. PICK taken \in Taken(req.o, v) : Commit(req.o, v, Handle(req, v, taken)) BY <1>3
<1> DEFINE res == Handle(req, v, taken)
<1>4. v \in RowType /\ Same(row[req.o], v, Locked) BY <1>1, SeenRow
<1>5. PICK paid \in BOOLEAN : paid <=> req.op = "callback" /\ req.arg[3] = "succeeded"
  OBVIOUS
<1>6. Sound(v, res, paid) BY <1>1, <1>4, <1>5, HandleSound
<1>7. Balanced(req.o, v, stock, res) BY <1>1, <1>4, HandleBalances
<1>8. Commit(req.o, v, res) BY <1>3a
<1> HIDE DEF v, res
<1>9. res.stock \in Nat /\ (res.outcome # "error" => res.row \in RowType)
  BY <1>6 DEF Sound, Keeps
<1> QED BY <1>0, <1>2, <1>4, <1>7, <1>8, <1>9, CommitBalances

\* So does a handler that locks its order first.
LEMMA AtomicConserves ==
  ASSUME IInv, Conserved, NEW o \in Orders, NEW res,
         Commit(o, row[o], res), Sound(row[o], res, FALSE), Balanced(o, row[o], stock, res)
  PROVE  Conserved'
<1>1. RowsOK /\ row[o] \in RowType BY Parts DEF RowsOK
<1>2. res.stock \in Nat /\ (res.outcome # "error" => res.row \in RowType)
  BY DEF Sound, Keeps
<1> QED BY <1>1, <1>2, CommitBalances DEF Same

\* Every step conserves the units.
LEMMA ConservedStep == IInv /\ Conserved /\ [Next]_vars => Conserved'
<1> SUFFICES ASSUME IInv, Conserved, [Next]_vars PROVE Conserved' OBVIOUS
<1>0. stock \in Nat /\ \A o \in Orders : row[o] \in RowType BY Parts DEF RowsOK
<1>1. ASSUME NEW o \in Orders, Checkout(o) PROVE Conserved'
  <2> DEFINE res == checkout(o, row[o], stock)
  <2>1. res.outcome # "error" /\ Commit(o, row[o], res) BY <1>1 DEF Checkout
  <2>2. row[o].state = "absent" BY <2>1 DEF checkout, Raise, Done
  <2>3. row[o] = NoRow BY <2>2, Parts DEF RowsOK, Placed
  <2> HIDE DEF res
  <2>4. Sound(row[o], res, FALSE) BY <1>0, <2>3, CheckoutSound DEF res
  <2>5. Balanced(o, row[o], stock, res) BY <1>0, <2>3, OtherBalances DEF res
  <2> QED BY <2>1, <2>4, <2>5, AtomicConserves
<1>2. ASSUME NEW o \in Orders, RequestRefund(o) PROVE Conserved'
  <2>1. Balanced(o, row[o], stock, request_refund(row[o], stock)) BY <1>0, OtherBalances
  <2> QED BY <1>0, <1>2, <2>1, RefundSound, AtomicConserves DEF RequestRefund, Atomic
<1>3. ASSUME NEW o \in Orders, MarkDelivered(o) PROVE Conserved'
  <2>1. PICK last \in {"pick", "drop"} :
          Atomic("deliver", o, mark_delivered(last, row[o], stock))
    BY <1>3 DEF MarkDelivered
  <2>2. Balanced(o, row[o], stock, mark_delivered(last, row[o], stock)) BY <1>0, OtherBalances
  <2> QED BY <1>0, <2>1, <2>2, DeliveredSound, AtomicConserves DEF Atomic
<1>4. ASSUME NEW o \in Orders, UpdatePurchaseOrder(o) PROVE Conserved'
  <2>1. PICK target \in {"sent", "partial", "received", "cancelled"} :
          Atomic("po", o, update_purchase_order(target, row[o], stock))
    BY <1>4 DEF UpdatePurchaseOrder
  <2>2. Balanced(o, row[o], stock, update_purchase_order(target, row[o], stock))
    BY <1>0, OtherBalances
  <2> QED BY <1>0, <2>1, <2>2, PurchaseOrderSound, AtomicConserves DEF Atomic
<1>5. ASSUME NEW o \in Orders, OdooOrderStatus(o) PROVE Conserved'
  <2>1. PICK status \in OdooStatuses :
          Atomic("odoo", o, odoo_order_status_webhook(o, status, row[o], stock))
    BY <1>5 DEF OdooOrderStatus
  <2>2. status \in DOMAIN OdooTarget BY OrderAssumption
  <2> QED BY <1>0, <2>1, <2>2, OdooBalances, OdooSound, AtomicConserves DEF Atomic
<1>6. ASSUME NEW s \in Sessions, Finish(s) PROVE Conserved' BY <1>6, FinishConserves
<1>7. CASE UNCHANGED <<row, stock>> BY <1>7 DEF Conserved, Held
<1>8. ASSUME NEW o \in Orders, NEW t \in Txs, PaymobMoves(o, t) PROVE Conserved'
  BY <1>7, <1>8 DEF PaymobMoves
<1>9. ASSUME NEW s \in Sessions,
             \/ \E o \in Orders : BeginRequest(s, o)
             \/ \E key \in callbacks : BeginCallback(s, key)
      PROVE  Conserved'
  BY <1>7, <1>9 DEF BeginRequest, BeginCallback, Begin
<1>10. CASE UNCHANGED vars BY <1>7, <1>10 DEF vars
<1> QED BY <1>1, <1>2, <1>3, <1>4, <1>5, <1>6, <1>8, <1>9, <1>10 DEF Next

\* No order holds a unit at the start.
LEMMA InitConserved == Init => Conserved
<1> SUFFICES ASSUME Init PROVE Conserved OBVIOUS
<1>1. \A o \in Orders : Held[o] = 0 BY DEF Init, Held, HeldBy, NoRow
<1>2. IsFiniteSet(Orders) /\ InitialStock \in Nat BY OrderAssumption
<1>3. SumOf(Held, Orders) = 0 BY <1>1, <1>2, SumOfNothing
<1> QED BY <1>2, <1>3 DEF Init, Conserved

\* Units are never made or lost: what is on the shelf and what orders hold add up to the
\* stock at the start, for every number of orders and of requests in flight, however
\* stale those are (reservations.py:31, release and consumption are booked once).
THEOREM NoUnitIsLost == Spec => []StockConserved
<1>1. Conserved => StockConserved BY HeldSum DEF Conserved, StockConserved
<1>2. Spec => []Conserved
  BY InitConserved, ConservedStep, LifecycleInvariant, PTL DEF Spec
<1> QED BY <1>1, <1>2, PTL

-------------------------------------------------------------------------------
(* Payments: refunds are final, and cancelled orders are refunded *)

\* A handler's view: what it read early, and the row as it is for the rest.
ViewOf(s, v) ==
    LET op == sess[s].op
        o == sess[s].o
    IN /\ \A f \in DOMAIN NoRow \ (Unlocked(op) \cup ReadLate(op)) : v[f] = row[o][f]
       /\ \A f \in Unlocked(op) : v[f] = sess[s].read[f]
       /\ \A f \in ReadLate(op) : v[f] \in {sess[s].read[f], row[o][f]}

\* What a request in flight sees when it writes, and what it writes.
LEMMA Finishing ==
  ASSUME IInv, NEW s \in Sessions, Finish(s)
  PROVE  /\ sess[s] # Free /\ SessionOK(s) /\ sess[s].o \in Orders
         /\ \E v \in RowType, taken \in BOOLEAN :
              LET res == Handle(sess[s], v, taken) IN
              /\ ViewOf(s, v)
              /\ Charged(v) => Captured(sess[s].o)
              /\ Commit(sess[s].o, v, res)
              /\ receipts' = IF sess[s].op = "callback" /\ res.outcome # "error"
                             THEN receipts \cup {sess[s].arg} ELSE receipts
<1> DEFINE req == sess[s]
<1>0. RowsOK /\ SessOK /\ PaymobOK BY Parts
<1>1. sess[s] # Free BY DEF Finish
<1>2. SessionOK(s) /\ req.o \in Orders BY <1>0, <1>1 DEF SessOK, SessionOK
<1>3. PICK late \in SUBSET ReadLate(req.op) :
        LET v == Seen(s, req.o, Unlocked(req.op) \cup late) IN
        \E taken \in Taken(req.o, v) :
          LET res == Handle(req, v, taken) IN
          /\ Commit(req.o, v, res)
          /\ receipts' = IF req.op = "callback" /\ res.outcome # "error"
                         THEN receipts \cup {req.arg} ELSE receipts
  BY DEF Finish
<1> DEFINE v == Seen(s, req.o, Unlocked(req.op) \cup late)
<1>3a. PICK taken \in Taken(req.o, v) :
        LET res == Handle(req, v, taken) IN
        /\ Commit(req.o, v, res)
        /\ receipts' = IF req.op = "callback" /\ res.outcome # "error"
                       THEN receipts \cup {req.arg} ELSE receipts
  BY <1>3
<1>3b. taken \in BOOLEAN BY DEF Taken
<1>4. v \in RowType /\ (Charged(v) => Captured(req.o)) BY <1>1, SeenRow
<1>5. Unlocked(req.op) \subseteq DOMAIN NoRow /\ ReadLate(req.op) \subseteq DOMAIN NoRow
  BY DEF Unlocked, ReadLate, NoRow
<1>6. ViewOf(s, v)
  <2>1. \A f \in DOMAIN NoRow : v[f] = IF f \in Unlocked(req.op) \cup late
                                       THEN sess[s].read[f] ELSE row[req.o][f]
    BY DEF Seen
  <2> HIDE DEF v
  <2> QED BY <2>1, <1>5 DEF ViewOf
<1> HIDE DEF v
<1> QED BY <1>1, <1>2, <1>3a, <1>3b, <1>4, <1>6 DEF v

\* What a commit leaves in the row of its order, and that it leaves the others.
LEMMA Committed ==
  ASSUME row \in [Orders -> RowType], NEW o \in Orders, NEW view, NEW res, Commit(o, view, res)
  PROVE  /\ \A p \in Orders \ {o} : row'[p] = row[p]
         /\ res.outcome = "error" => row'[o] = row[o]
         /\ res.outcome # "error" =>
              \A f \in DOMAIN NoRow :
                 row'[o][f] = IF res.row[f] # view[f] THEN res.row[f] ELSE row[o][f]
BY DEF Commit, Flush

\* What a handler does about the money: an order that it cancels is not left paid,
\* and what has been refunded stays so.
Settles(v, w) ==
    /\ w.ful = "cancelled" => w.pay # "paid" \/ (v.ful = "cancelled" /\ w.pay = v.pay)
    /\ v.pay = "refunded" => w.pay = "refunded"

\* A handler that does not raise settles.
Settled(v, res) == res.outcome # "error" => Settles(v, res.row)

\* The handlers that overtake a request in flight change a payment in one way only.
PayAsRead(now, was) == now = was \/ (was = "paid" /\ now = "refund_requested")

\* A handler that does not raise may overtake.
Overtakes(v, res) == res.outcome # "error" => PayAsRead(res.row.pay, v.pay)

\* The callbacks of Paymob settle.
LEMMA CallbackSettles ==
  ASSUME NEW o \in Orders, NEW t, NEW kind, NEW v \in RowType, NEW st
  PROVE  Settled(v, process_paymob_transaction(o, t, kind, v, st))
<1>1. Settled(v, mark_payment_succeeded(o, t, v, st))
  BY DEF mark_payment_succeeded, Settled, Settles, Done, Raise, Recovered,
         ensure_full_refund_request, ensure_purchase_orders_for_paid_order, rereserve_order,
         confirm_after_verified_payment, RowType
<1>2. Settled(v, mark_payment_failed(o, t, v, st))
  BY DEF mark_payment_failed, FailureIgnored, release_order, lifecycle_cancel, Settled, Settles,
         Done, Raise, RowType
<1>3. Settled(v, mark_payment_refunded(o, t, v, st))
  BY DEF mark_payment_refunded, Settled, Settles, Done, Raise, RowType
<1>4. _callback_type(kind) \in {"pending", "succeeded", "refunded", "failed", "voided"}
  BY DEF _callback_type
<1>5. Settles(v, v) /\ Settles(v, [v EXCEPT !.attempt = "pending", !.txn = t])
  BY DEF Settles, RowType
<1> QED BY <1>1, <1>2, <1>3, <1>4, <1>5 DEF process_paymob_transaction, Done, Settled

\* The customer's cancellation settles, since only an electronic order is paid, and overtakes.
LEMMA CancelSettles ==
  ASSUME NEW o \in Orders, NEW v \in RowType, NEW st, v.pay = "paid" => o \in Electronic
  PROVE  Settled(v, cancel(o, v, st)) /\ Overtakes(v, cancel(o, v, st))
<1>1. Settled(v, cancel(o, v, st))
  BY DEF cancel, Settled, Settles, Done, Raise, release_order, lifecycle_cancel,
         ensure_full_refund_request, RowType
<1>2. Overtakes(v, cancel(o, v, st))
  BY DEF cancel, Overtakes, PayAsRead, Done, Raise, release_order, lifecycle_cancel,
         ensure_full_refund_request, RowType
<1> QED BY <1>1, <1>2

\* A handler that has nothing to do with payments: it leaves them alone and cancels no order.
PayLeft(v, res) ==
    res.outcome # "error" =>
       res.row.pay = v.pay /\ (res.row.ful = "cancelled" => v.ful = "cancelled")

\* The back office, the warehouse and the supplier have not.
LEMMA OthersLeavePay ==
  ASSUME NEW o \in Orders, NEW v \in RowType, NEW st
  PROVE  /\ \A taken : PayLeft(v, dispatch_order(o, v, taken, st))
         /\ \A status : PayLeft(v, update_supplier_shipment(status, v, st))
         /\ \A target : PayLeft(v, update_order_state(target, v, st))
<1>1. \A taken : PayLeft(v, dispatch_order(o, v, taken, st))
  BY DEF dispatch_order, PayLeft, Done, Raise, mark_order_consumed,
         force_forward_from_integration, RowType
<1>2. \A status : PayLeft(v, update_supplier_shipment(status, v, st))
  BY DEF update_supplier_shipment, PayLeft, Done, Raise, Forwarded,
         force_forward_from_integration, RowType
<1>3. \A target : PayLeft(v, update_order_state(target, v, st))
  BY DEF update_order_state, PayLeft, Done, Raise, RowType
<1> QED BY <1>1, <1>2, <1>3

\* The handlers that lock first settle too, and may overtake.
LEMMA LockersSettle ==
  ASSUME NEW o \in Orders, NEW v \in RowType, NEW st
  PROVE  /\ LET res == request_refund(v, st) IN Settled(v, res) /\ Overtakes(v, res)
         /\ \A last \in {"pick", "drop"} :
              LET res == mark_delivered(last, v, st) IN Settled(v, res) /\ Overtakes(v, res)
         /\ \A target :
              LET res == update_purchase_order(target, v, st)
              IN Settled(v, res) /\ Overtakes(v, res)
         /\ \A status \in DOMAIN OdooTarget :
              LET res == odoo_order_status_webhook(o, status, v, st)
              IN (status # "cancel" => Settled(v, res)) /\ Overtakes(v, res)
<1> USE DEF Settled, Overtakes, Settles, PayAsRead, Done, Raise
<1>1. LET res == request_refund(v, st) IN Settled(v, res) /\ Overtakes(v, res)
  BY DEF request_refund, ensure_full_refund_request, RowType
<1>2. \A last \in {"pick", "drop"} :
        LET res == mark_delivered(last, v, st) IN Settled(v, res) /\ Overtakes(v, res)
  BY DEF mark_delivered, Forwarded, force_forward_from_integration, RowType
<1>3. \A target : LET res == update_purchase_order(target, v, st)
                  IN Settled(v, res) /\ Overtakes(v, res)
  BY DEF update_purchase_order, RowType
<1>4. ASSUME NEW status \in DOMAIN OdooTarget
      PROVE  LET res == odoo_order_status_webhook(o, status, v, st)
             IN (status # "cancel" => Settled(v, res)) /\ Overtakes(v, res)
  <2>1. odoo_order_status_webhook(o, status, v, st).row.pay = v.pay
    BY DEF odoo_order_status_webhook, mark_order_consumed, force_forward_from_integration,
           release_order, lifecycle_cancel, RowType
  <2>2. status # "cancel" =>
          (odoo_order_status_webhook(o, status, v, st).row.ful = "cancelled" => v.ful = "cancelled")
    BY DEF odoo_order_status_webhook, mark_order_consumed, force_forward_from_integration,
           RowType, OdooTarget
  <2> QED BY <2>1, <2>2
<1> HIDE DEF Settled, Overtakes
<1> QED BY <1>1, <1>2, <1>3, <1>4

\* The payment that a cancellation has read early is the one there is, or its refund is asked
\* for.  The back office and the warehouse read it early too, and do nothing about it.
PayFresh == \A s \in Sessions :
    sess[s] # Free /\ sess[s].op = "cancel" =>
       PayAsRead(row[sess[s].o].pay, sess[s].read.pay)

\* The inductive invariant about payments: Paymob reports only on electronic orders.
MoneyInv == PayFresh /\ \A key \in callbacks : key[1] \in Electronic

\* A cancelled order is not left paid.
NotOwed(v) == v.ful = "cancelled" => v.pay # "paid"

\* What a step keeps of the payment of an order.
PaidOn(o) ==
    /\ row[o].pay = "refunded" => row'[o].pay = "refunded"
    /\ "cancel" \notin OdooStatuses /\ NotOwed(row[o]) => NotOwed(row'[o])

\* Whatever the request, its handler settles, or has nothing to do with the payment.
LEMMA HandleSettles ==
  ASSUME IInv, NEW s \in Sessions, sess[s] # Free, NEW v \in RowType, NEW taken,
         v.pay = "paid" => sess[s].o \in Electronic
  PROVE  LET res == Handle(sess[s], v, taken) IN
         /\ sess[s].op \in {"callback", "cancel"} => Settled(v, res)
         /\ sess[s].op = "cancel" => Overtakes(v, res)
         /\ sess[s].op \notin {"callback", "cancel"} => PayLeft(v, res)
<1> DEFINE req == sess[s]
<1>1. SessionOK(s) /\ req.o \in Orders BY Parts DEF SessOK, SessionOK
<1>2. CASE req.op = "callback" BY <1>1, <1>2, CallbackSettles DEF Handle
<1>3. CASE req.op = "cancel" BY <1>1, <1>3, CancelSettles DEF Handle
<1>4. CASE req.op = "status" BY <1>1, <1>4, OthersLeavePay DEF Handle
<1>5. CASE req.op = "dispatch" BY <1>1, <1>5, OthersLeavePay DEF Handle
<1>6. CASE req.op = "supplier" BY <1>1, <1>6, OthersLeavePay DEF Handle
<1> QED BY <1>1, <1>2, <1>3, <1>4, <1>5, <1>6 DEF SessionOK

\* A request leaves what a cancellation read as fresh as it was, unless it is a callback about
\* the same order.
LEMMA FinishPays ==
  ASSUME IInv, MoneyInv, PaymentsApart, NEW s \in Sessions, Finish(s)
  PROVE  MoneyInv' /\ \A o \in Orders : PaidOn(o)
<1> DEFINE o == sess[s].o
           op == sess[s].op
<1>0. RowsOK /\ SessOK /\ PaymobOK BY Parts
<1>1. sess[s] # Free /\ SessionOK(s) /\ o \in Orders BY Finishing
<1>2. PICK v \in RowType, taken \in BOOLEAN :
        LET res == Handle(sess[s], v, taken) IN
        ViewOf(s, v) /\ (Charged(v) => Captured(o)) /\ Commit(o, v, res)
  BY Finishing
<1> DEFINE res == Handle(sess[s], v, taken)
<1>3. row \in [Orders -> RowType] BY <1>0 DEF RowsOK
<1>4. v.pay = "paid" => o \in Electronic
  <2> SUFFICES ASSUME v.pay = "paid" PROVE o \in Electronic OBVIOUS
  <2>1. PICK t \in Txs : <<o, t, "succeeded">> \in receipts BY <1>2 DEF Charged, Captured
  <2>2. <<o, t, "succeeded">> \in callbacks BY <2>1, <1>0 DEF PaymobOK
  <2> QED BY <2>2 DEF MoneyInv
<1>5. /\ op \in {"callback", "cancel"} => Settled(v, res)
      /\ op = "cancel" => Overtakes(v, res)
      /\ op \notin {"callback", "cancel"} => PayLeft(v, res)
  BY <1>1, <1>4, HandleSettles
<1>6. Commit(o, v, res) BY <1>2
<1> HIDE DEF res
<1>7. /\ \A p \in Orders \ {o} : row'[p] = row[p]
      /\ res.outcome = "error" => row'[o] = row[o]
      /\ res.outcome # "error" =>
           \A f \in DOMAIN NoRow :
              row'[o][f] = IF res.row[f] # v[f] THEN res.row[f] ELSE row[o][f]
  BY <1>1, <1>3, <1>6, Committed
<1>8. /\ v.ful = row[o].ful
      /\ op \in {"callback", "cancel"} => PayAsRead(row[o].pay, v.pay)
  BY <1>1, <1>2 DEF ViewOf, SessionOK, Unlocked, ReadLate, NoRow, MoneyInv, PayFresh, PayAsRead
<1>9. PaidOn(o) /\ (op # "callback" => PayAsRead(row'[o].pay, row[o].pay))
  <2>1. CASE res.outcome = "error" BY <1>7, <2>1 DEF PaidOn, NotOwed, PayAsRead
  <2>2. CASE res.outcome # "error"
    <3>1. /\ row'[o].pay = IF res.row.pay # v.pay THEN res.row.pay ELSE row[o].pay
          /\ row'[o].ful = IF res.row.ful # v.ful THEN res.row.ful ELSE row[o].ful
      BY <1>7, <2>2 DEF NoRow
    <3>2. CASE op \in {"callback", "cancel"}
      <4>1. PaidOn(o)
        BY <3>1, <3>2, <1>5, <1>8, <2>2 DEF PaidOn, NotOwed, Settled, Settles, PayAsRead
      <4>2. op = "cancel" => PayAsRead(row'[o].pay, row[o].pay)
        BY <3>1, <1>5, <1>8, <2>2 DEF Overtakes, PayAsRead
      <4> QED BY <3>2, <4>1, <4>2
    <3>3. CASE op \notin {"callback", "cancel"}
      BY <3>1, <3>3, <1>5, <1>8, <2>2 DEF PaidOn, NotOwed, PayLeft, PayAsRead
    <3> QED BY <3>2, <3>3
  <2> QED BY <2>1, <2>2
<1>10. \A p \in Orders : PaidOn(p) BY <1>7, <1>9 DEF PaidOn, NotOwed
<1>11. MoneyInv'
  <2>1. sess' = [sess EXCEPT ![s] = Free] /\ callbacks' = callbacks BY DEF Finish
  <2>2. ASSUME NEW z \in Sessions, sess'[z] # Free, sess'[z].op = "cancel"
        PROVE  PayAsRead(row'[sess'[z].o].pay, sess'[z].read.pay)
    <3>1. sess'[z] = sess[z] /\ z # s BY <1>0, <2>1, <2>2 DEF SessOK
    <3>2. sess[z].o \in Orders BY <1>0, <2>2, <3>1 DEF SessOK, SessionOK
    <3>3. PayAsRead(row[sess[z].o].pay, sess[z].read.pay) BY <2>2, <3>1 DEF MoneyInv, PayFresh
    <3>4. CASE sess[z].o # o BY <1>7, <3>1, <3>2, <3>3, <3>4
    <3>5. CASE sess[z].o = o
      <4>1. op # "callback" BY <1>1, <2>2, <3>1, <3>5 DEF PaymentsApart, NeverTogether
      <4> QED BY <1>9, <3>1, <3>3, <3>5, <4>1 DEF PayAsRead
    <3> QED BY <3>4, <3>5
  <2> QED BY <2>1, <2>2 DEF MoneyInv, PayFresh
<1> QED BY <1>10, <1>11

\* A handler that locks first keeps the payments in order, whatever requests have read.
LEMMA AtomicPays ==
  ASSUME IInv, MoneyInv, NEW o \in Orders, NEW res, Commit(o, row[o], res),
         UNCHANGED <<sess, callbacks>>,
         Overtakes(row[o], res), "cancel" \notin OdooStatuses => Settled(row[o], res)
  PROVE  MoneyInv' /\ \A p \in Orders : PaidOn(p)
<1>0. RowsOK /\ SessOK BY Parts
<1>1. row \in [Orders -> RowType] BY <1>0 DEF RowsOK
<1>2. /\ \A p \in Orders \ {o} : row'[p] = row[p]
      /\ res.outcome = "error" => row'[o] = row[o]
      /\ res.outcome # "error" =>
           \A f \in DOMAIN NoRow :
              row'[o][f] = IF res.row[f] # row[o][f] THEN res.row[f] ELSE row[o][f]
  BY <1>1, Committed
<1>3. res.outcome # "error" => row'[o].pay = res.row.pay /\ row'[o].ful = res.row.ful
  BY <1>2 DEF NoRow
<1>4. PayAsRead(row'[o].pay, row[o].pay) BY <1>2, <1>3 DEF Overtakes, PayAsRead
<1>5. PaidOn(o) BY <1>2, <1>3, <1>4 DEF PaidOn, NotOwed, Settled, Settles, PayAsRead
<1>6. \A p \in Orders : PaidOn(p) BY <1>2, <1>5 DEF PaidOn, NotOwed
<1>7. MoneyInv'
  <2>1. \A z \in Sessions : sess[z] # Free => sess[z].o \in Orders BY <1>0 DEF SessOK, SessionOK
  <2>2. \A p \in Orders : PayAsRead(row'[p].pay, row[p].pay) BY <1>2, <1>4 DEF PayAsRead
  <2>3. \A z \in Sessions : sess[z] # Free /\ sess[z].op = "cancel" =>
          PayAsRead(row'[sess[z].o].pay, sess[z].read.pay)
    BY <2>1, <2>2 DEF MoneyInv, PayFresh, PayAsRead
  <2> QED BY <2>3 DEF MoneyInv, PayFresh
<1> QED BY <1>6, <1>7

\* Every step does.
LEMMA NextPays ==
  ASSUME IInv, MoneyInv, PaymentsApart, [Next]_vars
  PROVE  MoneyInv' /\ \A o \in Orders : PaidOn(o)
<1> DEFINE Goal == MoneyInv' /\ \A o \in Orders : PaidOn(o)
<1> SUFFICES Goal OBVIOUS
<1>0. RowsOK /\ SessOK /\ \A o \in Orders : row[o] \in RowType BY Parts DEF RowsOK
<1> HIDE DEF Goal
<1>1. ASSUME NEW o \in Orders, Checkout(o) PROVE Goal
  <2>1. row[o].state = "absent" BY <1>1 DEF Checkout, checkout, Raise, Done
  <2>2. row[o] = NoRow BY <2>1, <1>0 DEF RowsOK, Placed
  <2>3. Settled(row[o], checkout(o, row[o], stock)) /\ Overtakes(row[o], checkout(o, row[o], stock))
    BY <2>2 DEF checkout, Raise, Done, NoRow, PayAsRead, Settled, Settles, Overtakes
  <2> QED BY <1>1, <2>3, AtomicPays DEF Checkout, Goal
<1>2. ASSUME NEW o \in Orders, RequestRefund(o) PROVE Goal
  BY <1>0, <1>2, LockersSettle, AtomicPays DEF RequestRefund, Atomic, Goal
<1>3. ASSUME NEW o \in Orders, MarkDelivered(o) PROVE Goal
  <2>1. PICK last \in {"pick", "drop"} :
          Atomic("deliver", o, mark_delivered(last, row[o], stock))
    BY <1>3 DEF MarkDelivered
  <2> QED BY <1>0, <2>1, LockersSettle, AtomicPays DEF Atomic, Goal
<1>4. ASSUME NEW o \in Orders, UpdatePurchaseOrder(o) PROVE Goal
  <2>1. PICK target \in {"sent", "partial", "received", "cancelled"} :
          Atomic("po", o, update_purchase_order(target, row[o], stock))
    BY <1>4 DEF UpdatePurchaseOrder
  <2> QED BY <1>0, <2>1, LockersSettle, AtomicPays DEF Atomic, Goal
<1>5. ASSUME NEW o \in Orders, OdooOrderStatus(o) PROVE Goal
  <2>1. PICK status \in OdooStatuses :
          Atomic("odoo", o, odoo_order_status_webhook(o, status, row[o], stock))
    BY <1>5 DEF OdooOrderStatus
  <2>2. status \in DOMAIN OdooTarget BY OrderAssumption
  <2> QED BY <1>0, <2>1, <2>2, LockersSettle, AtomicPays DEF Atomic, Goal
<1>6. ASSUME NEW s \in Sessions, Finish(s) PROVE Goal BY <1>6, FinishPays DEF Goal
<1>7. CASE UNCHANGED <<row, sess>> /\ (\A key \in callbacks' : key[1] \in Electronic)
  BY <1>7 DEF Goal, PaidOn, MoneyInv, PayFresh, NotOwed
<1>8. ASSUME NEW o \in Orders, NEW t \in Txs, PaymobMoves(o, t) PROVE Goal
  BY <1>7, <1>8 DEF PaymobMoves, MoneyInv
<1>9. ASSUME NEW s \in Sessions, NEW op, NEW o \in Orders, NEW arg, Begin(s, op, o, arg) PROVE Goal
  <2>1. /\ sess' = [sess EXCEPT ![s] =
                  [op |-> op, o |-> o, arg |-> arg,
                   read |-> [f \in Unlocked(op) \cup ReadLate(op) |-> row[o][f]]]]
        /\ UNCHANGED <<row, callbacks>>
    BY <1>9 DEF Begin
  <2>2. ASSUME NEW z \in Sessions, sess'[z] # Free, sess'[z].op = "cancel"
        PROVE  PayAsRead(row[sess'[z].o].pay, sess'[z].read.pay)
    <3>1. CASE z = s BY <1>0, <2>1, <2>2, <3>1 DEF SessOK, PayAsRead, Unlocked
    <3>2. CASE z # s
      <4>1. sess'[z] = sess[z] BY <1>0, <2>1, <3>2 DEF SessOK
      <4> QED BY <2>2, <4>1 DEF MoneyInv, PayFresh
    <3> QED BY <3>1, <3>2
  <2>3. MoneyInv' BY <2>1, <2>2 DEF MoneyInv, PayFresh
  <2> QED BY <2>1, <2>3 DEF Goal, PaidOn, NotOwed
<1>10. ASSUME NEW s \in Sessions, NEW o \in Orders, BeginRequest(s, o) PROVE Goal
  BY <1>9, <1>10 DEF BeginRequest
<1>11. ASSUME NEW s \in Sessions, NEW key \in callbacks, BeginCallback(s, key) PROVE Goal
  <2>1. key[1] \in Orders BY Parts DEF PaymobOK
  <2> QED BY <1>9, <1>11, <2>1 DEF BeginCallback
<1>12. CASE UNCHANGED vars BY <1>7, <1>12 DEF vars, MoneyInv
<1> QED BY <1>1, <1>2, <1>3, <1>4, <1>5, <1>6, <1>8, <1>10, <1>11, <1>12 DEF Next

\* There is nothing to pay at the start.
LEMMA InitMoney == Init => MoneyInv
BY DEF Init, MoneyInv, PayFresh

\* A refund that the provider has completed is never asked for again (refunds.py), as long
\* as no callback about an order is in flight beside its cancellation.
THEOREM RefundsAreFinal == Spec /\ []PaymentsApart => RefundedIsFinal
<1> DEFINE Kept == \A o \in Orders : row[o].pay = "refunded" => row'[o].pay = "refunded"
<1>1. IInv /\ MoneyInv /\ PaymentsApart /\ [Next]_vars => MoneyInv' /\ Kept
  BY NextPays DEF PaidOn
<1>2. RefundedIsFinal <=> [][Kept]_vars BY DEF RefundedIsFinal
<1> HIDE DEF Kept
<1>3. Kept => [Kept]_vars OBVIOUS
<1> QED BY <1>1, <1>2, InitMoney, LifecycleInvariant, PTL DEF Spec

\* A paid order is not cancelled without its refund being requested, as long as no callback
\* about an order is in flight beside its cancellation (run Order_stale_cancel shows one that
\* is) and Odoo cancels none: its webhook moves the order alone.
THEOREM CancelledOrdersAreRefunded ==
  "cancel" \notin OdooStatuses => (Spec /\ []PaymentsApart => []CancelledPaidIsRefunded)
<1> SUFFICES ASSUME "cancel" \notin OdooStatuses
             PROVE  Spec /\ []PaymentsApart => []CancelledPaidIsRefunded
  OBVIOUS
<1>1. Init => CancelledPaidIsRefunded BY DEF Init, NoRow, CancelledPaidIsRefunded
<1>2. IInv /\ MoneyInv /\ PaymentsApart /\ [Next]_vars =>
        MoneyInv' /\ \A o \in Orders : PaidOn(o)
  BY NextPays
<1>3. CancelledPaidIsRefunded /\ (\A o \in Orders : PaidOn(o)) => CancelledPaidIsRefunded'
  BY DEF CancelledPaidIsRefunded, PaidOn, NotOwed
<1> QED BY <1>1, <1>2, <1>3, InitMoney, LifecycleInvariant, PTL DEF Spec

-------------------------------------------------------------------------------
(* The goods: what has left was withheld *)

\* The statuses of a leg that has left.
Left == {"shipped", "delivered"}

\* What the columns about the goods of an order in the database say of one another.
GoodsRow(o, v) ==
    /\ v.ful # "none"
    /\ v.ful = "cancelled" <=> v.state = "cancel"
    /\ v.ful = "cancelled" <=> v.released
    /\ v.ful = "cancelled" => v.resv # "reserved"
    /\ o \in Stocked => v.resv # "none" /\ (v.ful # "cancelled" => v.resv # "released")
    /\ o \notin Dropship => v.leg # "dropship"
    /\ v.leg = "none" => v.pick \notin Left

\* The units of the order have left our stock, or never were in it.
Gone(o, v) == o \in Stocked => v.resv = "consumed" \/ v.leg = "dropship"

\* A parcel that left our warehouse carried the units reserved for it.
ShippedRow(o, v) ==
    /\ v.picking = "done" => Gone(o, v)
    /\ v.leg = "local" /\ (o \in Dropship \/ v.pick \in Left) /\ o \in Stocked =>
         v.resv = "consumed"

\* The early reads of the three routes about an order.
ReadInTime(cur, v) ==
    /\ v.state = "cancel" <=> cur.ful = "cancelled"
    /\ v.released = cur.released

\* The row w that the writes of a handler make of the current one.
Merge(cur, v, new, w) ==
    \A f \in DOMAIN NoRow : w[f] = IF new[f] # v[f] THEN new[f] ELSE cur[f]

\* What was seen of a row is current but for the columns F.
Agree(cur, v, F) == \A f \in DOMAIN NoRow \ F : v[f] = cur[f]

\* What a handler writes is what it returned, but for the columns it read early.
LEMMA AgreeMerge ==
  ASSUME NEW cur, NEW v, NEW new, NEW w, NEW F, Merge(cur, v, new, w), Agree(cur, v, F)
  PROVE  Agree(new, w, F)
BY DEF Merge, Agree

\* The columns that say where the goods are.
GoodsColumns == {"ful", "state", "released", "resv", "picking", "leg", "pick"}

\* A row that keeps those columns keeps what is said of them.
LEMMA SameGoods ==
  ASSUME NEW o, NEW v, NEW w, Same(v, w, GoodsColumns), GoodsRow(o, v)
  PROVE  GoodsRow(o, w) /\ (ShippedRow(o, v) => ShippedRow(o, w))
BY DEF Same, GoodsColumns, GoodsRow, ShippedRow, Gone

\* A success reopens what a failure cancelled, and reserves its units again.
LEMMA SucceededShips ==
  ASSUME NEW o \in Orders, NEW t \in Txs, NEW v \in RowType, NEW st \in Nat, GoodsRow(o, v),
         mark_payment_succeeded(o, t, v, st).outcome # "error"
  PROVE  LET w == mark_payment_succeeded(o, t, v, st).row IN
         GoodsRow(o, w) /\ (ShippedRow(o, v) => ShippedRow(o, w))
<1> DEFINE w == mark_payment_succeeded(o, t, v, st).row
<1>1. \/ Same(v, w, GoodsColumns)
      \/ /\ Same(v, w, {"picking", "leg", "pick"})
         /\ w.ful = IF v.ful = "payment_pending" \/ v.ful = "cancelled" THEN "confirmed" ELSE v.ful
         /\ w.state # "cancel" /\ w.released = FALSE
         /\ w.resv = IF v.released /\ v.resv = "released" THEN "reserved" ELSE v.resv
  <2> DEFINE r == [v EXCEPT !.txn = t]
             late == r.ful = "cancelled" /\ r.reason # "payment_failed"
  <2> USE DEF Same, GoodsColumns
  <2>1. CASE r.pay \in {"refunded", "paid"}
    BY <2>1 DEF mark_payment_succeeded, Done, RowType
  <2>2. CASE r.pay \notin {"refunded", "paid"} /\ late
    BY <2>2 DEF mark_payment_succeeded, Done, RowType, ensure_full_refund_request
  <2>3. CASE r.pay \notin {"refunded", "paid"} /\ ~late
    <3> DEFINE back == IF r.released THEN rereserve_order(o, r, st).row ELSE r
    <3>1. w = Recovered(o, back) /\ ~CannotRereserve(o, r, st)
      BY <2>3 DEF mark_payment_succeeded, Done, Raise
    <3>2. r \in RowType BY Put
    <3>3. back \in RowType
      <4> HIDE DEF r
      <4>1. rereserve_order(o, r, st).row \in RowType BY <3>1, <3>2, RereserveOrder
      <4> QED BY <3>2, <4>1
    <3>4. /\ back.released = FALSE
          /\ back.resv = IF v.released /\ v.resv = "released" THEN "reserved" ELSE v.resv
          /\ back.ful = v.ful /\ back.reason = v.reason
          /\ back.picking = v.picking /\ back.leg = v.leg /\ back.pick = v.pick
      BY DEF rereserve_order, RowType
    <3>5. ~(v.ful = "cancelled" /\ v.reason # "payment_failed") BY <2>3 DEF RowType
    <3> HIDE DEF back, w, r
    <3>6. /\ w.ful = IF back.ful = "payment_pending"
                        \/ (back.ful = "cancelled" /\ back.reason = "payment_failed")
                     THEN "confirmed" ELSE back.ful
          /\ w.state # "cancel" /\ w.released = back.released /\ w.resv = back.resv
          /\ w.picking = back.picking /\ w.leg = back.leg /\ w.pick = back.pick
      BY <3>1, <3>3 DEF Recovered, ensure_purchase_orders_for_paid_order,
                        confirm_after_verified_payment, RowType
    <3> QED BY <3>4, <3>5, <3>6
  <2> QED BY <2>1, <2>2, <2>3
<1> HIDE DEF w
<1>2. CASE Same(v, w, GoodsColumns) BY <1>2, SameGoods DEF w
<1>3. CASE ~Same(v, w, GoodsColumns)
  BY <1>1, <1>3 DEF w, Same, GoodsRow, ShippedRow, Gone
<1> QED BY <1>2, <1>3

\* Every callback keeps track of the goods.
LEMMA CallbackShips ==
  ASSUME NEW o \in Orders, NEW t \in Txs, NEW kind, NEW v \in RowType, NEW st \in Nat,
         GoodsRow(o, v),
         process_paymob_transaction(o, t, kind, v, st).outcome # "error"
  PROVE  LET w == process_paymob_transaction(o, t, kind, v, st).row IN
         GoodsRow(o, w) /\ (ShippedRow(o, v) => ShippedRow(o, w))
<1> DEFINE Good(res) ==
      res.outcome # "error" =>
        GoodsRow(o, res.row) /\ (ShippedRow(o, v) => ShippedRow(o, res.row))
<1>1. Good(mark_payment_succeeded(o, t, v, st)) BY SucceededShips
<1>2. Good(mark_payment_failed(o, t, v, st))
  BY DEF mark_payment_failed, FailureIgnored, release_order, lifecycle_cancel,
         Done, Raise, RowType, GoodsRow, ShippedRow, Gone
<1>3. Good(mark_payment_refunded(o, t, v, st))
  BY DEF mark_payment_refunded, Done, Raise, RowType, GoodsRow, ShippedRow, Gone
<1>4. _callback_type(kind) \in {"pending", "succeeded", "refunded", "failed", "voided"}
  BY DEF _callback_type
<1>5. Good(Done(v, st, "rejected"))
  BY DEF Done
<1>6. Good(Done([v EXCEPT !.attempt = "pending", !.txn = t], st, "pending"))
  <2> DEFINE w == [v EXCEPT !.attempt = "pending", !.txn = t]
  <2>1. Same(v, w, GoodsColumns) BY DEF RowType, Same, GoodsColumns
  <2> HIDE DEF w
  <2>2. GoodsRow(o, w) /\ (ShippedRow(o, v) => ShippedRow(o, w)) BY <2>1, SameGoods
  <2> QED BY <2>2 DEF Done, w
<1> HIDE DEF Good
<1>7. Good(process_paymob_transaction(o, t, kind, v, st))
  BY <1>1, <1>2, <1>3, <1>4, <1>5, <1>6 DEF process_paymob_transaction
<1> QED BY <1>7 DEF Good

\* The customer's cancellation keeps track of the goods, if what it read is current.
LEMMA CancelShips ==
  ASSUME NEW o \in Orders, NEW cur \in RowType, NEW v \in RowType, NEW st \in Nat, NEW w,
         GoodsRow(o, cur), Agree(cur, v, {"state", "pay", "released"}), ReadInTime(cur, v),
         cancel(o, v, st).outcome # "error", Merge(cur, v, cancel(o, v, st).row, w)
  PROVE  GoodsRow(o, w) /\ (ShippedRow(o, cur) => ShippedRow(o, w))
<1> DEFINE new == cancel(o, v, st).row
<1>1. /\ v.ful = cur.ful /\ v.resv = cur.resv /\ v.picking = cur.picking /\ v.leg = cur.leg
      /\ v.pick = cur.pick
  BY DEF Agree, NoRow
<1>2. /\ w.ful = new.ful /\ w.resv = new.resv /\ w.picking = new.picking /\ w.leg = new.leg
      /\ w.pick = new.pick
      /\ w.state = IF new.state # v.state THEN new.state ELSE cur.state
      /\ w.released = IF new.released # v.released THEN new.released ELSE cur.released
  BY DEF Merge, Agree, NoRow
<1>3. CASE v.ful = "cancelled"
  <2>1. new = v BY <1>3 DEF cancel, Done
  <2> QED BY <1>1, <1>2, <1>3, <2>1 DEF GoodsRow, ShippedRow, Gone, ReadInTime
<1>4. CASE v.ful # "cancelled"
  <2>1. /\ new.ful = "cancelled" /\ new.state = "cancel" /\ new.released = TRUE
        /\ new.resv = IF v.resv = "reserved" THEN "released" ELSE v.resv
        /\ new.picking = v.picking /\ new.leg = v.leg /\ new.pick = v.pick
    BY <1>4 DEF cancel, Done, Raise, release_order, lifecycle_cancel,
                ensure_full_refund_request, RowType
  <2> HIDE DEF new
  <2> QED BY <1>1, <1>2, <1>4, <2>1 DEF GoodsRow, ShippedRow, Gone, ReadInTime, RowType
<1> QED BY <1>3, <1>4

\* So does the status route, for a status that is no cancellation.
LEMMA StatusShips ==
  ASSUME NEW o \in Orders, NEW cur \in RowType, NEW v \in RowType, NEW st \in Nat, NEW w,
         NEW target \in {"sent", "sale", "done"},
         GoodsRow(o, cur), Agree(cur, v, {"state", "pay", "released"}), ReadInTime(cur, v),
         update_order_state(target, v, st).outcome # "error",
         Merge(cur, v, update_order_state(target, v, st).row, w)
  PROVE  GoodsRow(o, w) /\ (ShippedRow(o, cur) => ShippedRow(o, w))
<1> DEFINE new == update_order_state(target, v, st).row
<1>1. /\ v.ful = cur.ful /\ v.resv = cur.resv /\ v.picking = cur.picking /\ v.leg = cur.leg
      /\ v.pick = cur.pick
  BY DEF Agree, NoRow
<1>2. /\ w.ful = new.ful /\ w.resv = new.resv /\ w.picking = new.picking /\ w.leg = new.leg
      /\ w.pick = new.pick
      /\ w.state = IF new.state # v.state THEN new.state ELSE cur.state
      /\ w.released = IF new.released # v.released THEN new.released ELSE cur.released
  BY DEF Merge, Agree, NoRow
<1>3. v.state # "cancel" /\ new = [v EXCEPT !.state = target]
  BY DEF update_order_state, VALID_STATE_TRANSITIONS, Done, Raise
<1>4. /\ new.ful = v.ful /\ new.resv = v.resv /\ new.picking = v.picking /\ new.leg = v.leg
      /\ new.pick = v.pick /\ new.released = v.released /\ new.state = target
  BY <1>3 DEF RowType
<1> HIDE DEF new
<1> QED BY <1>1, <1>2, <1>3, <1>4 DEF GoodsRow, ShippedRow, Gone, ReadInTime, RowType

\* So does a dispatch, if it knows whether the goods are gone.
LEMMA DispatchShips ==
  ASSUME NEW o \in Orders, NEW cur \in RowType, NEW v \in RowType, NEW st \in Nat, NEW w, NEW taken,
         GoodsRow(o, cur), ReadInTime(cur, v),
         Agree(cur, v, {"state", "pay", "released", "picking", "drop"}),
         dispatch_order(o, v, taken, st).outcome # "error",
         Merge(cur, v, dispatch_order(o, v, taken, st).row, w)
  PROVE  /\ GoodsRow(o, w)
         /\ ShippedRow(o, cur) /\ (v.picking = "done" => Gone(o, cur)) => ShippedRow(o, w)
<1> DEFINE new == dispatch_order(o, v, taken, st).row
<1>1. /\ v.ful = cur.ful /\ v.resv = cur.resv /\ v.leg = cur.leg /\ v.pick = cur.pick
  BY DEF Agree, NoRow
<1>2. /\ w.ful = new.ful /\ w.resv = new.resv /\ w.leg = new.leg /\ w.pick = new.pick
      /\ w.state = IF new.state # v.state THEN new.state ELSE cur.state
      /\ w.released = IF new.released # v.released THEN new.released ELSE cur.released
      /\ w.picking = IF new.picking # v.picking THEN new.picking ELSE cur.picking
  BY <1>1 DEF Merge, NoRow
<1>3. /\ v.state \in {"sale", "done", "sent"}
      /\ new.released = v.released /\ new.picking = "done" /\ new.pick = "shipped"
      /\ new.state = "done"
      /\ (new.ful = "cancelled" <=> v.ful = "cancelled") /\ (v.ful # "none" => new.ful # "none")
      /\ new.leg = IF v.leg # "none" THEN v.leg
                   ELSE IF v.resv # "none" \/ o \notin Dropship THEN "local" ELSE "dropship"
      /\ new.resv = IF /\ v.resv # "none" \/ o \notin Dropship
                       /\ v.picking # "done" /\ v.resv = "reserved"
                    THEN "consumed" ELSE v.resv
  <2> DEFINE vetted == v.state = "sent" /\ Cod(o)
             leg == IF LocalRequired(v) \/ o \notin Dropship THEN "local" ELSE "dropship"
             a == IF v.ful = "payment_pending" /\ vetted THEN [v EXCEPT !.ful = "confirmed"] ELSE v
             b == [a EXCEPT !.picking = "done", !.pick = "shipped",
                       !.leg = IF @ = "none" THEN leg ELSE @,
                       !.state = IF @ \in {"sale", "sent"} THEN "done" ELSE @]
             c == IF leg = "local" /\ v.picking # "done" THEN mark_order_consumed(b) ELSE b
  <2>1. new = IF _all_required_shipments_in(c, {"shipped", "delivered"})
              THEN force_forward_from_integration(c, "shipped") ELSE c
    BY DEF dispatch_order, Done, Raise
  <2>7. v.state \in {"sale", "done", "sent"} BY DEF dispatch_order, Done, Raise
  <2>2. leg = IF v.resv # "none" \/ o \notin Dropship THEN "local" ELSE "dropship"
    BY DEF LocalRequired
  <2> HIDE DEF leg, new
  <2>3. /\ a \in RowType /\ a.ful = IF v.ful = "payment_pending" /\ vetted
                                    THEN "confirmed" ELSE v.ful
        /\ Same(v, a, {"state", "released", "resv", "leg", "picking"})
    <3> HIDE DEF vetted
    <3>1. a \in RowType BY Put
    <3>2. DOMAIN v = DOMAIN NoRow BY DEF RowType, NoRow
    <3> QED BY <3>1, <3>2 DEF NoRow, Same
  <2> HIDE DEF a
  <2>4. /\ b.state = "done" /\ b.picking = "done" /\ b.pick = "shipped"
        /\ b.leg = IF v.leg = "none" THEN leg ELSE v.leg
        /\ b.ful = a.ful /\ b.released = v.released /\ b.resv = v.resv
        /\ DOMAIN b = DOMAIN NoRow
    BY <2>3, <2>7 DEF RowType, Same, NoRow
  <2> HIDE DEF b
  <2>5. /\ c.state = "done" /\ c.picking = "done" /\ c.pick = "shipped"
        /\ c.leg = b.leg /\ c.ful = a.ful /\ c.released = v.released
        /\ c.resv = IF leg = "local" /\ v.picking # "done" /\ v.resv = "reserved"
                    THEN "consumed" ELSE v.resv
        /\ DOMAIN c = DOMAIN NoRow
    BY <2>4 DEF mark_order_consumed, NoRow
  <2> HIDE DEF c
  <2>6. /\ Same(c, new, {"state", "picking", "pick", "leg", "released", "resv"})
        /\ new.ful \in {c.ful, "shipped"} /\ (c.ful = "cancelled" => new.ful = c.ful)
    BY <2>1, <2>5 DEF force_forward_from_integration, NoRow, Same
  <2> QED BY <2>2, <2>3, <2>4, <2>5, <2>6, <2>7 DEF Same
<1> HIDE DEF new
<1> QED BY <1>1, <1>2, <1>3 DEF GoodsRow, ShippedRow, Gone, ReadInTime, RowType, Left

\* So does a supplier's shipment.
LEMMA SupplierShips ==
  ASSUME NEW o \in Orders, NEW cur \in RowType, NEW v \in RowType, NEW st \in Nat, NEW w,
         NEW status,
         GoodsRow(o, cur), Agree(cur, v, {"pick"}),
         Merge(cur, v, update_supplier_shipment(status, v, st).row, w)
  PROVE  GoodsRow(o, w) /\ (ShippedRow(o, cur) => ShippedRow(o, w))
<1> DEFINE new == update_supplier_shipment(status, v, st).row
<1>1. /\ v.ful = cur.ful /\ v.resv = cur.resv /\ v.leg = cur.leg /\ v.picking = cur.picking
      /\ v.state = cur.state /\ v.released = cur.released
  BY DEF Agree, NoRow
<1>2. /\ w.ful = new.ful /\ w.resv = new.resv /\ w.leg = new.leg /\ w.picking = new.picking
      /\ w.state = new.state /\ w.released = new.released
      /\ w.pick = IF new.pick # v.pick THEN new.pick ELSE cur.pick
  BY <1>1 DEF Merge, NoRow
<1>3. /\ new.released = v.released /\ new.picking = v.picking /\ new.pick = v.pick
      /\ new.state = v.state /\ new.resv = v.resv /\ new.leg = v.leg
      /\ (new.ful = "cancelled" <=> v.ful = "cancelled") /\ (v.ful # "none" => new.ful # "none")
  BY DEF update_supplier_shipment, Done, Raise, Forwarded, force_forward_from_integration,
         RowType
<1> HIDE DEF new
<1> QED BY <1>1, <1>2, <1>3 DEF GoodsRow, ShippedRow, Gone, RowType, Left

\* What a status of Odoo that it applies, and that is no cancellation, does to an order.
LEMMA OdooMoves ==
  ASSUME NEW o \in Orders, NEW v \in RowType, NEW st \in Nat,
         NEW status \in DOMAIN OdooTarget \ {"cancel"}, _can_apply_fulfillment(v, status)
  PROVE  LET w == odoo_order_status_webhook(o, status, v, st).row
             to == OdooTarget[status]
             leg == IF v.leg # "none" THEN v.leg
                    ELSE IF o \in Dropship THEN "dropship" ELSE "local"
         IN /\ v.ful # "cancelled" /\ w.ful = to.ful
            /\ w.state = to.state /\ w.picking = to.picking /\ w.leg = leg
            /\ w.pick = IF to.ful \in Left THEN to.ful
                        ELSE IF v.pick = "none" THEN "pending" ELSE v.pick
            /\ w.resv = IF status = "shipped" /\ v.picking # "done" /\ leg # "dropship"
                           /\ v.resv = "reserved"
                        THEN "consumed" ELSE v.resv
            /\ Same(v, w, {"released", "reason", "drop", "po", "pay"})
<1> DEFINE to == OdooTarget[status]
           leg == IF v.leg # "none" THEN v.leg ELSE IF o \in Dropship THEN "dropship" ELSE "local"
           pick == IF to.ful \in Left THEN to.ful ELSE IF v.pick = "none" THEN "pending" ELSE v.pick
           a == [v EXCEPT !.state = to.state, !.picking = to.picking, !.leg = leg, !.pick = pick]
           b == IF status = "shipped" /\ v.picking # "done" /\ leg # "dropship"
                THEN mark_order_consumed(a) ELSE a
           w == odoo_order_status_webhook(o, status, v, st).row
<1>1. to.ful # "cancelled" BY DEF OdooTarget
<1> HIDE DEF to
<1>2. a = [v EXCEPT !.state = to.state, !.picking = to.picking, !.leg = leg,
                    !.pick = CASE to.ful \in {"shipped", "delivered"} -> to.ful
                               [] to.ful = "cancelled" ->
                                    IF @ \in {"shipped", "delivered"} THEN @ ELSE "cancelled"
                               [] OTHER -> IF @ = "none" THEN "pending" ELSE @]
  BY <1>1 DEF RowType, Left
<1> HIDE DEF pick
<1>3. /\ a.state = to.state /\ a.picking = to.picking /\ a.leg = leg /\ a.pick = pick
      /\ a.resv = v.resv /\ Same(v, a, {"released", "reason", "drop", "po", "pay", "ful"})
      /\ DOMAIN a = DOMAIN v
  BY DEF RowType, Same
<1>4. w = force_forward_from_integration(b, to.ful)
  BY <1>2 DEF odoo_order_status_webhook, Done, to
<1> HIDE DEF a
<1>5. /\ b.state = a.state /\ b.picking = a.picking /\ b.leg = a.leg /\ b.pick = a.pick
      /\ b.resv = IF status = "shipped" /\ v.picking # "done" /\ leg # "dropship"
                     /\ v.resv = "reserved"
                  THEN "consumed" ELSE v.resv
      /\ Same(v, b, {"released", "reason", "drop", "po", "pay", "ful"})
      /\ DOMAIN b = DOMAIN v
  BY <1>3 DEF mark_order_consumed, RowType, Same
<1> HIDE DEF b
<1>6. v.ful # "cancelled" /\ _forward_rank[to.ful] > _forward_rank[v.ful]
  BY DEF _can_apply_fulfillment, to
<1>7. w = [b EXCEPT !.ful = to.ful]
  BY <1>4, <1>5, <1>6 DEF force_forward_from_integration, Same
<1> HIDE DEF w, leg
<1>8. /\ w.ful = to.ful
      /\ w.state = b.state /\ w.picking = b.picking /\ w.leg = b.leg /\ w.pick = b.pick
      /\ w.resv = b.resv /\ Same(b, w, {"released", "reason", "drop", "po", "pay"})
  BY <1>5, <1>7 DEF RowType, Same
<1> QED BY <1>3, <1>5, <1>6, <1>8 DEF w, leg, pick, to, Same

\* So do the handlers that lock first; a delivery that Odoo reports, of an order that it need
\* not have reported as shipped.
LEMMA LockersShip ==
  ASSUME NEW o \in Orders, NEW v \in RowType, NEW st \in Nat, GoodsRow(o, v)
  PROVE  /\ LET w == request_refund(v, st).row IN
               GoodsRow(o, w) /\ (ShippedRow(o, v) => ShippedRow(o, w))
         /\ \A last \in {"pick", "drop"} : LET w == mark_delivered(last, v, st).row IN
               GoodsRow(o, w) /\ (ShippedRow(o, v) => ShippedRow(o, w))
         /\ \A target : LET w == update_purchase_order(target, v, st).row IN
               GoodsRow(o, w) /\ (ShippedRow(o, v) => ShippedRow(o, w))
         /\ \A status \in DOMAIN OdooTarget \ {"cancel"} :
               LET w == odoo_order_status_webhook(o, status, v, st).row IN
               /\ GoodsRow(o, w)
               /\ ShippedRow(o, v) /\ (status = "delivered" => o \notin Stocked \ Dropship) =>
                    ShippedRow(o, w)
<1> USE DEF GoodsRow, ShippedRow, Gone, Done, Raise, RowType, Left
<1>1. LET w == request_refund(v, st).row IN GoodsRow(o, w) /\ (ShippedRow(o, v) => ShippedRow(o, w))
  BY DEF request_refund, ensure_full_refund_request
<1>2. \A last \in {"pick", "drop"} : LET w == mark_delivered(last, v, st).row IN
               GoodsRow(o, w) /\ (ShippedRow(o, v) => ShippedRow(o, w))
  BY DEF mark_delivered, Forwarded, force_forward_from_integration
<1>3. \A target : LET w == update_purchase_order(target, v, st).row IN
               GoodsRow(o, w) /\ (ShippedRow(o, v) => ShippedRow(o, w))
  BY DEF update_purchase_order
<1>4. ASSUME NEW status \in DOMAIN OdooTarget \ {"cancel"}
      PROVE  LET w == odoo_order_status_webhook(o, status, v, st).row IN
             /\ GoodsRow(o, w)
             /\ ShippedRow(o, v) /\ (status = "delivered" => o \notin Stocked \ Dropship) =>
                  ShippedRow(o, w)
  <2> DEFINE w == odoo_order_status_webhook(o, status, v, st).row
             to == OdooTarget[status]
             leg == IF v.leg # "none" THEN v.leg ELSE IF o \in Dropship THEN "dropship" ELSE "local"
  <2>1. CASE w = v BY <2>1
  <2>2. CASE w # v
    <3>1. _can_apply_fulfillment(v, status) BY <2>2 DEF odoo_order_status_webhook
    <3>2. v.ful # "cancelled" BY <3>1 DEF _can_apply_fulfillment
    <3>3. /\ to.state # "cancel" /\ to.ful \notin {"cancelled", "none"}
          /\ to.picking = "done" <=> status \in {"shipped", "delivered"}
          /\ to.ful \in Left <=> status \in {"shipped", "delivered"}
      BY DEF OdooTarget
    <3>4. /\ w.state = to.state /\ w.picking = to.picking /\ w.leg = leg
          /\ w.released = v.released /\ w.ful = to.ful
          /\ w.pick \in Left => v.pick \in Left \/ to.ful \in Left
          /\ w.resv = IF status = "shipped" /\ v.picking # "done" /\ leg # "dropship"
                         /\ v.resv = "reserved"
                      THEN "consumed" ELSE v.resv
      BY <3>1, OdooMoves DEF Same
    <3> HIDE DEF to
    <3> HIDE DEF w
    <3>5. GoodsRow(o, w) BY <3>2, <3>3, <3>4
    <3>6. ShippedRow(o, v) /\ (status = "delivered" => o \notin Stocked \ Dropship) =>
            ShippedRow(o, w)
      BY <3>2, <3>3, <3>4
    <3> QED BY <3>5, <3>6 DEF w
  <2> QED BY <2>1, <2>2
<1> HIDE DEF GoodsRow, ShippedRow
<1> QED BY <1>1, <1>2, <1>3, <1>4

\* The back office cancels by no other route than the customer's, and Odoo reports the delivery
\* of no order that its shipment report would have consumed the stock of.
OneWayToCancel ==
    /\ "cancel" \notin OdooStatuses \cup StateTargets
    /\ "delivered" \in OdooStatuses => Stocked \subseteq Dropship

\* A request about an order knows whether it was cancelled, or is a cancellation of what has
\* been cancelled by another; and a dispatch that saw the picking done knows that the goods
\* are gone.
KnowsOrder(s) ==
    LET o == sess[s].o
    IN /\ sess[s].op \in {"status", "dispatch"} => ReadInTime(row[o], sess[s].read)
       /\ sess[s].op = "cancel" => row[o].ful = "cancelled" \/ ReadInTime(row[o], sess[s].read)
       /\ sess[s].op = "dispatch" /\ sess[s].read.picking = "done" => Gone(o, row[o])

\* The inductive invariant about the goods.
GoodsInv == /\ \A o \in Orders : Placed(o) => GoodsRow(o, row[o]) /\ ShippedRow(o, row[o])
            /\ \A s \in Sessions : sess[s] # Free => KnowsOrder(s)

\* What may be done to an order of which another request knows.
Follows(o, v, w) ==
    /\ w.ful = "cancelled" <=> v.ful = "cancelled"
    /\ w.released = v.released
    /\ Gone(o, v) => Gone(o, w)

\* A handler that locks first and does not raise keeps track of the goods.
Ships(o, v, res) ==
    res.outcome # "error" =>
       GoodsRow(o, res.row) /\ ShippedRow(o, res.row) /\ Follows(o, v, res.row)

\* None of them surprises a request that has read the order.
LEMMA LockersFollow ==
  ASSUME NEW o \in Orders, NEW v \in RowType, NEW st \in Nat, GoodsRow(o, v)
  PROVE  /\ Follows(o, v, request_refund(v, st).row)
         /\ \A last \in {"pick", "drop"} : Follows(o, v, mark_delivered(last, v, st).row)
         /\ \A target : Follows(o, v, update_purchase_order(target, v, st).row)
         /\ \A status \in DOMAIN OdooTarget \ {"cancel"} :
               Follows(o, v, odoo_order_status_webhook(o, status, v, st).row)
<1> USE DEF Follows, Gone, Done, Raise, RowType
<1>1. Follows(o, v, request_refund(v, st).row)
  BY DEF request_refund, ensure_full_refund_request
<1>2. \A last \in {"pick", "drop"} : Follows(o, v, mark_delivered(last, v, st).row)
  BY DEF mark_delivered, Forwarded, force_forward_from_integration
<1>3. \A target : Follows(o, v, update_purchase_order(target, v, st).row)
  BY DEF update_purchase_order
<1>4. ASSUME NEW status \in DOMAIN OdooTarget \ {"cancel"}
      PROVE  Follows(o, v, odoo_order_status_webhook(o, status, v, st).row)
  <2>1. CASE ~_can_apply_fulfillment(v, status) BY <2>1 DEF odoo_order_status_webhook
  <2>2. CASE _can_apply_fulfillment(v, status)
    <3>1. OdooTarget[status].ful # "cancelled" BY DEF OdooTarget
    <3> DEFINE w == odoo_order_status_webhook(o, status, v, st).row
    <3>2. /\ v.ful # "cancelled" /\ w.ful = OdooTarget[status].ful /\ w.released = v.released
          /\ v.resv = "consumed" => w.resv = "consumed"
          /\ v.leg = "dropship" => w.leg = "dropship"
      BY <2>2, OdooMoves DEF Same
    <3> HIDE DEF w
    <3> QED BY <3>1, <3>2 DEF w
  <2> QED BY <2>1, <2>2
<1> HIDE DEF Follows
<1> QED BY <1>1, <1>2, <1>3, <1>4

\* Nor do the back office, the warehouse and the supplier, whatever they read early themselves.
LEMMA OthersFollow ==
  ASSUME NEW o \in Orders, NEW cur \in RowType, NEW v \in RowType, NEW st \in Nat, NEW new, NEW w,
         Agree(cur, v, {"state", "pay", "released", "picking", "drop", "pick"}),
         Merge(cur, v, new, w),
         \/ \E target : new = update_order_state(target, v, st).row
         \/ \E taken : new = dispatch_order(o, v, taken, st).row
         \/ \E status : new = update_supplier_shipment(status, v, st).row
  PROVE  Follows(o, cur, w)
<1> DEFINE Calm(x) == /\ x.ful = "cancelled" <=> v.ful = "cancelled"
                      /\ x.released = v.released
                      /\ v.resv = "consumed" => x.resv = "consumed"
                      /\ v.leg = "dropship" => x.leg = "dropship"
<1>0. /\ DOMAIN v = DOMAIN NoRow
      /\ \A r, to : DOMAIN r = DOMAIN NoRow /\ Calm(r) /\ to \in Left =>
           Calm(force_forward_from_integration(r, to))
  BY DEF force_forward_from_integration, Left, RowType, NoRow
<1>1. ASSUME NEW target, new = update_order_state(target, v, st).row PROVE Calm(new)
  BY <1>1 DEF update_order_state, Done, Raise, RowType
<1>2. ASSUME NEW taken, new = dispatch_order(o, v, taken, st).row PROVE Calm(new)
  <2> DEFINE vetted == v.state = "sent" /\ Cod(o)
             leg == IF LocalRequired(v) \/ o \notin Dropship THEN "local" ELSE "dropship"
             a == IF v.ful = "payment_pending" /\ vetted THEN [v EXCEPT !.ful = "confirmed"] ELSE v
             b == [a EXCEPT !.picking = "done", !.pick = "shipped",
                       !.leg = IF @ = "none" THEN leg ELSE @,
                       !.state = IF @ \in {"sale", "sent"} THEN "done" ELSE @]
             c == IF leg = "local" /\ v.picking # "done" THEN mark_order_consumed(b) ELSE b
  <2>1. new \in {v, c, force_forward_from_integration(c, "shipped")}
    BY <1>2 DEF dispatch_order, Done, Raise
  <2>2. Calm(a) /\ DOMAIN a = DOMAIN NoRow BY <1>0 DEF NoRow
  <2> HIDE DEF a, leg
  <2>3. Calm(b) /\ DOMAIN b = DOMAIN NoRow BY <2>2 DEF NoRow
  <2> HIDE DEF b
  <2>4. Calm(c) /\ DOMAIN c = DOMAIN NoRow BY <2>3 DEF mark_order_consumed, NoRow
  <2> HIDE DEF c
  <2>5. Calm(v) OBVIOUS
  <2>6. Calm(force_forward_from_integration(c, "shipped")) BY <1>0, <2>4 DEF Left
  <2> HIDE DEF Calm
  <2> QED BY <2>1, <2>4, <2>5, <2>6
<1>3. ASSUME NEW status, new = update_supplier_shipment(status, v, st).row PROVE Calm(new)
  <2> DEFINE r == [v EXCEPT !.drop = status]
  <2>1. new \in {v, r, force_forward_from_integration(r, "shipped"),
                 force_forward_from_integration(r, "delivered")}
    BY <1>3 DEF update_supplier_shipment, Forwarded, Done, Raise
  <2>2. Calm(r) /\ DOMAIN r = DOMAIN NoRow BY <1>0 DEF NoRow
  <2>3. Calm(v) OBVIOUS
  <2> HIDE DEF r
  <2>4. /\ Calm(force_forward_from_integration(r, "shipped"))
        /\ Calm(force_forward_from_integration(r, "delivered"))
    BY <1>0, <2>2 DEF Left
  <2> HIDE DEF Calm
  <2> QED BY <2>1, <2>2, <2>3, <2>4
<1>4. Calm(new) BY <1>1, <1>2, <1>3
<1>5. v.ful = cur.ful /\ v.resv = cur.resv /\ v.leg = cur.leg BY DEF Agree, NoRow
<1>6. /\ w.ful = new.ful /\ w.resv = new.resv /\ w.leg = new.leg
      /\ w.released = IF new.released # v.released THEN new.released ELSE cur.released
  BY <1>5 DEF Merge, NoRow
<1> QED BY <1>4, <1>5, <1>6 DEF Follows, Gone

\* A cancellation leaves the order cancelled.
LEMMA CancelCancels ==
  ASSUME NEW o \in Orders, NEW v \in RowType, NEW st, cancel(o, v, st).outcome # "error"
  PROVE  /\ cancel(o, v, st).row.ful = "cancelled"
         /\ v.ful = "cancelled" => cancel(o, v, st).row = v
BY DEF cancel, Done, Raise, release_order, lifecycle_cancel, ensure_full_refund_request, RowType

\* A request leaves the goods of its order in order.
LEMMA FinishShips ==
  ASSUME IInv, GoodsInv, DecisionsApart, OneWayToCancel, NEW s \in Sessions, Finish(s)
  PROVE  GoodsInv'
<1> DEFINE o == sess[s].o
           op == sess[s].op
<1>0. RowsOK /\ SessOK /\ PaymobOK /\ stock \in Nat BY Parts DEF RowsOK
<1>1. sess[s] # Free /\ SessionOK(s) /\ o \in Orders BY Finishing
<1>2. PICK v \in RowType, taken \in BOOLEAN :
        LET res == Handle(sess[s], v, taken) IN ViewOf(s, v) /\ Commit(o, v, res)
  BY Finishing
<1> DEFINE res == Handle(sess[s], v, taken)
           cur == row[o]
           w == row'[o]
<1>3. row \in [Orders -> RowType] /\ cur \in RowType BY <1>0, <1>1 DEF RowsOK
<1>4. Placed(o) BY <1>0, <1>1 DEF SessOK, SessionOK
<1>5. GoodsRow(o, cur) /\ ShippedRow(o, cur) BY <1>1, <1>4 DEF GoodsInv
<1>6. KnowsOrder(s) BY <1>1 DEF GoodsInv
<1>7. Agree(cur, v, Unlocked(op) \cup ReadLate(op)) BY <1>2 DEF Agree, ViewOf
<1>8. op \in {"callback", "cancel", "status", "dispatch", "supplier"} BY <1>1 DEF SessionOK
<1>9. op \in {"cancel", "status", "dispatch"} =>
        ReadInTime(cur, v) \/ (op = "cancel" /\ cur.ful = "cancelled")
  <2> SUFFICES ASSUME op \in {"cancel", "status", "dispatch"}
               PROVE  ReadInTime(cur, v) \/ (op = "cancel" /\ cur.ful = "cancelled")
    OBVIOUS
  <2>1. v.state = sess[s].read.state /\ v.released = sess[s].read.released
    BY <1>2 DEF ViewOf, Unlocked
  <2> QED BY <2>1, <1>6 DEF KnowsOrder, ReadInTime
<1>10. op = "dispatch" => (v.picking = "done" => Gone(o, cur))
  BY <1>2, <1>6 DEF ViewOf, Unlocked, KnowsOrder
<1>11. Commit(o, v, res) BY <1>2
<1> HIDE DEF res
<1>12. /\ \A p \in Orders \ {o} : row'[p] = row[p]
       /\ res.outcome = "error" => w = cur
       /\ res.outcome # "error" => Merge(cur, v, res.row, w)
  BY <1>1, <1>3, <1>11, Committed DEF Merge
<1>13. ASSUME res.outcome # "error" PROVE GoodsRow(o, w) /\ ShippedRow(o, w)
  <2>1. Merge(cur, v, res.row, w) BY <1>12, <1>13
  <2>2. CASE op = "callback"
    <3>1. res = process_paymob_transaction(o, sess[s].arg[2], sess[s].arg[3], v, stock)
      BY <2>2 DEF res, Handle
    <3>2. sess[s].arg[2] \in Txs BY <1>0, <1>1, <2>2 DEF SessionOK, PaymobOK
    <3>3. Agree(cur, v, {"attempt", "txn"}) BY <1>7, <2>2 DEF Unlocked, ReadLate
    <3>4. Same(cur, v, GoodsColumns) BY <3>3 DEF Agree, Same, GoodsColumns, NoRow
    <3>5. GoodsRow(o, v) /\ ShippedRow(o, v) BY <1>5, <3>4, SameGoods
    <3>6. GoodsRow(o, res.row) /\ ShippedRow(o, res.row)
      BY <1>0, <1>1, <1>13, <3>1, <3>2, <3>5, CallbackShips
    <3>7. Agree(res.row, w, {"attempt", "txn"}) BY <2>1, <3>3, AgreeMerge
    <3>8. Same(res.row, w, GoodsColumns) BY <3>7 DEF Agree, Same, GoodsColumns, NoRow
    <3> QED BY <3>6, <3>8, SameGoods
  <2>3. CASE op = "cancel"
    <3>1. res = cancel(o, v, stock) BY <2>3 DEF res, Handle
    <3>2. Agree(cur, v, {"state", "pay", "released"}) BY <1>7, <2>3 DEF Unlocked, ReadLate
    <3>3. CASE ReadInTime(cur, v)
      BY <1>0, <1>1, <1>3, <1>5, <1>13, <2>1, <2>3, <3>1, <3>2, <3>3, CancelShips
    <3>4. CASE cur.ful = "cancelled"
      <4>1. v.ful = "cancelled" BY <3>2, <3>4 DEF Agree, NoRow
      <4>2. res.row = v BY <1>1, <1>13, <3>1, <4>1, CancelCancels
      <4>3. Same(cur, w, GoodsColumns) BY <2>1, <4>2 DEF Merge, Same, GoodsColumns, NoRow
      <4> QED BY <1>5, <4>3, SameGoods
    <3> QED BY <1>9, <2>3, <3>3, <3>4
  <2>4. CASE op = "status"
    <3>1. res = update_order_state(sess[s].arg, v, stock) BY <2>4 DEF res, Handle
    <3>2. Agree(cur, v, {"state", "pay", "released"}) BY <1>7, <2>4 DEF Unlocked, ReadLate
    <3>3. sess[s].arg \in {"sent", "sale", "done"}
      BY <1>1, <2>4, OrderAssumption DEF SessionOK, OneWayToCancel
    <3> QED BY <1>0, <1>1, <1>3, <1>5, <1>9, <1>13, <2>1, <2>4, <3>1, <3>2, <3>3, StatusShips
  <2>5. CASE op = "dispatch"
    <3>1. res = dispatch_order(o, v, taken, stock) BY <2>5 DEF res, Handle
    <3>2. Agree(cur, v, {"state", "pay", "released", "picking", "drop"})
      BY <1>7, <2>5 DEF Unlocked, ReadLate, Agree
    <3>3. /\ dispatch_order(o, v, taken, stock).outcome # "error"
          /\ Merge(cur, v, dispatch_order(o, v, taken, stock).row, w)
      BY <1>13, <2>1, <3>1
    <3> HIDE DEF w, cur
    <3>4. /\ GoodsRow(o, w)
          /\ ShippedRow(o, cur) /\ (v.picking = "done" => Gone(o, cur)) => ShippedRow(o, w)
      BY <1>0, <1>1, <1>3, <1>5, <1>9, <2>5, <3>2, <3>3, DispatchShips
    <3> QED BY <1>5, <1>10, <2>5, <3>4
  <2>6. CASE op = "supplier"
    <3>1. res = update_supplier_shipment(sess[s].arg, v, stock) BY <2>6 DEF res, Handle
    <3>2. Agree(cur, v, {"pick"}) BY <1>7, <2>6 DEF Unlocked, ReadLate
    <3>3. Merge(cur, v, update_supplier_shipment(sess[s].arg, v, stock).row, w) BY <2>1, <3>1
    <3> HIDE DEF w, cur
    <3> QED BY <1>0, <1>1, <1>3, <1>5, <3>2, <3>3, SupplierShips
  <2> QED BY <1>8, <2>2, <2>3, <2>4, <2>5, <2>6
<1>14. GoodsRow(o, w) /\ ShippedRow(o, w) BY <1>5, <1>12, <1>13
<1>15. \A p \in Orders : Placed(p)' => GoodsRow(p, row'[p]) /\ ShippedRow(p, row'[p])
  BY <1>12, <1>14 DEF GoodsInv, Placed
<1>16. op \in {"status", "dispatch", "supplier"} => Follows(o, cur, w)
  <2>1. CASE res.outcome = "error" BY <1>12, <2>1 DEF Follows
  <2>2. ASSUME res.outcome # "error", op \in {"status", "dispatch", "supplier"}
        PROVE  Follows(o, cur, w)
    <3>1. Merge(cur, v, res.row, w) BY <1>12, <2>2
    <3>2. Agree(cur, v, {"state", "pay", "released", "picking", "drop", "pick"})
      BY <1>7, <2>2 DEF Unlocked, ReadLate, Agree
    <3>3. \/ \E target : res.row = update_order_state(target, v, stock).row
          \/ \E refused : res.row = dispatch_order(o, v, refused, stock).row
          \/ \E status : res.row = update_supplier_shipment(status, v, stock).row
      BY <2>2 DEF res, Handle
    <3> HIDE DEF w, cur
    <3> QED BY <1>0, <1>1, <1>3, <3>1, <3>2, <3>3, OthersFollow
  <2> QED BY <2>1, <2>2
<1>17. op = "cancel" => w.ful = "cancelled" \/ w = cur
  <2>1. CASE res.outcome = "error" BY <1>12, <2>1
  <2>2. ASSUME res.outcome # "error", op = "cancel" PROVE w.ful = "cancelled"
    <3>1. res = cancel(o, v, stock) BY <2>2 DEF res, Handle
    <3>2. res.row.ful = "cancelled" BY <1>1, <2>2, <3>1, CancelCancels
    <3>3. v.ful = cur.ful BY <1>7, <2>2 DEF Agree, Unlocked, ReadLate, NoRow
    <3> QED BY <1>12, <2>2, <3>2, <3>3 DEF Merge, NoRow
  <2> QED BY <2>1, <2>2
<1>18. ASSUME NEW z \in Sessions, sess'[z] # Free PROVE KnowsOrder(z)'
  <2>1. sess' = [sess EXCEPT ![s] = Free] BY DEF Finish
  <2>2. sess'[z] = sess[z] /\ z # s BY <1>0, <2>1, <1>18 DEF SessOK
  <2>3. sess[z].o \in Orders BY <1>0, <1>18, <2>2 DEF SessOK, SessionOK
  <2>4. KnowsOrder(z) BY <1>18, <2>2 DEF GoodsInv
  <2>5. CASE sess[z].o # o
    <3>1. row'[sess[z].o] = row[sess[z].o] BY <1>12, <2>3, <2>5
    <3> QED BY <2>2, <2>4, <3>1 DEF KnowsOrder
  <2>6. CASE sess[z].o = o
    <3>1. /\ op \in {"callback", "cancel"} => sess[z].op \notin {"status", "dispatch"}
          /\ op \in {"callback", "status", "dispatch"} => sess[z].op # "cancel"
      BY <1>1, <1>18, <2>2, <2>6 DEF DecisionsApart, PaymentsApart, NeverTogether
    <3>2. CASE op = "callback" BY <2>2, <3>1, <3>2 DEF KnowsOrder
    <3>3. CASE op = "cancel" BY <1>17, <2>2, <2>4, <2>6, <3>1, <3>3 DEF KnowsOrder
    <3>4. CASE op \in {"status", "dispatch", "supplier"}
      BY <1>16, <2>2, <2>4, <2>6, <3>4 DEF KnowsOrder, Follows, ReadInTime
    <3> QED BY <1>8, <3>2, <3>3, <3>4
  <2> QED BY <2>5, <2>6
<1> QED BY <1>15, <1>18 DEF GoodsInv

\* So does a handler that locks first, whatever requests have read.
LEMMA AtomicShips ==
  ASSUME IInv, GoodsInv, NEW o \in Orders, NEW res, Commit(o, row[o], res), UNCHANGED sess,
         \/ Placed(o) /\ Ships(o, row[o], res)
         \/ ~Placed(o) /\ GoodsRow(o, res.row) /\ ShippedRow(o, res.row)
  PROVE  GoodsInv'
<1>0. RowsOK /\ SessOK BY Parts
<1>1. row \in [Orders -> RowType] BY <1>0 DEF RowsOK
<1>2. /\ \A p \in Orders \ {o} : row'[p] = row[p]
      /\ res.outcome = "error" => row'[o] = row[o]
      /\ res.outcome # "error" =>
           \A f \in DOMAIN NoRow :
              row'[o][f] = IF res.row[f] # row[o][f] THEN res.row[f] ELSE row[o][f]
  BY <1>1, Committed
<1>3. res.outcome # "error" => Same(res.row, row'[o], GoodsColumns)
  BY <1>2 DEF NoRow, Same, GoodsColumns
<1>4. Placed(o)' => GoodsRow(o, row'[o]) /\ ShippedRow(o, row'[o])
  <2>1. CASE res.outcome = "error" BY <1>2, <2>1 DEF GoodsInv, Placed
  <2>2. CASE res.outcome # "error" BY <1>3, <2>2, SameGoods DEF Ships
  <2> QED BY <2>1, <2>2
<1>5. Placed(o) => Follows(o, row[o], row'[o])
  <2>1. CASE res.outcome = "error" BY <1>2, <2>1 DEF Follows
  <2>2. CASE res.outcome # "error" BY <1>3, <2>2 DEF Ships, Follows, Gone, Same, GoodsColumns
  <2> QED BY <2>1, <2>2
<1>6. ASSUME NEW z \in Sessions, sess'[z] # Free PROVE KnowsOrder(z)'
  <2>1. sess[z].o \in Orders /\ Placed(sess[z].o) BY <1>0, <1>6 DEF SessOK, SessionOK
  <2>2. KnowsOrder(z) BY <1>6 DEF GoodsInv
  <2>3. Follows(sess[z].o, row[sess[z].o], row'[sess[z].o])
    BY <1>2, <1>5, <2>1 DEF Follows
  <2> QED BY <2>2, <2>3 DEF KnowsOrder, Follows, ReadInTime
<1> QED BY <1>2, <1>4, <1>6 DEF GoodsInv, Placed

\* Every step keeps track of the goods.
LEMMA NextShips ==
  ASSUME IInv, GoodsInv, DecisionsApart, OneWayToCancel, [Next]_vars
  PROVE  GoodsInv'
<1>0. /\ RowsOK /\ SessOK /\ stock \in Nat /\ \A o \in Orders : row[o] \in RowType
      /\ \A o \in Orders : Placed(o) => GoodsRow(o, row[o]) /\ ShippedRow(o, row[o])
  BY Parts DEF RowsOK, GoodsInv
<1>1. ASSUME NEW o \in Orders, Checkout(o) PROVE GoodsInv'
  <2>1. row[o].state = "absent" BY <1>1 DEF Checkout, checkout, Raise, Done
  <2>2. row[o] = NoRow BY <2>1, <1>0 DEF RowsOK, Placed
  <2>3. GoodsRow(o, checkout(o, row[o], stock).row) /\ ShippedRow(o, checkout(o, row[o], stock).row)
    BY <1>1, <2>2, OrderAssumption
    DEF Checkout, checkout, Raise, Done, NoRow, GoodsRow, ShippedRow, Gone, Left
  <2> QED BY <1>1, <2>1, <2>3, AtomicShips DEF Checkout, Placed
<1>2. ASSUME NEW o \in Orders, RequestRefund(o) PROVE GoodsInv'
  BY <1>0, <1>2, LockersShip, LockersFollow, AtomicShips DEF RequestRefund, Atomic, Ships
<1>3. ASSUME NEW o \in Orders, MarkDelivered(o) PROVE GoodsInv'
  <2>1. PICK last \in {"pick", "drop"} :
          Atomic("deliver", o, mark_delivered(last, row[o], stock))
    BY <1>3 DEF MarkDelivered
  <2> QED BY <1>0, <2>1, LockersShip, LockersFollow, AtomicShips DEF Atomic, Ships
<1>4. ASSUME NEW o \in Orders, UpdatePurchaseOrder(o) PROVE GoodsInv'
  <2>1. PICK target \in {"sent", "partial", "received", "cancelled"} :
          Atomic("po", o, update_purchase_order(target, row[o], stock))
    BY <1>4 DEF UpdatePurchaseOrder
  <2> QED BY <1>0, <2>1, LockersShip, LockersFollow, AtomicShips DEF Atomic, Ships
<1>5. ASSUME NEW o \in Orders, OdooOrderStatus(o) PROVE GoodsInv'
  <2>1. PICK status \in OdooStatuses :
          Atomic("odoo", o, odoo_order_status_webhook(o, status, row[o], stock))
    BY <1>5 DEF OdooOrderStatus
  <2>2. /\ status \in DOMAIN OdooTarget \ {"cancel"}
        /\ status = "delivered" => o \notin Stocked \ Dropship
    BY OrderAssumption DEF OneWayToCancel
  <2> DEFINE res == odoo_order_status_webhook(o, status, row[o], stock)
  <2>3. Placed(o) /\ Commit(o, row[o], res) /\ UNCHANGED sess BY <2>1 DEF Atomic
  <2>4. GoodsRow(o, res.row) /\ ShippedRow(o, res.row) BY <1>0, <2>2, <2>3, LockersShip
  <2>5. Follows(o, row[o], res.row) BY <1>0, <2>2, <2>3, LockersFollow
  <2> HIDE DEF res
  <2> QED BY <2>3, <2>4, <2>5, AtomicShips DEF Ships
<1>6. ASSUME NEW s \in Sessions, Finish(s) PROVE GoodsInv' BY <1>6, FinishShips
<1>7. CASE UNCHANGED <<row, sess>>
  BY <1>7 DEF GoodsInv, KnowsOrder, Placed
<1>8. ASSUME NEW o \in Orders, NEW t \in Txs, PaymobMoves(o, t) PROVE GoodsInv'
  BY <1>7, <1>8 DEF PaymobMoves
<1>9. ASSUME NEW s \in Sessions, NEW op, NEW o \in Orders, NEW arg, Begin(s, op, o, arg)
      PROVE  GoodsInv'
  <2>1. /\ sess' = [sess EXCEPT ![s] =
                  [op |-> op, o |-> o, arg |-> arg,
                   read |-> [f \in Unlocked(op) \cup ReadLate(op) |-> row[o][f]]]]
        /\ UNCHANGED row /\ Placed(o)
    BY <1>9 DEF Begin
  <2>2. ASSUME NEW z \in Sessions, sess'[z] # Free PROVE KnowsOrder(z)'
    <3>1. CASE z = s
      <4>1. sess'[z] = [op |-> op, o |-> o, arg |-> arg,
                        read |-> [f \in Unlocked(op) \cup ReadLate(op) |-> row[o][f]]]
        BY <1>0, <2>1, <3>1 DEF SessOK
      <4>2. GoodsRow(o, row[o]) /\ ShippedRow(o, row[o]) BY <1>0, <2>1
      <4>3. /\ op \in {"cancel", "status", "dispatch"} =>
                 sess'[z].read.state = row[o].state /\ sess'[z].read.released = row[o].released
            /\ op = "dispatch" => sess'[z].read.picking = row[o].picking
        BY <4>1 DEF Unlocked
      <4>4. op \in {"cancel", "status", "dispatch"} => ReadInTime(row[o], sess'[z].read)
        BY <4>2, <4>3 DEF ReadInTime, GoodsRow
      <4>5. op = "dispatch" /\ sess'[z].read.picking = "done" => Gone(o, row[o])
        BY <4>2, <4>3 DEF ShippedRow
      <4> QED BY <2>1, <4>1, <4>4, <4>5 DEF KnowsOrder
    <3>2. CASE z # s
      <4>1. sess'[z] = sess[z] BY <1>0, <2>1, <3>2 DEF SessOK
      <4> QED BY <2>1, <2>2, <4>1 DEF GoodsInv, KnowsOrder
    <3> QED BY <3>1, <3>2
  <2> QED BY <2>1, <2>2 DEF GoodsInv, Placed
<1>10. ASSUME NEW s \in Sessions, NEW o \in Orders, BeginRequest(s, o) PROVE GoodsInv'
  BY <1>9, <1>10 DEF BeginRequest
<1>11. ASSUME NEW s \in Sessions, NEW key \in callbacks, BeginCallback(s, key) PROVE GoodsInv'
  <2>1. key[1] \in Orders BY Parts DEF PaymobOK
  <2> QED BY <1>9, <1>11, <2>1 DEF BeginCallback
<1>12. CASE UNCHANGED vars BY <1>7, <1>12 DEF vars
<1> QED BY <1>1, <1>2, <1>3, <1>4, <1>5, <1>6, <1>8, <1>10, <1>11, <1>12 DEF Next

\* There is no order at the start.
LEMMA InitGoods == Init => GoodsInv
BY DEF Init, GoodsInv, NoRow, Placed

\* The property follows.
LEMMA GoodsShipped == IInv /\ GoodsInv => ShippedUnitsWereWithheld
<1> SUFFICES ASSUME IInv, GoodsInv, NEW o \in Stocked,
                    row[o].leg = "local", row[o].pick \in {"shipped", "delivered"}
             PROVE  row[o].resv = "consumed"
  BY DEF ShippedUnitsWereWithheld
<1>1. o \in Orders BY OrderAssumption
<1>2. CASE Placed(o) BY <1>1, <1>2 DEF GoodsInv, ShippedRow, Left
<1>3. CASE ~Placed(o)
  <2>1. row[o] = NoRow BY <1>1, <1>3, Parts DEF RowsOK
  <2> QED BY <2>1 DEF NoRow
<1> QED BY <1>2, <1>3

\* What has left the warehouse was reserved for its order and stays off the shelf
\* (reservations.py:31), as long as an order is not cancelled or reopened beside a request of
\* the back office or the warehouse.
THEOREM ShippedUnitsAreWithheld ==
  OneWayToCancel => (Spec /\ []DecisionsApart => []ShippedUnitsWereWithheld)
<1> SUFFICES ASSUME OneWayToCancel
             PROVE  Spec /\ []DecisionsApart => []ShippedUnitsWereWithheld
  OBVIOUS
<1>1. IInv /\ GoodsInv /\ DecisionsApart /\ [Next]_vars => GoodsInv' BY NextShips
<1> QED BY <1>1, InitGoods, GoodsShipped, LifecycleInvariant, PTL DEF Spec

-------------------------------------------------------------------------------
(* The legs: the status of the order follows them *)

\* The order is cancelled, or its status says that it has left.
Closed(v) == v.ful = "cancelled" \/ _forward_rank[v.ful] >= _forward_rank["shipped"]

\* An order that has left says so.
LEMMA LeftIsClosed == \A v : v.ful \in Left => Closed(v)
BY DEF Left, Closed, _forward_rank

\* Every leg of the order has left.
AllLeft(v) == _all_required_shipments_in(v, Left)

\* Every leg of an open order has left only if the order says so, and none that a late success
\* may reopen has all its legs gone.
LegsRow(v) ==
    /\ v.ful \notin {"none", "cancelled"} /\ AllLeft(v) => Closed(v)
    /\ v.ful = "cancelled" /\ v.reason = "payment_failed" /\ v.po = "none" => ~AllLeft(v)

\* The columns that say which legs there are and where they are.
LegColumns == {"ful", "reason", "po", "resv", "leg", "pick", "drop"}

\* A row that keeps those columns keeps what is said of them.
LEMMA SameLegs ==
  ASSUME NEW v, NEW w, Same(v, w, LegColumns), LegsRow(v)
  PROVE  LegsRow(w)
BY DEF Same, LegColumns, LegsRow, Closed, AllLeft, _all_required_shipments_in, LocalRequired

\* A success adds a leg to the order that it reopens.
LEMMA SucceededLegs ==
  ASSUME NEW o \in Orders, NEW t \in Txs, NEW v \in RowType, NEW st \in Nat, LegsRow(v),
         v.ful = "cancelled" /\ v.reason = "payment_failed" => v.po = "none",
         mark_payment_succeeded(o, t, v, st).outcome # "error"
  PROVE  LegsRow(mark_payment_succeeded(o, t, v, st).row)
<1> DEFINE w == mark_payment_succeeded(o, t, v, st).row
           r == [v EXCEPT !.txn = t]
           late == r.ful = "cancelled" /\ r.reason # "payment_failed"
<1>0. r \in RowType BY Put
<1>1. CASE r.pay \in {"refunded", "paid"} \/ late
  <2>1. Same(v, w, LegColumns)
    <3> DEFINE x == [r EXCEPT !.pay = "paid", !.attempt = "succeeded"]
    <3>1. w \in {r, [r EXCEPT !.attempt = "succeeded"], ensure_full_refund_request(x)}
      BY <1>1 DEF mark_payment_succeeded, Done
    <3>2. Same(v, r, LegColumns) /\ DOMAIN r = DOMAIN NoRow
      BY DEF Same, LegColumns, RowType, NoRow
    <3> HIDE DEF r, w
    <3>3. Same(r, [r EXCEPT !.attempt = "succeeded"], LegColumns) BY <3>2 DEF Same, LegColumns, NoRow
    <3>4. Same(r, x, LegColumns) /\ DOMAIN x = DOMAIN NoRow BY <3>2 DEF Same, LegColumns, NoRow
    <3> HIDE DEF x
    <3>5. Same(x, ensure_full_refund_request(x), LegColumns)
      BY <3>4 DEF ensure_full_refund_request, Same, LegColumns, NoRow
    <3> QED BY <3>1, <3>2, <3>3, <3>4, <3>5 DEF Same
  <2> HIDE DEF w
  <2> QED BY <2>1, SameLegs DEF w
<1>2. CASE ~(r.pay \in {"refunded", "paid"} \/ late)
  <2> DEFINE back == IF r.released THEN rereserve_order(o, r, st).row ELSE r
  <2>1. w = Recovered(o, back) /\ ~CannotRereserve(o, r, st)
    BY <1>2 DEF mark_payment_succeeded, Done, Raise
  <2>2. back \in RowType
    <3> HIDE DEF r
    <3>1. rereserve_order(o, r, st).row \in RowType BY <2>1, <1>0, RereserveOrder
    <3> QED BY <1>0, <3>1
  <2>3. /\ back.ful = v.ful /\ back.reason = v.reason /\ back.po = v.po
        /\ (back.resv = "none" <=> v.resv = "none") /\ back.leg = v.leg
        /\ back.pick = v.pick /\ back.drop = v.drop
    BY DEF rereserve_order, RowType
  <2>4. ~(v.ful = "cancelled" /\ v.reason # "payment_failed") BY <1>2 DEF RowType
  <2> HIDE DEF back, w, r
  <2>5. /\ w.ful = IF back.ful = "payment_pending"
                      \/ (back.ful = "cancelled" /\ back.reason = "payment_failed")
                   THEN "confirmed" ELSE back.ful
        /\ w.resv = back.resv /\ w.leg = back.leg /\ w.pick = back.pick
        /\ \/ w.po = "draft" /\ w.drop = "pending"
           \/ w.po = back.po /\ w.drop = back.drop
    BY <2>1, <2>2 DEF Recovered, ensure_purchase_orders_for_paid_order,
                      confirm_after_verified_payment, RowType
  <2>6. AllLeft(w) => AllLeft(v)
    BY <2>3, <2>5 DEF AllLeft, _all_required_shipments_in, LocalRequired, Left
  <2> QED BY <2>3, <2>4, <2>5, <2>6 DEF LegsRow, Closed, w, _forward_rank
<1> QED BY <1>1, <1>2

\* Every callback keeps the status with the legs.
LEMMA CallbackLegs ==
  ASSUME NEW o \in Orders, NEW t \in Txs, NEW kind, NEW v \in RowType, NEW st \in Nat, LegsRow(v),
         _callback_type(kind) = "succeeded" =>
            (v.ful = "cancelled" /\ v.reason = "payment_failed" => v.po = "none"),
         process_paymob_transaction(o, t, kind, v, st).outcome # "error"
  PROVE  LegsRow(process_paymob_transaction(o, t, kind, v, st).row)
<1> DEFINE Good(res) == res.outcome # "error" => LegsRow(res.row)
<1>1. _callback_type(kind) = "succeeded" => Good(mark_payment_succeeded(o, t, v, st))
  BY SucceededLegs
<1>2. Good(mark_payment_failed(o, t, v, st))
  <2> DEFINE w == mark_payment_failed(o, t, v, st).row
  <2> SUFFICES ASSUME mark_payment_failed(o, t, v, st).outcome # "error" PROVE LegsRow(w)
    OBVIOUS
  <2>1. \/ Same(v, w, LegColumns)
        \/ /\ CanCancel(v) /\ w.ful = "cancelled" /\ (w.resv = "none" <=> v.resv = "none")
           /\ v.ful = "cancelled" => w.reason = v.reason
           /\ Same(v, w, {"po", "leg", "pick", "drop"})
    <3> DEFINE r == [v EXCEPT !.txn = t]
               x == [r EXCEPT !.pay = "failed", !.state = "cancel", !.released = TRUE,
                              !.attempt = "failed"]
               y == release_order(o, x, st).row
    <3>1. \/ w \in {r, [r EXCEPT !.attempt = "failed"]}
          \/ CanCancel(r) /\ w = lifecycle_cancel(y, "payment_failed")
      BY DEF mark_payment_failed, Done, Raise
    <3>2. /\ Same(v, r, LegColumns) /\ Same(v, x, LegColumns)
          /\ DOMAIN r = DOMAIN NoRow /\ DOMAIN x = DOMAIN NoRow
      BY DEF Same, LegColumns, RowType, NoRow
    <3>3. CanCancel(r) => CanCancel(v) BY <3>2 DEF CanCancel, Same, LegColumns
    <3> HIDE DEF w, r
    <3>4. Same(r, [r EXCEPT !.attempt = "failed"], LegColumns)
      BY <3>2 DEF Same, LegColumns, NoRow
    <3> HIDE DEF x
    <3>5. /\ Same(v, y, {"ful", "reason", "po", "leg", "pick", "drop"})
          /\ y.resv = "none" <=> v.resv = "none"
          /\ DOMAIN y = DOMAIN NoRow
      BY <3>2 DEF release_order, Same, LegColumns, NoRow
    <3> HIDE DEF y
    <3>6. CASE w \in {r, [r EXCEPT !.attempt = "failed"]} BY <3>2, <3>4, <3>6 DEF Same
    <3>7. CASE CanCancel(r) /\ w = lifecycle_cancel(y, "payment_failed")
      BY <3>3, <3>5, <3>7 DEF lifecycle_cancel, Same, NoRow
    <3> QED BY <3>1, <3>6, <3>7
  <2> HIDE DEF w
  <2>2. CASE Same(v, w, LegColumns) BY <2>2, SameLegs
  <2>3. CASE ~Same(v, w, LegColumns)
    <3>1. AllLeft(w) <=> AllLeft(v)
      BY <2>1, <2>3 DEF AllLeft, _all_required_shipments_in, LocalRequired, Same
    <3>2. w.ful = "cancelled" /\ w.po = v.po BY <2>1, <2>3 DEF Same
    <3>3. v.ful = "cancelled" => w.reason = v.reason BY <2>1, <2>3
    <3>4. v.ful # "cancelled" => v.ful # "none" /\ ~Closed(v)
      BY <2>1, <2>3 DEF Closed, CanCancel, BeforeShipment, _forward_rank
    <3>5. v.ful # "cancelled" => ~AllLeft(v) BY <3>4 DEF LegsRow
    <3>6. v.ful = "cancelled" /\ v.reason = "payment_failed" /\ v.po = "none" => ~AllLeft(v)
      BY DEF LegsRow
    <3> HIDE DEF Good, AllLeft
    <3>7. w.reason = "payment_failed" /\ w.po = "none" => ~AllLeft(w)
      BY <3>1, <3>2, <3>3, <3>5, <3>6
    <3> QED BY <3>2, <3>7 DEF LegsRow
  <2> QED BY <2>2, <2>3
<1>3. Good(mark_payment_refunded(o, t, v, st))
  <2>1. Same(v, mark_payment_refunded(o, t, v, st).row, LegColumns)
    BY DEF mark_payment_refunded, Done, Raise, RowType, Same, LegColumns
  <2> QED BY <2>1, SameLegs
<1>4. _callback_type(kind) \in {"pending", "succeeded", "refunded", "failed", "voided"}
  BY DEF _callback_type
<1>5. Good(Done(v, st, "rejected")) BY DEF Done
<1>6. Good(Done([v EXCEPT !.attempt = "pending", !.txn = t], st, "pending"))
  <2>1. Same(v, [v EXCEPT !.attempt = "pending", !.txn = t], LegColumns)
    BY DEF RowType, Same, LegColumns
  <2> QED BY <2>1, SameLegs DEF Done
<1> HIDE DEF Good
<1>7. Good(process_paymob_transaction(o, t, kind, v, st))
  BY <1>1, <1>2, <1>3, <1>4, <1>5, <1>6 DEF process_paymob_transaction
<1> QED BY <1>7 DEF Good

\* So does the customer's cancellation.
LEMMA CancelLegs ==
  ASSUME NEW o \in Orders, NEW v \in RowType, NEW st \in Nat, LegsRow(v),
         cancel(o, v, st).outcome # "error"
  PROVE  LegsRow(cancel(o, v, st).row)
<1>1. CASE v.ful = "cancelled" BY <1>1 DEF cancel, Done
<1>2. CASE v.ful # "cancelled"
  <2>1. cancel(o, v, st).row.ful = "cancelled" /\ cancel(o, v, st).row.reason = "requested"
    BY <1>2 DEF cancel, Done, Raise, release_order, lifecycle_cancel,
                ensure_full_refund_request, RowType
  <2> QED BY <2>1 DEF LegsRow
<1> QED BY <1>1, <1>2

\* A dispatch raises the order with its last leg; it knows of the other.
LEMMA DispatchLegs ==
  ASSUME NEW o \in Orders, NEW cur \in RowType, NEW v \in RowType, NEW st \in Nat, NEW w, NEW taken,
         LegsRow(cur), ReadInTime(cur, v),
         Agree(cur, v, {"state", "pay", "released", "picking", "drop"}),
         cur.ful # "none", v.drop \in Left <=> cur.drop \in Left,
         dispatch_order(o, v, taken, st).outcome # "error",
         Merge(cur, v, dispatch_order(o, v, taken, st).row, w)
  PROVE  LegsRow(w)
<1> DEFINE new == dispatch_order(o, v, taken, st).row
<1>1. /\ v.ful = cur.ful /\ v.resv = cur.resv /\ v.leg = cur.leg /\ v.pick = cur.pick
      /\ v.po = cur.po /\ v.reason = cur.reason
  BY DEF Agree, NoRow
<1>2. /\ w.ful = new.ful /\ w.resv = new.resv /\ w.leg = new.leg /\ w.pick = new.pick
      /\ w.po = new.po
      /\ w.drop = IF new.drop # v.drop THEN new.drop ELSE cur.drop
  BY <1>1 DEF Merge, NoRow
<1>3. v.ful # "cancelled" BY <1>1 DEF dispatch_order, ReadInTime, Done, Raise
<1>4. PICK c :
        /\ new = IF AllLeft(c) THEN force_forward_from_integration(c, "shipped") ELSE c
        /\ DOMAIN c = DOMAIN NoRow /\ c = [f \in DOMAIN c |-> c[f]]
        /\ c.drop = v.drop /\ c.ful \in DOMAIN _forward_rank
  <2> DEFINE vetted == v.state = "sent" /\ Cod(o)
             leg == IF LocalRequired(v) \/ o \notin Dropship THEN "local" ELSE "dropship"
             a == IF v.ful = "payment_pending" /\ vetted THEN [v EXCEPT !.ful = "confirmed"] ELSE v
             b == [a EXCEPT !.picking = "done", !.pick = "shipped",
                       !.leg = IF @ = "none" THEN leg ELSE @,
                       !.state = IF @ \in {"sale", "sent"} THEN "done" ELSE @]
             c == IF leg = "local" /\ v.picking # "done" THEN mark_order_consumed(b) ELSE b
  <2>1. new = IF AllLeft(c) THEN force_forward_from_integration(c, "shipped") ELSE c
    BY DEF dispatch_order, Done, Raise, AllLeft, Left
  <2>2. a \in RowType /\ a.drop = v.drop /\ a.ful \notin {"cancelled", "none"}
    <3>1. a \in RowType BY Put
    <3> QED BY <1>1, <1>3, <3>1 DEF RowType
  <2> HIDE DEF a
  <2>3. /\ DOMAIN b = DOMAIN NoRow /\ b = [f \in DOMAIN b |-> b[f]]
        /\ b.drop = v.drop /\ b.ful \in DOMAIN _forward_rank
    <3> HIDE DEF leg
    <3>1. DOMAIN a = DOMAIN NoRow /\ a.ful \in DOMAIN _forward_rank
      BY <2>2 DEF RowType, NoRow
    <3>2. DOMAIN b = DOMAIN NoRow /\ b = [f \in DOMAIN b |-> b[f]]
      BY <3>1 DEF NoRow
    <3>3. b.drop = a.drop /\ b.ful = a.ful
      BY <3>1 DEF NoRow
    <3> QED BY <2>2, <3>1, <3>2, <3>3
  <2> HIDE DEF b
  <2>4. /\ DOMAIN c = DOMAIN NoRow /\ c = [f \in DOMAIN c |-> c[f]]
        /\ c.drop = v.drop /\ c.ful \in DOMAIN _forward_rank
    BY <2>3 DEF mark_order_consumed, NoRow
  <2> QED BY <2>1, <2>4
<1> HIDE DEF new
<1>5. /\ new.drop = v.drop /\ Same(c, new, {"resv", "leg", "pick", "po", "drop"})
      /\ new.ful # "cancelled"
  BY <1>4 DEF force_forward_from_integration, NoRow, Same, _forward_rank
<1>6. AllLeft(w) <=> AllLeft(c)
  BY <1>2, <1>4, <1>5 DEF AllLeft, _all_required_shipments_in, LocalRequired, Same
<1>7. AllLeft(c) => Closed(new)
  BY <1>4 DEF force_forward_from_integration, Closed, _forward_rank, NoRow
<1> QED BY <1>2, <1>5, <1>6, <1>7 DEF LegsRow, Closed

\* A supplier leg raises the order with its last leg; it knows of the other, or the order
\* is raised already.
LEMMA SupplierLegs ==
  ASSUME NEW o \in Orders, NEW cur \in RowType, NEW v \in RowType, NEW st \in Nat, NEW w,
         NEW status \in {"shipped", "delivered", "exception"},
         LegsRow(cur), Agree(cur, v, {"pick"}), cur.ful # "none",
         cur.pick \in Left /\ v.pick \notin Left => Closed(cur),
         update_supplier_shipment(status, v, st).outcome # "error",
         Merge(cur, v, update_supplier_shipment(status, v, st).row, w)
  PROVE  LegsRow(w)
<1> DEFINE new == update_supplier_shipment(status, v, st).row
           r == [v EXCEPT !.drop = status]
<1>1. /\ v.ful = cur.ful /\ v.resv = cur.resv /\ v.leg = cur.leg
      /\ v.po = cur.po /\ v.reason = cur.reason /\ v.drop = cur.drop
  BY DEF Agree, NoRow
<1>2. /\ w.ful = new.ful /\ w.resv = new.resv /\ w.leg = new.leg
      /\ w.po = new.po /\ w.drop = new.drop
      /\ w.pick = IF new.pick # v.pick THEN new.pick ELSE cur.pick
  BY <1>1 DEF Merge, NoRow
<1>3. v.po # "none" BY DEF update_supplier_shipment, Done, Raise
<1>4. CASE new = v
  <2>1. w.pick = cur.pick /\ w.reason = cur.reason BY <1>1, <1>2, <1>4 DEF Merge, NoRow
  <2>2. Same(cur, w, LegColumns) BY <1>1, <1>2, <1>4, <2>1 DEF Same, LegColumns
  <2> QED BY <2>2, SameLegs
<1>5. CASE new # v
  <2>1. r \in RowType /\ r.drop = status /\ Same(v, r, {"ful", "po", "resv", "leg", "pick"})
    BY DEF RowType, Same
  <2>2. new = IF _all_required_shipments_in(r, {"delivered"}) THEN Forwarded(r)
              ELSE IF AllLeft(r) THEN force_forward_from_integration(r, "shipped") ELSE r
    BY <1>3, <1>5 DEF update_supplier_shipment, Done, AllLeft, Left
  <2> HIDE DEF new, r
  <2>10. r.ful \in DOMAIN _forward_rank \cup {"cancelled"} BY <1>1, <2>1 DEF RowType, Same
  <2>11. \A x \in {"shipped", "delivered"} :
           LET d == force_forward_from_integration(r, x) IN
           /\ Same(r, d, {"po", "resv", "leg", "pick", "drop"})
           /\ r.ful = "cancelled" <=> d.ful = "cancelled"
           /\ d.ful = r.ful \/ Closed(d)
           /\ Closed(d)
    BY <2>1, <2>10 DEF force_forward_from_integration, Closed, _forward_rank, RowType, Same
  <2>3. /\ Same(r, new, {"po", "resv", "leg", "pick", "drop"})
        /\ r.ful = "cancelled" <=> new.ful = "cancelled"
        /\ new.ful = r.ful \/ Closed(new)
        /\ AllLeft(r) => Closed(new)
    <3>1. _all_required_shipments_in(r, {"delivered"}) => AllLeft(r)
      BY DEF AllLeft, _all_required_shipments_in, Left
    <3> QED BY <2>2, <2>11, <3>1 DEF Forwarded, Same
  <2>4. CASE cur.pick \in Left <=> v.pick \in Left
    <3>1. AllLeft(w) <=> AllLeft(r)
      BY <1>2, <2>1, <2>3, <2>4 DEF AllLeft, _all_required_shipments_in, LocalRequired, Same
    <3> QED BY <1>1, <1>2, <1>3, <2>1, <2>3, <3>1 DEF LegsRow, Closed, Same
  <2>5. CASE cur.pick \in Left /\ v.pick \notin Left
    BY <1>1, <1>2, <1>3, <2>1, <2>3, <2>5 DEF LegsRow, Closed, Same
  <2>6. CASE cur.pick \notin Left /\ v.pick \in Left
    <3>1. AllLeft(w) => AllLeft(r)
      BY <1>2, <2>1, <2>3, <2>6 DEF AllLeft, _all_required_shipments_in, LocalRequired, Same
    <3> QED BY <1>1, <1>2, <1>3, <2>1, <2>3, <3>1 DEF LegsRow, Closed, Same
  <2> QED BY <2>4, <2>5, <2>6
<1> QED BY <1>4, <1>5

\* What may be done to an order beside a supplier shipment: the other leg leaves only with an
\* order that says so, and an order that has left stays so,
PickFollows(v, w) ==
    /\ w.pick \in Left /\ v.pick \notin Left => w.ful \in Left
    /\ v.ful \in Left => w.ful \in Left

\* and beside a dispatch: the supplier's leg does not leave.
DropStays(v, w) == v.drop \in Left <=> w.drop \in Left

\* What a handler that locks first may do to the legs of an order another request knows of.
LegsFollow(v, w) == PickFollows(v, w) /\ DropStays(v, w)

\* A handler that locks first and does not raise keeps the status with the legs.
LegsKept(v, res) == res.outcome # "error" => LegsRow(res.row) /\ LegsFollow(v, res.row)

\* All of them do but the purchase order route.
LEMMA LockersLegs ==
  ASSUME NEW o \in Orders, NEW v \in RowType, NEW st \in Nat, LegsRow(v), GoodsRow(o, v)
  PROVE  /\ LegsKept(v, request_refund(v, st))
         /\ \A last \in {"pick", "drop"} : LegsKept(v, mark_delivered(last, v, st))
         /\ \A status \in DOMAIN OdooTarget \ {"cancel"} :
               LegsKept(v, odoo_order_status_webhook(o, status, v, st))
<1>1. LegsKept(v, request_refund(v, st))
  <2>1. Same(v, request_refund(v, st).row, LegColumns)
    BY DEF request_refund, ensure_full_refund_request, Done, Raise, RowType, Same, LegColumns
  <2> HIDE DEF LegsRow
  <2>2. LegsRow(request_refund(v, st).row) BY <2>1, SameLegs
  <2> QED BY <2>1, <2>2 DEF LegsKept, LegsFollow, PickFollows, DropStays, Same, LegColumns
<1>2. ASSUME NEW last \in {"pick", "drop"}, mark_delivered(last, v, st).outcome # "error"
      PROVE  /\ LegsRow(mark_delivered(last, v, st).row)
             /\ LegsFollow(v, mark_delivered(last, v, st).row)
  <2> DEFINE w == mark_delivered(last, v, st).row
             r == [v EXCEPT ![last] = "delivered"]
  <2>1. w = Forwarded(r) /\ v[last] = "shipped" BY <1>2 DEF mark_delivered, Done, Raise
  <2>2. /\ Same(v, r, {"ful", "reason", "po", "resv", "leg"})
        /\ v.pick \in Left <=> r.pick \in Left
        /\ v.drop \in Left <=> r.drop \in Left
        /\ r.ful \in DOMAIN _forward_rank \cup {"cancelled"}
        /\ DOMAIN r = DOMAIN v
    BY <2>1 DEF RowType, Same, Left, GoodsRow
  <2> HIDE DEF r
  <2>3. /\ Same(r, w, {"reason", "po", "resv", "leg", "pick", "drop"})
        /\ (w.ful = "cancelled" <=> r.ful = "cancelled")
        /\ w.ful = r.ful \/ w.ful \in Left
    BY <2>1, <2>2 DEF Forwarded, force_forward_from_integration, RowType, Same, Left,
                      _forward_rank
  <2> HIDE DEF w
  <2>4. AllLeft(w) <=> AllLeft(v)
    BY <2>2, <2>3 DEF Same, AllLeft, _all_required_shipments_in, LocalRequired
  <2>5. LegsRow(w) BY <2>2, <2>3, <2>4, LeftIsClosed DEF LegsRow, Same, Closed
  <2> QED BY <2>2, <2>3, <2>5 DEF LegsFollow, PickFollows, DropStays, Same, w
<1>3. ASSUME NEW status \in DOMAIN OdooTarget \ {"cancel"}
      PROVE  LegsKept(v, odoo_order_status_webhook(o, status, v, st))
  <2>1. CASE ~_can_apply_fulfillment(v, status)
    <3>1. odoo_order_status_webhook(o, status, v, st) = Done(v, st, "stale")
      BY <2>1 DEF odoo_order_status_webhook
    <3> QED BY <3>1 DEF LegsKept, LegsFollow, PickFollows, DropStays, Done
  <2>2. CASE _can_apply_fulfillment(v, status)
    <3> DEFINE w == odoo_order_status_webhook(o, status, v, st).row
               to == OdooTarget[status]
    <3>1. /\ to.ful \in {"confirmed", "processing", "shipped", "delivered"}
      BY DEF OdooTarget
    <3>2. /\ v.ful # "cancelled" /\ w.ful = to.ful
          /\ w.leg = IF v.leg # "none" THEN v.leg
                     ELSE IF o \in Dropship THEN "dropship" ELSE "local"
          /\ w.pick = IF to.ful \in Left THEN to.ful
                      ELSE IF v.pick = "none" THEN "pending" ELSE v.pick
          /\ (w.resv = "none" <=> v.resv = "none")
          /\ w.drop = v.drop /\ w.po = v.po
      BY <2>2, OdooMoves DEF Same
    <3>3. _forward_rank[to.ful] > _forward_rank[v.ful] BY <2>2 DEF _can_apply_fulfillment
    <3>4. v.ful \in DOMAIN _forward_rank BY <3>2 DEF RowType, GoodsRow
    <3> HIDE DEF w, to
    <3>5. CASE to.ful \in Left
      BY <3>1, <3>2, <3>5 DEF LegsKept, LegsFollow, PickFollows, DropStays, LegsRow, Closed, Left,
                              _forward_rank, w
    <3>6. CASE to.ful \notin Left
      <4>1. AllLeft(w) => AllLeft(v)
        BY <3>2, <3>6 DEF AllLeft, _all_required_shipments_in, LocalRequired, GoodsRow, Left
      <4>2. ~Closed(v) BY <3>1, <3>2, <3>3, <3>4, <3>6 DEF Closed, _forward_rank, Left
      <4>3. ~AllLeft(v) BY <3>2, <4>2 DEF LegsRow, GoodsRow
      <4>4. v.ful \notin Left BY <4>2, LeftIsClosed
      <4>5. LegsRow(w) BY <3>1, <3>2, <4>1, <4>3 DEF LegsRow
      <4>6. w.pick \in Left => v.pick \in Left BY <3>2, <3>6 DEF Left
      <4> QED BY <3>2, <4>4, <4>5, <4>6 DEF LegsKept, LegsFollow, PickFollows, DropStays, w
    <3> QED BY <3>5, <3>6
  <2> QED BY <2>1, <2>2
<1> QED BY <1>1, <1>2, <1>3 DEF LegsKept

\* A transaction that has been paid.
PaidThere(o, t) == paymob[<<o, t>>] \in {"succeeded", "refunded", "voided"}

\* At most one transaction of an order is ever paid, and a success is reported of that one.
OnePayment ==
    /\ \A o \in Orders, t \in Txs : <<o, t, "succeeded">> \in callbacks => PaidThere(o, t)
    /\ \A o \in Orders, t, z \in Txs : PaidThere(o, t) /\ PaidThere(o, z) => t = z

\* A dispatch and a supplier shipment know of the leg that is not theirs, and a callback is
\* handled once.
KnowsLegs(s) ==
    LET v == row[sess[s].o]
        was == sess[s].read
    IN /\ sess[s].op = "dispatch" => DropStays(was, v)
       /\ sess[s].op = "supplier" => (v.pick \in Left /\ was.pick \notin Left => v.ful \in Left)
       /\ sess[s].op = "callback" => sess[s].arg \notin receipts

\* No two requests work on one callback: the second waits at the unique event key.
OneDelivery == \A s, z \in Sessions :
    /\ s # z /\ sess[s] # Free /\ sess[z] # Free
    /\ sess[s].op = "callback" /\ sess[z].op = "callback"
    => sess[s].arg # sess[z].arg

\* The inductive invariant about the legs.
LegsInv == /\ OnePayment /\ OneDelivery
           /\ \A o \in Orders : Placed(o) => LegsRow(row[o])
           /\ \A s \in Sessions : sess[s] # Free => KnowsLegs(s)

\* What the requests that may overlap with a supplier shipment return.
PickStays(v, res) ==
    res.outcome # "error" =>
       res.row.pick = v.pick /\ (v.ful \in Left => res.row.ful \in Left)

\* A callback moves no parcel, and an order that has left stays so.
LEMMA CallbackPicks ==
  ASSUME NEW o \in Orders, NEW t \in Txs, NEW kind, NEW v \in RowType, NEW st
  PROVE  PickStays(v, process_paymob_transaction(o, t, kind, v, st))
<1>1. PickStays(v, mark_payment_succeeded(o, t, v, st))
  BY DEF mark_payment_succeeded, PickStays, Done, Raise, Recovered, Left,
         ensure_full_refund_request, ensure_purchase_orders_for_paid_order, rereserve_order,
         confirm_after_verified_payment, RowType
<1>2. PickStays(v, mark_payment_failed(o, t, v, st))
  BY DEF mark_payment_failed, FailureIgnored, CanCancel, BeforeShipment, release_order,
         lifecycle_cancel, PickStays, Left, Done, Raise, RowType
<1>3. PickStays(v, mark_payment_refunded(o, t, v, st))
  BY DEF mark_payment_refunded, PickStays, Done, Raise, RowType
<1>4. _callback_type(kind) \in {"pending", "succeeded", "refunded", "failed", "voided"}
  BY DEF _callback_type
<1>5. /\ PickStays(v, Done(v, st, "rejected"))
      /\ PickStays(v, Done([v EXCEPT !.attempt = "pending", !.txn = t], st, "pending"))
  BY DEF PickStays, Done, RowType
<1> QED BY <1>1, <1>2, <1>3, <1>4, <1>5 DEF process_paymob_transaction

\* Nor do a cancellation, the back office and the supplier.
LEMMA RequestsPick ==
  ASSUME NEW o \in Orders, NEW v \in RowType, NEW st
  PROVE  /\ PickStays(v, cancel(o, v, st))
         /\ \A target : PickStays(v, update_order_state(target, v, st))
         /\ \A status : PickStays(v, update_supplier_shipment(status, v, st))
<1>1. PickStays(v, cancel(o, v, st))
  BY DEF cancel, CanCancel, BeforeShipment, PickStays, Left, Done, Raise, release_order,
         lifecycle_cancel, ensure_full_refund_request, RowType
<1>2. \A target : PickStays(v, update_order_state(target, v, st))
  BY DEF update_order_state, PickStays, Done, Raise, RowType
<1>3. \A status : PickStays(v, update_supplier_shipment(status, v, st))
  BY DEF update_supplier_shipment, PickStays, Left, Done, Raise, Forwarded,
         force_forward_from_integration, RowType
<1> QED BY <1>1, <1>2, <1>3

\* The back office and the warehouse leave the supplier's leg alone.
LEMMA RequestsDrop ==
  ASSUME NEW o \in Orders, NEW v \in RowType, NEW st
  PROVE  /\ \A target : update_order_state(target, v, st).row.drop = v.drop
         /\ \A taken : dispatch_order(o, v, taken, st).row.drop = v.drop
<1>1. \A target : update_order_state(target, v, st).row.drop = v.drop
  BY DEF update_order_state, Done, Raise, RowType
<1>2. \A taken : dispatch_order(o, v, taken, st).row.drop = v.drop
  BY DEF dispatch_order, Done, Raise, mark_order_consumed, force_forward_from_integration, RowType
<1> QED BY <1>1, <1>2

\* A success that is still to be handled is the first of its order.
LEMMA FirstSuccess ==
  ASSUME IInv, LegsInv, NEW s \in Sessions, sess[s] # Free, sess[s].op = "callback",
         _callback_type(sess[s].arg[3]) = "succeeded"
  PROVE  row[sess[s].o].po = "none"
<1> DEFINE o == sess[s].o
           key == sess[s].arg
<1>0. RowsOK /\ SessOK /\ PaymobOK BY Parts
<1>1. SessionOK(s) BY <1>0 DEF SessOK
<1>2. o \in Orders /\ key \in callbacks /\ key[1] = o BY <1>1 DEF SessionOK
<1>3. key \in Orders \X Txs \X DOMAIN ProviderFlags BY <1>0, <1>2 DEF PaymobOK
<1>4. key[3] = "succeeded" BY <1>3 DEF _callback_type, ProviderFlags
<1>5. key = <<o, key[2], "succeeded">> /\ key[2] \in Txs BY <1>2, <1>3, <1>4
<1>6. key \notin receipts BY DEF LegsInv, KnowsLegs
<1> SUFFICES ASSUME row[o].po # "none" PROVE FALSE OBVIOUS
<1>7. Captured(o) BY <1>0, <1>2 DEF RowsOK, NothingFollowsFromUnpaid
<1>8. PICK t \in Txs : <<o, t, "succeeded">> \in receipts BY <1>7 DEF Captured
<1>9. PaidThere(o, t) BY <1>0, <1>2, <1>8 DEF PaymobOK, LegsInv, OnePayment
<1>10. PaidThere(o, key[2]) BY <1>2, <1>5 DEF LegsInv, OnePayment
<1>11. t = key[2] BY <1>2, <1>5, <1>9, <1>10 DEF LegsInv, OnePayment
<1> QED BY <1>5, <1>6, <1>8, <1>11

\* A request keeps the status of its order with the legs.
LEMMA FinishLegs ==
  ASSUME IInv, GoodsInv, LegsInv, LegsApart, OneWayToCancel, NEW s \in Sessions, Finish(s)
  PROVE  LegsInv'
<1> DEFINE o == sess[s].o
           op == sess[s].op
<1>0. RowsOK /\ SessOK /\ PaymobOK /\ stock \in Nat BY Parts DEF RowsOK
<1>1. sess[s] # Free /\ SessionOK(s) /\ o \in Orders BY Finishing
<1>2. PICK v \in RowType, taken \in BOOLEAN :
        LET res == Handle(sess[s], v, taken) IN
          /\ ViewOf(s, v) /\ Commit(o, v, res)
          /\ receipts' = IF sess[s].op = "callback" /\ res.outcome # "error"
                         THEN receipts \cup {sess[s].arg} ELSE receipts
  BY Finishing
<1> DEFINE res == Handle(sess[s], v, taken)
           cur == row[o]
           w == row'[o]
<1>3. row \in [Orders -> RowType] /\ cur \in RowType BY <1>0, <1>1 DEF RowsOK
<1>4. Placed(o) BY <1>0, <1>1 DEF SessOK, SessionOK
<1>5. GoodsRow(o, cur) /\ LegsRow(cur) BY <1>1, <1>4 DEF GoodsInv, LegsInv
<1>6. KnowsOrder(s) /\ KnowsLegs(s) BY <1>1 DEF GoodsInv, LegsInv
<1>7. Agree(cur, v, Unlocked(op) \cup ReadLate(op)) BY <1>2 DEF Agree, ViewOf
<1>8. op \in {"callback", "cancel", "status", "dispatch", "supplier"} BY <1>1 DEF SessionOK
<1>9. op = "dispatch" => ReadInTime(cur, v)
  <2> SUFFICES ASSUME op = "dispatch" PROVE ReadInTime(cur, v) OBVIOUS
  <2>1. v.state = sess[s].read.state /\ v.released = sess[s].read.released
    BY <1>2 DEF ViewOf, Unlocked
  <2> QED BY <2>1, <1>6 DEF KnowsOrder, ReadInTime
<1>10. op = "dispatch" => (v.drop \in Left <=> cur.drop \in Left)
  BY <1>2, <1>6 DEF ViewOf, ReadLate, KnowsLegs, DropStays
<1>11. op = "supplier" => (cur.pick \in Left /\ v.pick \notin Left => Closed(cur))
  BY <1>2, <1>6, LeftIsClosed DEF ViewOf, ReadLate, KnowsLegs
<1>12. Commit(o, v, res) BY <1>2
<1>13. receipts' \subseteq receipts \cup (IF op = "callback" THEN {sess[s].arg} ELSE {}) BY <1>2
<1> HIDE DEF res
<1>14. /\ \A p \in Orders \ {o} : row'[p] = row[p]
       /\ res.outcome = "error" => w = cur
       /\ res.outcome # "error" => Merge(cur, v, res.row, w)
  BY <1>1, <1>3, <1>12, Committed DEF Merge
<1>15. ASSUME res.outcome # "error" PROVE LegsRow(w)
  <2>1. Merge(cur, v, res.row, w) BY <1>14, <1>15
  <2> DEFINE Plain == {"attempt", "txn", "state", "pay", "released"}
  <2>2. ASSUME Agree(cur, v, Plain), LegsRow(v) => LegsRow(res.row) PROVE LegsRow(w)
    <3>1. Same(cur, v, LegColumns) BY <2>2 DEF Agree, Same, LegColumns, NoRow
    <3>2. LegsRow(v) BY <1>5, <3>1, SameLegs
    <3>3. Agree(res.row, w, Plain) BY <2>1, <2>2, AgreeMerge
    <3>4. Same(res.row, w, LegColumns) BY <3>3 DEF Agree, Same, LegColumns, NoRow
    <3> QED BY <2>2, <3>2, <3>4, SameLegs
  <2>3. CASE op = "callback"
    <3>1. res = process_paymob_transaction(o, sess[s].arg[2], sess[s].arg[3], v, stock)
      BY <2>3 DEF res, Handle
    <3>2. sess[s].arg[2] \in Txs BY <1>0, <1>1, <2>3 DEF SessionOK, PaymobOK
    <3>3. Agree(cur, v, Plain) BY <1>7, <2>3 DEF Unlocked, ReadLate, Agree
    <3>4. v.po = cur.po BY <3>3 DEF Agree, NoRow
    <3>5. _callback_type(sess[s].arg[3]) = "succeeded" => v.po = "none"
      BY <1>1, <2>3, <3>4, FirstSuccess
    <3>6. LegsRow(v) => LegsRow(res.row)
      BY <1>0, <1>1, <1>15, <3>1, <3>2, <3>5, CallbackLegs
    <3> QED BY <2>2, <3>3, <3>6
  <2>4. CASE op = "cancel"
    <3>1. res = cancel(o, v, stock) BY <2>4 DEF res, Handle
    <3>2. Agree(cur, v, Plain) BY <1>7, <2>4 DEF Unlocked, ReadLate, Agree
    <3>3. LegsRow(v) => LegsRow(res.row) BY <1>0, <1>1, <1>15, <3>1, CancelLegs
    <3> QED BY <2>2, <3>2, <3>3
  <2>5. CASE op = "status"
    <3>1. res = update_order_state(sess[s].arg, v, stock) BY <2>5 DEF res, Handle
    <3>2. Agree(cur, v, Plain) BY <1>7, <2>5 DEF Unlocked, ReadLate, Agree
    <3>3. Same(v, res.row, LegColumns)
      BY <3>1 DEF update_order_state, Done, Raise, Same, LegColumns, RowType
    <3>4. LegsRow(v) => LegsRow(res.row) BY <3>3, SameLegs
    <3> QED BY <2>2, <3>2, <3>4
  <2>6. CASE op = "dispatch"
    <3>1. res = dispatch_order(o, v, taken, stock) BY <2>6 DEF res, Handle
    <3>2. Agree(cur, v, {"state", "pay", "released", "picking", "drop"})
      BY <1>7, <2>6 DEF Unlocked, ReadLate, Agree
    <3>3. /\ dispatch_order(o, v, taken, stock).outcome # "error"
          /\ Merge(cur, v, dispatch_order(o, v, taken, stock).row, w)
      BY <1>15, <2>1, <3>1
    <3>4. cur.ful # "none" BY <1>5 DEF GoodsRow
    <3> HIDE DEF w, cur
    <3> QED BY <1>0, <1>1, <1>3, <1>5, <1>9, <1>10, <2>6, <3>2, <3>3, <3>4, DispatchLegs
  <2>7. CASE op = "supplier"
    <3>1. res = update_supplier_shipment(sess[s].arg, v, stock) BY <2>7 DEF res, Handle
    <3>2. Agree(cur, v, {"pick"}) BY <1>7, <2>7 DEF Unlocked, ReadLate
    <3>3. /\ update_supplier_shipment(sess[s].arg, v, stock).outcome # "error"
          /\ Merge(cur, v, update_supplier_shipment(sess[s].arg, v, stock).row, w)
      BY <1>15, <2>1, <3>1
    <3>4. cur.ful # "none" BY <1>5 DEF GoodsRow
    <3>5. sess[s].arg \in {"shipped", "delivered", "exception"} BY <1>1, <2>7 DEF SessionOK
    <3> HIDE DEF w, cur
    <3> QED BY <1>0, <1>1, <1>3, <1>5, <1>11, <2>7, <3>2, <3>3, <3>4, <3>5, SupplierLegs
  <2> QED BY <1>8, <2>3, <2>4, <2>5, <2>6, <2>7
<1>16. LegsRow(w) BY <1>5, <1>14, <1>15
<1>17. \A p \in Orders : Placed(p)' => LegsRow(row'[p])
  BY <1>14, <1>16 DEF LegsInv, Placed
<1>18. op \in {"callback", "cancel", "status", "supplier"} => PickFollows(cur, w)
  <2>1. CASE res.outcome = "error" BY <1>14, <2>1 DEF PickFollows
  <2>2. ASSUME res.outcome # "error", op \in {"callback", "cancel", "status", "supplier"}
        PROVE  PickFollows(cur, w)
    <3>1. op = "callback" => sess[s].arg[2] \in Txs BY <1>0, <1>1 DEF SessionOK, PaymobOK
    <3>2. PickStays(v, res) BY <1>1, <2>2, <3>1, CallbackPicks, RequestsPick DEF res, Handle
    <3>3. v.ful = cur.ful BY <1>7, <2>2 DEF Agree, Unlocked, ReadLate, NoRow
    <3>4. w.pick = cur.pick /\ w.ful = res.row.ful
      BY <1>14, <2>2, <3>2, <3>3 DEF Merge, PickStays, NoRow
    <3> QED BY <2>2, <3>2, <3>3, <3>4 DEF PickStays, PickFollows
  <2> QED BY <2>1, <2>2
<1>19. op \in {"status", "dispatch"} => DropStays(cur, w)
  <2>1. CASE res.outcome = "error" BY <1>14, <2>1 DEF DropStays
  <2>2. ASSUME res.outcome # "error", op \in {"status", "dispatch"} PROVE DropStays(cur, w)
    <3>1. res.row.drop = v.drop BY <1>1, <2>2, RequestsDrop DEF res, Handle
    <3>2. w.drop = cur.drop BY <1>14, <2>2, <3>1 DEF Merge, NoRow
    <3> QED BY <3>2 DEF DropStays
  <2> QED BY <2>1, <2>2
<1>20. ASSUME NEW z \in Sessions, sess'[z] # Free PROVE sess'[z] = sess[z] /\ z # s
  <2>1. sess' = [sess EXCEPT ![s] = Free] BY DEF Finish
  <2> QED BY <1>0, <1>20, <2>1 DEF SessOK
<1>21. ASSUME NEW z \in Sessions, sess'[z] # Free PROVE KnowsLegs(z)'
  <2>1. sess'[z] = sess[z] /\ z # s /\ sess[z].o \in Orders
    BY <1>0, <1>20, <1>21 DEF SessOK, SessionOK
  <2>2. KnowsLegs(z) BY <1>21, <2>1 DEF LegsInv
  <2>3. op = "callback" /\ sess[z].op = "callback" => sess[z].arg # sess[s].arg
    BY <1>1, <1>21, <2>1 DEF LegsInv, OneDelivery
  <2>4. sess[z].op = "callback" => sess[z].arg \notin receipts'
    BY <1>13, <2>2, <2>3 DEF KnowsLegs
  <2>5. CASE sess[z].o # o
    <3>1. row'[sess[z].o] = row[sess[z].o] BY <1>14, <2>1, <2>5
    <3> QED BY <2>1, <2>2, <2>4, <3>1 DEF KnowsLegs
  <2>6. CASE sess[z].o = o
    <3>1. /\ sess[z].op = "dispatch" => op \in {"status", "dispatch"}
          /\ sess[z].op = "supplier" => op # "dispatch"
      BY <1>1, <1>8, <1>21, <2>1, <2>6 DEF LegsApart, DecisionsApart, NeverTogether
    <3>2. sess[z].op = "dispatch" => DropStays(sess[z].read, w)
      BY <1>19, <2>2, <2>6, <3>1 DEF KnowsLegs, DropStays
    <3>3. sess[z].op = "supplier" =>
            (w.pick \in Left /\ sess[z].read.pick \notin Left => w.ful \in Left)
      BY <1>8, <1>18, <2>2, <2>6, <3>1 DEF KnowsLegs, PickFollows
    <3> QED BY <2>1, <2>4, <2>6, <3>2, <3>3 DEF KnowsLegs
  <2> QED BY <2>5, <2>6
<1>22. OnePayment' /\ OneDelivery'
  <2>1. UNCHANGED <<paymob, callbacks>> BY DEF Finish
  <2> QED BY <1>20, <2>1 DEF LegsInv, OnePayment, OneDelivery, PaidThere
<1> QED BY <1>17, <1>21, <1>22 DEF LegsInv

\* So does a handler that locks first, whatever requests have read.
LEMMA AtomicLegs ==
  ASSUME IInv, LegsInv, NEW o \in Orders, NEW res, Commit(o, row[o], res),
         UNCHANGED <<sess, paymob, callbacks, receipts>>,
         \/ Placed(o) /\ LegsKept(row[o], res)
         \/ ~Placed(o) /\ LegsRow(res.row)
  PROVE  LegsInv'
<1>0. RowsOK /\ SessOK BY Parts
<1>1. row \in [Orders -> RowType] BY <1>0 DEF RowsOK
<1>2. /\ \A p \in Orders \ {o} : row'[p] = row[p]
      /\ res.outcome = "error" => row'[o] = row[o]
      /\ res.outcome # "error" =>
           \A f \in DOMAIN NoRow :
              row'[o][f] = IF res.row[f] # row[o][f] THEN res.row[f] ELSE row[o][f]
  BY <1>1, Committed
<1>3. res.outcome # "error" => Same(res.row, row'[o], LegColumns)
  BY <1>2 DEF NoRow, Same, LegColumns
<1>4. Placed(o)' => LegsRow(row'[o])
  <2>1. CASE res.outcome = "error" BY <1>2, <2>1 DEF LegsInv, Placed
  <2>2. CASE res.outcome # "error" BY <1>3, <2>2, SameLegs DEF LegsKept
  <2> QED BY <2>1, <2>2
<1>5. Placed(o) => LegsFollow(row[o], row'[o])
  <2>1. CASE res.outcome = "error" BY <1>2, <2>1 DEF LegsFollow, PickFollows, DropStays
  <2>2. CASE res.outcome # "error"
    BY <1>3, <2>2 DEF LegsKept, LegsFollow, PickFollows, DropStays, Same, LegColumns
  <2> QED BY <2>1, <2>2
<1>6. ASSUME NEW z \in Sessions, sess'[z] # Free PROVE KnowsLegs(z)'
  <2>1. sess[z].o \in Orders /\ Placed(sess[z].o) BY <1>0, <1>6 DEF SessOK, SessionOK
  <2>2. KnowsLegs(z) BY <1>6 DEF LegsInv
  <2>3. LegsFollow(row[sess[z].o], row'[sess[z].o])
    BY <1>2, <1>5, <2>1 DEF LegsFollow, PickFollows, DropStays
  <2> QED BY <2>2, <2>3 DEF KnowsLegs, LegsFollow, PickFollows, DropStays
<1> QED BY <1>2, <1>4, <1>6 DEF LegsInv, Placed, OnePayment, OneDelivery, PaidThere

\* Paymob takes one payment of an order.
LEMMA PaymobLegs ==
  ASSUME IInv, LegsInv, NEW o \in Orders, NEW t \in Txs, PaymobMoves(o, t)
  PROVE  LegsInv'
<1>0. PaymobOK BY Parts
<1>1. PICK k \in ProviderMoves[paymob[<<o, t>>]] :
         /\ \A z \in Txs \ {t} : paymob[<<o, z>>] \in {"none", "failed"}
         /\ paymob' = [paymob EXCEPT ![<<o, t>>] = k]
         /\ callbacks' = callbacks \cup {<<o, t, k>>}
  BY DEF PaymobMoves
<1>2. paymob[<<o, t>>] \in DOMAIN ProviderMoves BY <1>0 DEF PaymobOK
<1>3. PaidThere(o, t) => k \in {"refunded", "voided"}
  BY <1>1 DEF PaidThere, ProviderMoves
<1>4. ASSUME NEW p \in Orders, NEW z \in Txs
      PROVE  paymob'[<<p, z>>] = IF p = o /\ z = t THEN k ELSE paymob[<<p, z>>]
  BY <1>0, <1>1 DEF PaymobOK
<1>5. OnePayment'
  <2>1. ASSUME NEW p \in Orders, NEW z \in Txs, <<p, z, "succeeded">> \in callbacks'
        PROVE  PaidThere(p, z)'
    <3>1. CASE <<p, z, "succeeded">> \in callbacks
      <4>1. PaidThere(p, z) BY <3>1 DEF LegsInv, OnePayment
      <4> QED BY <1>3, <1>4, <4>1 DEF PaidThere
    <3>2. CASE <<p, z, "succeeded">> = <<o, t, k>> BY <1>4, <3>2 DEF PaidThere
    <3> QED BY <1>1, <2>1, <3>1, <3>2
  <2>2. ASSUME NEW p \in Orders, NEW y \in Txs, NEW z \in Txs, PaidThere(p, y)', PaidThere(p, z)'
        PROVE  y = z
    BY <1>1, <1>4, <2>2 DEF LegsInv, OnePayment, PaidThere
  <2> QED BY <2>1, <2>2 DEF OnePayment
<1>6. UNCHANGED <<row, sess, receipts>> BY DEF PaymobMoves
<1> QED BY <1>5, <1>6 DEF LegsInv, Placed, KnowsLegs, OneDelivery

\* Every step keeps the status with the legs.
LEMMA NextLegs ==
  ASSUME IInv, GoodsInv, LegsInv, LegsApart, OneWayToCancel, "po" \notin Operations,
         [Next]_vars
  PROVE  LegsInv'
<1>0. /\ RowsOK /\ SessOK /\ stock \in Nat /\ \A o \in Orders : row[o] \in RowType
      /\ \A o \in Orders : Placed(o) => GoodsRow(o, row[o]) /\ LegsRow(row[o])
  BY Parts DEF RowsOK, GoodsInv, LegsInv
<1>1. ASSUME NEW o \in Orders, Checkout(o) PROVE LegsInv'
  <2>1. row[o].state = "absent" BY <1>1 DEF Checkout, checkout, Raise, Done
  <2>2. row[o] = NoRow BY <2>1, <1>0 DEF RowsOK, Placed
  <2> DEFINE w == checkout(o, row[o], stock).row
  <2>3. w.pick = "none" /\ w.drop = "none" /\ w.po = "none"
    BY <1>1, <2>2 DEF Checkout, checkout, Raise, Done, NoRow
  <2> HIDE DEF w
  <2>4. LegsRow(w)
    BY <2>3 DEF LegsRow, AllLeft, _all_required_shipments_in, LocalRequired, Left
  <2> QED BY <1>1, <2>1, <2>4, AtomicLegs DEF Checkout, Placed, w
<1>2. ASSUME NEW o \in Orders, RequestRefund(o) PROVE LegsInv'
  BY <1>0, <1>2, LockersLegs, AtomicLegs DEF RequestRefund, Atomic
<1>3. ASSUME NEW o \in Orders, MarkDelivered(o) PROVE LegsInv'
  <2>1. PICK last \in {"pick", "drop"} :
          Atomic("deliver", o, mark_delivered(last, row[o], stock))
    BY <1>3 DEF MarkDelivered
  <2> QED BY <1>0, <2>1, LockersLegs, AtomicLegs DEF Atomic
<1>4. ASSUME NEW o \in Orders, UpdatePurchaseOrder(o) PROVE LegsInv'
  BY <1>4 DEF UpdatePurchaseOrder, Atomic
<1>5. ASSUME NEW o \in Orders, OdooOrderStatus(o) PROVE LegsInv'
  <2>1. PICK status \in OdooStatuses :
          Atomic("odoo", o, odoo_order_status_webhook(o, status, row[o], stock))
    BY <1>5 DEF OdooOrderStatus
  <2>2. status \in DOMAIN OdooTarget \ {"cancel"} BY OrderAssumption DEF OneWayToCancel
  <2> QED BY <1>0, <2>1, <2>2, LockersLegs, AtomicLegs DEF Atomic
<1>6. ASSUME NEW s \in Sessions, Finish(s) PROVE LegsInv' BY <1>6, FinishLegs
<1>7. ASSUME NEW o \in Orders, NEW t \in Txs, PaymobMoves(o, t) PROVE LegsInv'
  BY <1>7, PaymobLegs
<1>8. ASSUME NEW s \in Sessions, NEW op, NEW o \in Orders, NEW arg, Begin(s, op, o, arg),
             op = "callback" =>
                /\ arg \notin receipts
                /\ \A z \in Sessions :
                      sess[z] # Free => ~(sess[z].op = "callback" /\ sess[z].arg = arg)
      PROVE  LegsInv'
  <2>1. /\ sess' = [sess EXCEPT ![s] =
                  [op |-> op, o |-> o, arg |-> arg,
                   read |-> [f \in Unlocked(op) \cup ReadLate(op) |-> row[o][f]]]]
        /\ UNCHANGED <<row, paymob, callbacks, receipts>> /\ Placed(o)
    BY <1>8 DEF Begin
  <2>2. ASSUME NEW z \in Sessions, sess'[z] # Free PROVE KnowsLegs(z)'
    <3>1. CASE z = s
      <4>1. sess'[z] = [op |-> op, o |-> o, arg |-> arg,
                        read |-> [f \in Unlocked(op) \cup ReadLate(op) |-> row[o][f]]]
        BY <1>0, <2>1, <3>1 DEF SessOK
      <4>2. /\ op = "dispatch" => sess'[z].read.drop = row[o].drop
            /\ op = "supplier" => sess'[z].read.pick = row[o].pick
        BY <4>1 DEF ReadLate
      <4> QED BY <1>8, <2>1, <4>1, <4>2 DEF KnowsLegs, DropStays
    <3>2. CASE z # s
      <4>1. sess'[z] = sess[z] BY <1>0, <2>1, <3>2 DEF SessOK
      <4> QED BY <2>1, <2>2, <4>1 DEF LegsInv, KnowsLegs
    <3> QED BY <3>1, <3>2
  <2>3. OneDelivery'
    <3>1. \A z \in Sessions \ {s} : sess'[z] = sess[z] BY <1>0, <2>1 DEF SessOK
    <3>2. sess'[s].op = op /\ sess'[s].arg = arg BY <1>0, <2>1 DEF SessOK
    <3> QED BY <1>8, <3>1, <3>2 DEF LegsInv, OneDelivery
  <2> QED BY <2>1, <2>2, <2>3 DEF LegsInv, Placed, OnePayment, PaidThere
<1>9. ASSUME NEW s \in Sessions, NEW o \in Orders, BeginRequest(s, o) PROVE LegsInv'
  BY <1>8, <1>9 DEF BeginRequest
<1>10. ASSUME NEW s \in Sessions, NEW key \in callbacks, BeginCallback(s, key) PROVE LegsInv'
  <2>1. key[1] \in Orders BY Parts DEF PaymobOK
  <2> QED BY <1>8, <1>10, <2>1 DEF BeginCallback
<1>11. CASE UNCHANGED vars
  BY <1>11 DEF vars, LegsInv, Placed, KnowsLegs, OnePayment, OneDelivery, PaidThere
<1> QED BY <1>1, <1>2, <1>3, <1>4, <1>5, <1>6, <1>7, <1>9, <1>10, <1>11 DEF Next

\* There is no order at the start.
LEMMA InitLegs == Init => LegsInv
BY DEF Init, LegsInv, NoRow, Placed, OnePayment, OneDelivery, PaidThere

\* The property follows.
LEMMA LegsReflected == IInv /\ LegsInv => LegsAreReflected
<1> SUFFICES ASSUME IInv, LegsInv, NEW o \in Orders, row[o].ful \notin {"none", "cancelled"},
                    _all_required_shipments_in(row[o], {"shipped", "delivered"})
             PROVE  _forward_rank[row[o].ful] >= _forward_rank["shipped"]
  BY DEF LegsAreReflected
<1>1. Placed(o)
  <2> SUFFICES ASSUME ~Placed(o) PROVE FALSE OBVIOUS
  <2>1. row[o] = NoRow BY Parts DEF RowsOK
  <2> QED BY <2>1 DEF NoRow
<1> QED BY <1>1 DEF LegsInv, LegsRow, Closed, AllLeft, Left

\* An order all of whose legs have left is at least shipped (transitions.py), as long as it is
\* not cancelled or reopened beside a request of the back office or the warehouse, its two legs
\* do not leave at once, and no purchase order is cancelled by hand: that route drops a required
\* leg and leaves the status as it is.
THEOREM StatusFollowsTheLegs ==
  OneWayToCancel /\ "po" \notin Operations =>
     (Spec /\ []LegsApart => []LegsAreReflected)
<1> SUFFICES ASSUME OneWayToCancel, "po" \notin Operations
             PROVE  Spec /\ []LegsApart => []LegsAreReflected
  OBVIOUS
<1>1. IInv /\ GoodsInv /\ LegsApart /\ [Next]_vars => GoodsInv' BY NextShips DEF LegsApart
<1>2. IInv /\ GoodsInv /\ LegsInv /\ LegsApart /\ [Next]_vars => LegsInv' BY NextLegs
<1> QED BY <1>1, <1>2, InitGoods, InitLegs, LegsReflected, LifecycleInvariant, PTL DEF Spec
===============================================================================
