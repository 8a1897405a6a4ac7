----------------------------- MODULE Procurement ------------------------------
(***************************************************************************)
(* Requests for quotation of institutional buyers: submitted, quoted       *)
(* (again and again, until accepted) and converted into one confirmed      *)
(* order that takes its units from the stock checkout sells from.          *)
(*                                                                         *)
(* Quote and conversion lock the RFQ from their first read to the commit;  *)
(* the list price and the pricelist are read without a lock, the products  *)
(* of a conversion with one.  Begin takes the lock and refuses, the action *)
(* named after the method writes.  Money is in whole units.                *)
(***************************************************************************)
EXTENDS Integers, FiniteSets, FiniteSetsExt

CONSTANTS
    Rfqs, Products,
    Dropshipped,    \* products that are never taken from local stock
    OnHand,         \* units the warehouse holds, by product
    ListPrices,     \* values list_price takes, by product
    PricelistRules, \* the buyer's rules: [product, min_quantity, discount]
    Custom,         \* unit prices staff may type in
    Requests,       \* the items a buyer may submit: quantity by product, 0 for none
    LastDay, Validity,  \* bounds on the days that pass and on a quote's last day
    OrderIds,       \* orders ever created
    Sessions        \* requests in flight at once

ASSUME ProcurementAssumption ==
    /\ "none" \notin Rfqs
    /\ Dropshipped \subseteq Products
    /\ OnHand \in [Products -> Nat]
    /\ ListPrices \in [Products -> SUBSET Nat] /\ Custom \subseteq Nat
    /\ Requests \subseteq [Products -> Nat]
    /\ LastDay \in Nat /\ Validity \subseteq Nat
    /\ OrderIds \subseteq Nat \ {0}
    /\ \A r \in PricelistRules : /\ r.product \in Products \cup {"any"}
                                 /\ r.min_quantity \in Nat /\ r.discount \in 0..100

VARIABLES
    rfq,        \* elitedom_b2b_rfq with its items_payload
    order,      \* sale_order and its lines, as far as a conversion writes them
    stock,      \* ProductTemplate.stock_qty
    reserved,   \* units of InventoryReservation rows: web checkout only
    list_price, \* ProductTemplate.list_price
    today,
    sess,       \* the requests in flight
    answers     \* history: the orders conversions of an RFQ were answered with

vars == <<rfq, order, stock, reserved, list_price, today, sess, answers>>

Zero    == [p \in Products |-> 0]
NoRfq   == [status |-> "none", items |-> Zero, price |-> Zero, cap |-> Zero,
            validity |-> 0, procurement |-> FALSE, conversion |-> 0]
NoOrder == [rfq |-> "none", state |-> "none", items |-> Zero, price |-> Zero]
Free    == [op |-> "none", rfq |-> "none", price |-> Zero, cap |-> Zero, validity |-> 0]

Init == /\ rfq = [i \in Rfqs |-> NoRfq]
        /\ order = [o \in OrderIds |-> NoOrder]
        /\ stock = OnHand
        /\ reserved = Zero
        /\ list_price \in {f \in [Products -> UNION {ListPrices[p] : p \in Products}] :
                            \A p \in Products : f[p] \in ListPrices[p]}
        /\ today = 0
        /\ sess = [s \in Sessions |-> Free]
        /\ answers = [i \in Rfqs |-> {}]

Items(i)  == {p \in Products : rfq[i].items[p] > 0}
Locked(i) == \E s \in Sessions : sess[s].rfq = i
Commit(s) == sess' = [sess EXCEPT ![s] = Free]

-------------------------------------------------------------------------------
(* Pricing.  A definition named faulty_* is no part of the code: it is the one *)
(* after it with a plausible slip, used to see that the properties notice.     *)

Eligible(p, q) == {r \in PricelistRules : r.product \in {p, "any"} /\ r.min_quantity <= q}

\* A rule for the product wins over a general one, then the higher threshold,
\* then the larger discount.
_best_pricelist_discount(p, q) ==
    LET own    == {r \in Eligible(p, q) : r.product = p}
        pool   == IF own # {} THEN own ELSE Eligible(p, q)
        top    == Max({r.min_quantity : r \in pool})
    IN  IF pool = {} THEN 0 ELSE Max({r.discount : r \in {x \in pool : x.min_quantity = top}})

\* 0 stands for a price the staff left to the pricelist.
_quoted_price(p, q, custom) ==
    IF custom > 0 THEN custom
    ELSE (list_price[p] * (100 - _best_pricelist_discount(p, q))) \div 100

-------------------------------------------------------------------------------
(* The three requests.                                                         *)

\* With its procurement context, written in the same transaction.
submit_rfq(i, items, procurement) ==
    /\ rfq[i] = NoRfq
    /\ \E p \in Products : items[p] > 0
    /\ rfq' = [rfq EXCEPT ![i] = [NoRfq EXCEPT !.status = "submitted", !.items = items,
                                               !.procurement = procurement]]
    /\ UNCHANGED <<order, stock, reserved, list_price, today, sess, answers>>

QUOTEABLE_STATUSES == {"submitted", "under_review", "quoted"}

\* A custom price may not exceed the list price.  cap remembers that list price.
BeginQuote(s, i, custom, validity) ==
    /\ sess[s] = Free /\ ~Locked(i)
    /\ rfq[i].status \in QUOTEABLE_STATUSES
    /\ validity >= today
    /\ \A p \in Items(i) : custom <= list_price[p]
    /\ sess' = [sess EXCEPT ![s] =
         [op |-> "quote", rfq |-> i, validity |-> validity, cap |-> list_price,
          price |-> [p \in Products |->
                       IF p \in Items(i) THEN _quoted_price(p, rfq[i].items[p], custom) ELSE 0]]]
    /\ UNCHANGED <<rfq, order, stock, reserved, list_price, today, answers>>

faulty_issue_quote(s) ==
    /\ sess[s].op = "quote"
    /\ LET i == sess[s].rfq IN
       rfq' = [rfq EXCEPT ![i] = [NoRfq EXCEPT !.status = "quoted", !.items = rfq[i].items,
                                               !.price = sess[s].price, !.cap = sess[s].cap,
                                               !.validity = sess[s].validity]]
    /\ Commit(s)
    /\ UNCHANGED <<order, stock, reserved, list_price, today, answers>>

issue_quote(s) ==
    /\ sess[s].op = "quote"
    /\ LET i == sess[s].rfq IN
       rfq' = [rfq EXCEPT ![i] = [@ EXCEPT !.status = "quoted", !.price = sess[s].price,
                                           !.cap = sess[s].cap, !.conversion = 0,
                                           !.validity = sess[s].validity]]
    /\ Commit(s)
    /\ UNCHANGED <<order, stock, reserved, list_price, today, answers>>

\* A repeated conversion is answered with the order the first one made.
_existing_conversion_response(i) ==
    /\ ~Locked(i) /\ rfq[i].conversion # 0
    /\ answers' = [answers EXCEPT ![i] = @ \cup {rfq[i].conversion}]
    /\ UNCHANGED <<rfq, order, stock, reserved, list_price, today, sess>>

faulty_BeginConvert(s, i) ==
    /\ sess[s] = Free
    /\ rfq[i].conversion = 0
    /\ rfq[i].status = "quoted" /\ rfq[i].validity >= today
    /\ sess' = [sess EXCEPT ![s] = [Free EXCEPT !.op = "convert", !.rfq = i]]
    /\ UNCHANGED <<rfq, order, stock, reserved, list_price, today, answers>>

BeginConvert(s, i) ==
    /\ sess[s] = Free /\ ~Locked(i)
    /\ rfq[i].conversion = 0
    /\ rfq[i].status = "quoted" /\ rfq[i].validity >= today
    /\ sess' = [sess EXCEPT ![s] = [Free EXCEPT !.op = "convert", !.rfq = i]]
    /\ UNCHANGED <<rfq, order, stock, reserved, list_price, today, answers>>

\* Units of local stock a conversion takes.
Takes(i) == [p \in Products |-> IF p \in Dropshipped THEN 0 ELSE rfq[i].items[p]]

\* As the next one, at the prices of the list.
repriced_convert_rfq_to_order(s) ==
    /\ sess[s].op = "convert"
    /\ \E o \in OrderIds :
         LET i == sess[s].rfq IN
         /\ order[o] = NoOrder
         /\ \A p \in Products : stock[p] >= Takes(i)[p]
         /\ order' = [order EXCEPT ![o] = [rfq |-> i, state |-> "sale", items |-> rfq[i].items,
                                           price |-> list_price]]
         /\ stock' = [p \in Products |-> stock[p] - Takes(i)[p]]
         /\ rfq' = [rfq EXCEPT ![i].status = "accepted", ![i].conversion = o]
         /\ answers' = [answers EXCEPT ![i] = @ \cup {o}]
    /\ Commit(s)
    /\ UNCHANGED <<reserved, list_price, today>>

\* The products are locked, checked and lowered together.  No reservation row.
convert_rfq_to_order(s) ==
    /\ sess[s].op = "convert"
    /\ \E o \in OrderIds :
         LET i == sess[s].rfq IN
         /\ order[o] = NoOrder
         /\ \A p \in Products : stock[p] >= Takes(i)[p]
         /\ order' = [order EXCEPT ![o] = [rfq |-> i, state |-> "sale", items |-> rfq[i].items,
                                           price |-> rfq[i].price]]
         /\ stock' = [p \in Products |-> stock[p] - Takes(i)[p]]
         /\ rfq' = [rfq EXCEPT ![i].status = "accepted", ![i].conversion = o]
         /\ answers' = [answers EXCEPT ![i] = @ \cup {o}]
    /\ Commit(s)
    /\ UNCHANGED <<reserved, list_price, today>>

\* A shortage, or any later error, undoes the request.
Rollback(s) ==
    /\ sess[s] # Free
    /\ Commit(s)
    /\ UNCHANGED <<rfq, order, stock, reserved, list_price, today, answers>>

-------------------------------------------------------------------------------
(* What else moves the rows.                                                   *)

\* A web checkout takes a unit and records it, a cancellation gives it back.
reserve_checkout_stock(p) ==
    /\ p \notin Dropshipped /\ stock[p] >= 1
    /\ stock' = [stock EXCEPT ![p] = @ - 1]
    /\ reserved' = [reserved EXCEPT ![p] = @ + 1]
    /\ UNCHANGED <<rfq, order, list_price, today, sess, answers>>

release_order(p) ==
    /\ reserved[p] >= 1
    /\ stock' = [stock EXCEPT ![p] = @ + 1]
    /\ reserved' = [reserved EXCEPT ![p] = @ - 1]
    /\ UNCHANGED <<rfq, order, list_price, today, sess, answers>>

\* Cancelling a converted order finds no reservation row: nothing comes back.
cancel(o) ==
    /\ order[o].state = "sale"
    /\ order' = [order EXCEPT ![o].state = "cancel"]
    /\ UNCHANGED <<rfq, stock, reserved, list_price, today, sess, answers>>

\* Odoo's absolute quantity, less the reservation rows.
apply_authoritative_quantity(p) ==
    /\ p \notin Dropshipped
    /\ stock' = [stock EXCEPT ![p] = Max({0, OnHand[p] - reserved[p]})]
    /\ UNCHANGED <<rfq, order, reserved, list_price, today, sess, answers>>

ChangeListPrice(p, v) ==
    /\ list_price' = [list_price EXCEPT ![p] = v]
    /\ UNCHANGED <<rfq, order, stock, reserved, today, sess, answers>>

Midnight ==
    /\ today < LastDay
    /\ today' = today + 1
    /\ UNCHANGED <<rfq, order, stock, reserved, list_price, sess, answers>>

Next ==
    \/ \E i \in Rfqs :
         \/ \E items \in Requests, procurement \in BOOLEAN : submit_rfq(i, items, procurement)
         \/ _existing_conversion_response(i)
         \/ \E s \in Sessions : \/ BeginConvert(s, i)
                                \/ \E custom \in Custom \cup {0}, validity \in Validity :
                                     BeginQuote(s, i, custom, validity)
    \/ \E s \in Sessions : issue_quote(s) \/ convert_rfq_to_order(s) \/ Rollback(s)
    \/ \E p \in Products : \/ reserve_checkout_stock(p) \/ release_order(p)
                           \/ apply_authoritative_quantity(p)
                           \/ \E v \in ListPrices[p] : ChangeListPrice(p, v)
    \/ \E o \in OrderIds : cancel(o)
    \/ Midnight

Spec == Init /\ [][Next]_vars

-------------------------------------------------------------------------------
(* Properties *)

SessionOK == [op : {"none", "quote", "convert"}, rfq : Rfqs \cup {"none"},
              price : [Products -> Nat], cap : [Products -> Nat], validity : Nat]
RfqOK     == [status : {"none", "submitted", "quoted", "accepted"}, items : [Products -> Nat],
              price : [Products -> Nat], cap : [Products -> Nat], validity : Nat,
              procurement : BOOLEAN, conversion : OrderIds \cup {0}]
OrderOK   == [rfq : Rfqs \cup {"none"}, state : {"none", "sale", "cancel"},
              items : [Products -> Nat], price : [Products -> Nat]]

\* Every column keeps its domain; in particular stock_qty never goes below zero,
\* whichever conversions and checkouts overlap (b2b/service.py:271-325).
TypeOK ==
    /\ rfq \in [Rfqs -> RfqOK]
    /\ order \in [OrderIds -> OrderOK]
    /\ stock \in [Products -> Nat] /\ reserved \in [Products -> Nat]
    /\ list_price \in [Products -> Nat] /\ today \in Nat
    /\ sess \in [Sessions -> SessionOK]
    /\ answers \in [Rfqs -> SUBSET OrderIds]

\* "Atomically turn one quoted RFQ into exactly one confirmed sale order"
\* (b2b/service.py:243): however conversions are repeated and overlap, an RFQ has
\* one order and every answer names it.
OneOrderPerRfq ==
    /\ \A o1, o2 \in OrderIds : order[o1] # NoOrder /\ order[o1].rfq = order[o2].rfq => o1 = o2
    /\ \A i \in Rfqs : answers[i] \subseteq {rfq[i].conversion}

\* The order of an RFQ has the items and prices of the quote it accepted, nothing
\* revises that quote afterwards, and no price is above the list price of the day
\* it was quoted (b2b/service.py:164-231, 269-325).
OrderAtQuotedPrice ==
    \A o \in OrderIds : order[o] # NoOrder =>
        LET r == rfq[order[o].rfq] IN
        /\ r.status = "accepted" /\ r.conversion = o
        /\ order[o].items = r.items /\ order[o].price = r.price
        /\ \A p \in Products : r.price[p] <= r.cap[p]

\* Quotes and conversions rewrite the JSON document and keep the buyer's context
\* in it (b2b/procurement.py:28-63, b2b/service.py:211-222, 340).
ContextSurvives ==
    [][\A i \in Rfqs : rfq[i].procurement => rfq'[i].procurement]_vars

B2BUnits(p, states) ==
    MapThenSumSet(LAMBDA o : order[o].items[p], {o \in OrderIds : order[o].state \in states})

\* "Reserving local stock in the same transaction prevents a later conversion from
\* overselling the validated inventory" (b2b/service.py:293-295).
NothingOversold ==
    \A p \in Products \ Dropshipped : reserved[p] + B2BUnits(p, {"sale"}) <= OnHand[p]
===============================================================================
