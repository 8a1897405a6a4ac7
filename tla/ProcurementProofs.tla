--------------------------- MODULE ProcurementProofs ---------------------------
(***************************************************************************)
(* Proofs about Procurement: types, one order per RFQ, at the price it was *)
(* quoted, for any number of RFQs, products, rules and requests in flight. *)
(***************************************************************************)
EXTENDS Procurement, NaturalsInduction, WellFoundedInduction, TLAPS

-------------------------------------------------------------------------------
(* Prices *)

\* A bounded non-empty set of naturals has a maximum.
LEMMA MaxOfNaturals ==
    ASSUME NEW S \in SUBSET Nat, S # {}, NEW n \in Nat, \A x \in S : x <= n
    PROVE  Max(S) \in S
<1> DEFINE B == {u \in Nat : \A x \in S : x <= u}
<1>1. B # {} /\ B \subseteq Nat OBVIOUS
<1>2. PICK m \in B : \A u \in B : ~(<<u, m>> \in OpToRel(<, Nat))
  <2> HIDE DEF B
  <2> QED BY <1>1, NatLessThanWellFounded, WFMin, Zenon
<1>3. m \in Nat /\ \A x \in S : x <= m OBVIOUS
<1>4. \A u \in B : ~(u < m) BY <1>2, <1>3 DEF OpToRel
<1>5. m \in S
  <2> SUFFICES ASSUME m \notin S PROVE FALSE OBVIOUS
  <2>1. PICK x \in S : TRUE OBVIOUS
  <2>2. x \in Nat /\ x < m BY <1>3, <2>1
  <2>3. m - 1 \in B BY <1>3, <2>2
  <2> QED BY <1>3, <1>4, <2>3
<1>6. \E x \in S : \A y \in S : x >= y BY <1>3, <1>5
<1> QED BY <1>6 DEF Max

\* The discount that wins is a percentage.
LEMMA DiscountIsPercentage ==
    ASSUME NEW p \in Products, NEW q \in Nat
    PROVE  _best_pricelist_discount(p, q) \in 0..100
<1> DEFINE own  == {r \in Eligible(p, q) : r.product = p}
           pool == IF own # {} THEN own ELSE Eligible(p, q)
           mins == {r.min_quantity : r \in pool}
           top  == Max(mins)
           best == {r.discount : r \in {x \in pool : x.min_quantity = top}}
<1>1. CASE pool = {} BY <1>1 DEF _best_pricelist_discount
<1>2. CASE pool # {}
  <2>1. \A r \in pool : r.min_quantity \in Nat /\ r.min_quantity <= q /\ r.discount \in 0..100
    BY ProcurementAssumption DEF Eligible
  <2>2. top \in mins
    <3>1. mins \in SUBSET Nat /\ mins # {} /\ \A x \in mins : x <= q BY <1>2, <2>1
    <3> HIDE DEF mins
    <3> QED BY <3>1, MaxOfNaturals
  <2>3. best \in SUBSET (0..100) /\ best # {}
    <3>1. \E r \in pool : r.min_quantity = top BY <2>2
    <3> HIDE DEF pool, top
    <3> QED BY <2>1, <3>1
  <2>4. Max(best) \in best
    <3> HIDE DEF best
    <3>1. best \in SUBSET Nat /\ 100 \in Nat /\ \A x \in best : x <= 100 BY <2>3
    <3> QED BY <2>3, <3>1, MaxOfNaturals
  <2>5. _best_pricelist_discount(p, q) = Max(best) BY <1>2 DEF _best_pricelist_discount
  <2> QED BY <2>3, <2>4, <2>5
<1> QED BY <1>1, <1>2

\* A part of a price, in hundredths, is no more than the price.
LEMMA PartOfPrice ==
    ASSUME NEW l \in Nat, NEW d \in 0..100
    PROVE  (l * (100 - d)) \div 100 \in Nat /\ (l * (100 - d)) \div 100 <= l
<1>1. (100 - d) \in Nat /\ 100 - d <= 100 OBVIOUS
<1>2. \A a \in Nat, k \in Nat : k <= 100 => a * k \in Nat /\ a * k <= a * 100 OBVIOUS
<1>3. l * (100 - d) \in Nat /\ l * (100 - d) <= l * 100 BY <1>1, <1>2
<1> DEFINE x == l * (100 - d)
<1>4. x \in Nat /\ x <= l * 100 BY <1>3
<1> HIDE DEF x
<1>5. x \div 100 \in Nat /\ x \div 100 <= l BY <1>4
<1> QED BY <1>5 DEF x

\* A quoted price is at most the list price it is computed from.
LEMMA QuotedPriceIsCapped ==
    ASSUME NEW p \in Products, NEW q \in Nat, NEW custom \in Nat, list_price[p] \in Nat,
           custom <= list_price[p]
    PROVE  _quoted_price(p, q, custom) \in Nat /\ _quoted_price(p, q, custom) <= list_price[p]
<1>1. CASE custom > 0 BY <1>1 DEF _quoted_price
<1>2. CASE ~(custom > 0)
  <2>1. _best_pricelist_discount(p, q) \in 0..100 BY DiscountIsPercentage
  <2> QED BY <1>2, <2>1, PartOfPrice DEF _quoted_price
<1> QED BY <1>1, <1>2

-------------------------------------------------------------------------------
(* Types *)

LEMMA EmptyRows ==
    NoRfq \in RfqOK /\ NoOrder \in OrderOK /\ Free \in SessionOK /\ Zero \in [Products -> Nat]
  BY DEF NoRfq, NoOrder, Free, Zero, RfqOK, OrderOK, SessionOK

LEMMA InitTypes == Init => TypeOK
<1> SUFFICES ASSUME Init PROVE TypeOK OBVIOUS
<1>1. list_price \in [Products -> Nat] BY ProcurementAssumption DEF Init
<1>2. /\ rfq \in [Rfqs -> RfqOK] /\ order \in [OrderIds -> OrderOK]
      /\ sess \in [Sessions -> SessionOK] /\ answers \in [Rfqs -> SUBSET OrderIds]
  BY EmptyRows DEF Init
<1>3. stock \in [Products -> Nat] /\ reserved \in [Products -> Nat] /\ today \in Nat
  BY EmptyRows, ProcurementAssumption DEF Init
<1> QED BY <1>1, <1>2, <1>3 DEF TypeOK

\* What a quotation has computed: a price for each item, capped by its list price.
LEMMA BeginQuoteComputes ==
    ASSUME TypeOK, NEW s \in Sessions, NEW i \in Rfqs, NEW custom \in Custom \cup {0},
           NEW validity \in Validity, BeginQuote(s, i, custom, validity)
    PROVE  \E x \in SessionOK : /\ sess' = [sess EXCEPT ![s] = x]
                                /\ x.op = "quote" /\ x.rfq = i
                                /\ \A p \in Products : x.price[p] <= x.cap[p]
<1> DEFINE price == [p \in Products |->
                       IF p \in Items(i) THEN _quoted_price(p, rfq[i].items[p], custom) ELSE 0]
           x == [op |-> "quote", rfq |-> i, validity |-> validity, cap |-> list_price,
                 price |-> price]
<1>1. list_price \in [Products -> Nat] /\ custom \in Nat /\ validity \in Nat
  BY ProcurementAssumption DEF TypeOK
<1>2. \A p \in Products : price[p] \in Nat /\ price[p] <= list_price[p]
  <2> TAKE p \in Products
  <2>1. CASE p \in Items(i)
    <3>1. rfq[i].items[p] \in Nat BY DEF TypeOK, RfqOK
    <3>2. custom <= list_price[p] BY <2>1 DEF BeginQuote
    <3> QED BY <1>1, <2>1, <3>1, <3>2, QuotedPriceIsCapped
  <2>2. CASE p \notin Items(i) BY <1>1, <2>2
  <2> QED BY <2>1, <2>2
<1>3. price \in [Products -> Nat]
  <2> HIDE DEF price
  <2>1. price = [p \in Products |-> price[p]] BY DEF price
  <2> QED BY <1>2, <2>1
<1> HIDE DEF price
<1>4. x \in SessionOK BY <1>1, <1>3 DEF SessionOK
<1>5. x.op = "quote" /\ x.rfq = i /\ \A p \in Products : x.price[p] <= x.cap[p] BY <1>2
<1>6. sess' = [sess EXCEPT ![s] = x] BY DEF BeginQuote, price
<1> HIDE DEF x
<1> QED BY <1>4, <1>5, <1>6

\* The quotation a request writes.
LEMMA QuoteWrites ==
    ASSUME TypeOK, NEW s \in Sessions, NEW i \in Rfqs, sess[s].rfq = i, issue_quote(s)
    PROVE  \E q \in RfqOK : /\ rfq' = [rfq EXCEPT ![i] = q]
                            /\ q.status = "quoted" /\ q.conversion = 0
                            /\ q.procurement = rfq[i].procurement
                            /\ q.price = sess[s].price /\ q.cap = sess[s].cap
<1> DEFINE q == [rfq[i] EXCEPT !.status = "quoted", !.price = sess[s].price, !.cap = sess[s].cap,
                               !.conversion = 0, !.validity = sess[s].validity]
<1>1. rfq[i] \in RfqOK /\ sess[s] \in SessionOK BY DEF TypeOK
<1>2. q \in RfqOK BY <1>1 DEF RfqOK, SessionOK
<1>3. /\ q.status = "quoted" /\ q.conversion = 0 /\ q.procurement = rfq[i].procurement
      /\ q.price = sess[s].price /\ q.cap = sess[s].cap
  BY <1>1 DEF RfqOK
<1>4. rfq' = [rfq EXCEPT ![i] = q] BY DEF issue_quote
<1> HIDE DEF q
<1> QED BY <1>2, <1>3, <1>4

\* Order o is made as r from the RFQ, whose row becomes q.
Converts(i, o, q, r) ==
    /\ order[o] = NoOrder /\ o # 0
    /\ order' = [order EXCEPT ![o] = r]
    /\ r.rfq = i /\ r.items = rfq[i].items /\ r.price = rfq[i].price
    /\ rfq' = [rfq EXCEPT ![i] = q]
    /\ q.status = "accepted" /\ q.conversion = o /\ q.procurement = rfq[i].procurement
    /\ q.items = rfq[i].items /\ q.price = rfq[i].price /\ q.cap = rfq[i].cap
    /\ answers' = [answers EXCEPT ![i] = answers[i] \cup {o}]
    /\ \A p \in Products : stock[p] >= Takes(i)[p]
    /\ stock' = [p \in Products |-> stock[p] - Takes(i)[p]]

\* The order and the row a conversion writes.
LEMMA ConversionWrites ==
    ASSUME TypeOK, NEW s \in Sessions, NEW i \in Rfqs, sess[s].rfq = i, convert_rfq_to_order(s)
    PROVE  \E o \in OrderIds, q \in RfqOK, r \in OrderOK : Converts(i, o, q, r)
<1>1. PICK o \in OrderIds :
        /\ order[o] = NoOrder
        /\ \A p \in Products : stock[p] >= Takes(i)[p]
        /\ order' = [order EXCEPT ![o] = [rfq |-> i, state |-> "sale", items |-> rfq[i].items,
                                          price |-> rfq[i].price]]
        /\ stock' = [p \in Products |-> stock[p] - Takes(i)[p]]
        /\ rfq' = [rfq EXCEPT ![i].status = "accepted", ![i].conversion = o]
        /\ answers' = [answers EXCEPT ![i] = @ \cup {o}]
  BY DEF convert_rfq_to_order
<1> DEFINE q == [rfq[i] EXCEPT !.status = "accepted", !.conversion = o]
           r == [rfq |-> i, state |-> "sale", items |-> rfq[i].items, price |-> rfq[i].price]
<1>2. rfq[i] \in RfqOK /\ rfq \in [Rfqs -> RfqOK] /\ answers \in [Rfqs -> SUBSET OrderIds]
  BY DEF TypeOK
<1>3. q \in RfqOK BY <1>2 DEF RfqOK
<1>4. r \in OrderOK BY <1>2 DEF RfqOK, OrderOK
<1>5. /\ q.status = "accepted" /\ q.conversion = o /\ q.procurement = rfq[i].procurement
      /\ q.items = rfq[i].items /\ q.price = rfq[i].price /\ q.cap = rfq[i].cap
  BY <1>2 DEF RfqOK
<1>6. r.rfq = i /\ r.items = rfq[i].items /\ r.price = rfq[i].price OBVIOUS
<1>7. rfq' = [rfq EXCEPT ![i] = q] BY <1>1, <1>2
<1>8. order' = [order EXCEPT ![o] = r] /\ answers' = [answers EXCEPT ![i] = answers[i] \cup {o}]
  BY <1>1, <1>2
<1>9. o # 0 BY ProcurementAssumption
<1>10. Converts(i, o, q, r) BY <1>1, <1>5, <1>6, <1>7, <1>8, <1>9 DEF Converts
<1> HIDE DEF q, r
<1> QED BY <1>3, <1>4, <1>10

-------------------------------------------------------------------------------
(* The inductive invariant *)

\* A request at work holds the lock of its RFQ, and nobody else does.
Locks ==
    /\ \A s \in Sessions : \/ sess[s] = Free
                           \/ sess[s].op \in {"quote", "convert"} /\ sess[s].rfq \in Rfqs
    /\ \A s, t \in Sessions : sess[s].rfq = sess[t].rfq /\ sess[s].rfq # "none" => s = t

\* What a request has read still holds when it writes.
WorkIsCurrent ==
    \A s \in Sessions :
       /\ sess[s].op = "convert" => rfq[sess[s].rfq].status = "quoted"
       /\ sess[s].op = "quote" =>
            /\ rfq[sess[s].rfq].status \in QUOTEABLE_STATUSES
            /\ \A p \in Products : sess[s].price[p] <= sess[s].cap[p]

\* An accepted RFQ answers with its conversion, no other has one.
RfqsAgree ==
    \A i \in Rfqs :
       /\ rfq[i].status = "accepted" => answers[i] \subseteq {rfq[i].conversion}
       /\ rfq[i].status # "accepted" => rfq[i].conversion = 0 /\ answers[i] = {}
       /\ \A p \in Products : rfq[i].price[p] <= rfq[i].cap[p]

\* An order is the conversion of an accepted RFQ, at its items and prices.
OrdersAgree ==
    \A o \in OrderIds : order[o] # NoOrder =>
       /\ order[o].rfq \in Rfqs
       /\ rfq[order[o].rfq].status = "accepted" /\ rfq[order[o].rfq].conversion = o
       /\ order[o].items = rfq[order[o].rfq].items /\ order[o].price = rfq[order[o].rfq].price

PInv == TypeOK /\ Locks /\ WorkIsCurrent /\ RfqsAgree /\ OrdersAgree

LEMMA TypesStep ==
    ASSUME TypeOK, Locks, [Next]_vars
    PROVE  TypeOK'
<1>1. CASE UNCHANGED vars BY <1>1 DEF vars, TypeOK
<1>2. ASSUME NEW i \in Rfqs, NEW items \in Requests, NEW procurement \in BOOLEAN,
             submit_rfq(i, items, procurement)
      PROVE  TypeOK'
  <2> DEFINE q == [NoRfq EXCEPT !.status = "submitted", !.items = items,
                                !.procurement = procurement]
  <2>1. q \in RfqOK BY EmptyRows, ProcurementAssumption DEF NoRfq, RfqOK
  <2>2. rfq' = [rfq EXCEPT ![i] = q] BY <1>2 DEF submit_rfq
  <2> HIDE DEF q
  <2> QED BY <1>2, <2>1, <2>2 DEF submit_rfq, TypeOK
<1>3. ASSUME NEW i \in Rfqs, _existing_conversion_response(i) PROVE TypeOK'
  <2>1. rfq[i].conversion \in OrderIds BY <1>3 DEF _existing_conversion_response, TypeOK, RfqOK
  <2> QED BY <1>3, <2>1 DEF _existing_conversion_response, TypeOK
<1>4. ASSUME NEW i \in Rfqs, NEW s \in Sessions, BeginConvert(s, i) PROVE TypeOK'
  <2> DEFINE x == [Free EXCEPT !.op = "convert", !.rfq = i]
  <2>1. x \in SessionOK BY EmptyRows DEF Free, SessionOK
  <2>2. sess' = [sess EXCEPT ![s] = x] BY <1>4 DEF BeginConvert
  <2> HIDE DEF x
  <2> QED BY <1>4, <2>1, <2>2 DEF BeginConvert, TypeOK
<1>5. ASSUME NEW i \in Rfqs, NEW s \in Sessions, NEW custom \in Custom \cup {0},
             NEW validity \in Validity, BeginQuote(s, i, custom, validity)
      PROVE  TypeOK'
  <2>1. PICK x \in SessionOK : sess' = [sess EXCEPT ![s] = x] BY <1>5, BeginQuoteComputes
  <2>2. UNCHANGED <<rfq, order, stock, reserved, list_price, today, answers>>
    BY <1>5 DEF BeginQuote
  <2>3. sess' \in [Sessions -> SessionOK] BY <2>1 DEF TypeOK
  <2> QED BY <2>2, <2>3 DEF TypeOK
<1>6. ASSUME NEW s \in Sessions, issue_quote(s) PROVE TypeOK'
  <2>1. CASE sess[s].rfq \in Rfqs
    <3>1. PICK q \in RfqOK : rfq' = [rfq EXCEPT ![sess[s].rfq] = q] BY <1>6, <2>1, QuoteWrites
    <3>2. sess' \in [Sessions -> SessionOK]
      BY <1>6, EmptyRows DEF issue_quote, Commit, TypeOK
    <3>3. rfq' \in [Rfqs -> RfqOK] BY <3>1 DEF TypeOK
    <3>4. UNCHANGED <<order, stock, reserved, list_price, today, answers>>
      BY <1>6 DEF issue_quote, Commit
    <3> QED BY <3>2, <3>3, <3>4 DEF TypeOK
  <2>2. CASE sess[s].rfq \notin Rfqs
    <3>1. rfq' = rfq BY <1>6, <2>2 DEF issue_quote, TypeOK
    <3> QED BY <1>6, <3>1, EmptyRows DEF issue_quote, Commit, TypeOK
  <2> QED BY <2>1, <2>2
<1>7. ASSUME NEW s \in Sessions, sess[s].rfq \in Rfqs, convert_rfq_to_order(s) PROVE TypeOK'
  <2> DEFINE i == sess[s].rfq
  <2>1. PICK o \in OrderIds, q \in RfqOK, r \in OrderOK : Converts(i, o, q, r)
    BY <1>7, ConversionWrites
  <2>2. \A p \in Products : stock[p] \in Nat /\ Takes(i)[p] \in Nat
    BY <1>7 DEF TypeOK, RfqOK, Takes
  <2>3. \A p \in Products : stock[p] - Takes(i)[p] \in Nat BY <2>1, <2>2 DEF Converts
  <2>4. stock' \in [Products -> Nat] BY <2>1, <2>3 DEF Converts
  <2>5. answers' \in [Rfqs -> SUBSET OrderIds] BY <1>7, <2>1 DEF TypeOK, Converts
  <2>6. order' \in [OrderIds -> OrderOK] /\ rfq' \in [Rfqs -> RfqOK]
    BY <1>7, <2>1 DEF TypeOK, Converts
  <2> QED BY <1>7, <2>4, <2>5, <2>6, EmptyRows DEF convert_rfq_to_order, Commit, TypeOK
<1>8. ASSUME NEW s \in Sessions, Rollback(s) PROVE TypeOK'
  BY <1>8, EmptyRows DEF Rollback, Commit, TypeOK
<1>9. ASSUME NEW p \in Products,
             \/ reserve_checkout_stock(p) \/ release_order(p) \/ apply_authoritative_quantity(p)
             \/ \E v \in ListPrices[p] : ChangeListPrice(p, v)
      PROVE  TypeOK'
  <2>1. CASE reserve_checkout_stock(p)
    <3>1. stock[p] - 1 \in Nat /\ reserved[p] + 1 \in Nat
      BY <2>1 DEF reserve_checkout_stock, TypeOK
    <3> QED BY <2>1, <3>1 DEF reserve_checkout_stock, TypeOK
  <2>2. CASE release_order(p)
    <3>1. stock[p] + 1 \in Nat /\ reserved[p] - 1 \in Nat BY <2>2 DEF release_order, TypeOK
    <3> QED BY <2>2, <3>1 DEF release_order, TypeOK
  <2>3. CASE apply_authoritative_quantity(p)
    <3> DEFINE S == {0, OnHand[p] - reserved[p]}
    <3>1. OnHand[p] \in Nat /\ reserved[p] \in Nat BY ProcurementAssumption DEF TypeOK
    <3>2. \E x \in S : \A y \in S : x >= y BY <3>1
    <3>3. Max(S) \in S /\ Max(S) >= 0
      <4>1. Max(S) \in S /\ \A y \in S : Max(S) >= y BY <3>2 DEF Max
      <4> QED BY <4>1
    <3>4. Max(S) \in Nat BY <3>1, <3>3
    <3> QED BY <2>3, <3>4 DEF apply_authoritative_quantity, TypeOK
  <2>4. CASE \E v \in ListPrices[p] : ChangeListPrice(p, v)
    <3>1. PICK v \in ListPrices[p] : ChangeListPrice(p, v) BY <2>4
    <3>2. v \in Nat BY ProcurementAssumption
    <3>3. /\ list_price' = [list_price EXCEPT ![p] = v]
          /\ UNCHANGED <<rfq, order, stock, reserved, today, sess, answers>>
      BY <3>1 DEF ChangeListPrice
    <3>4. list_price' \in [Products -> Nat] BY <3>2, <3>3 DEF TypeOK
    <3> QED BY <3>3, <3>4 DEF TypeOK
  <2> QED BY <1>9, <2>1, <2>2, <2>3, <2>4
<1>10. ASSUME NEW o \in OrderIds, cancel(o) PROVE TypeOK'
  <2>1. [order[o] EXCEPT !.state = "cancel"] \in OrderOK
    <3>1. order[o] \in OrderOK BY DEF TypeOK
    <3>2. \A r \in OrderOK : [r EXCEPT !.state = "cancel"] \in OrderOK BY DEF OrderOK
    <3> QED BY <3>1, <3>2
  <2>2. order' = [order EXCEPT ![o] = [order[o] EXCEPT !.state = "cancel"]]
    BY <1>10 DEF cancel
  <2> QED BY <1>10, <2>1, <2>2 DEF cancel, TypeOK
<1>11. CASE Midnight BY <1>11 DEF Midnight, TypeOK
<1>12. ASSUME NEW s \in Sessions, convert_rfq_to_order(s) PROVE sess[s].rfq \in Rfqs
  BY <1>12 DEF convert_rfq_to_order, Locks, Free
<1> QED BY <1>1, <1>2, <1>3, <1>4, <1>5, <1>6, <1>7, <1>8, <1>9, <1>10, <1>11, <1>12 DEF Next

LEMMA InitHolds == Init => PInv
<1> SUFFICES ASSUME Init PROVE PInv OBVIOUS
<1>1. TypeOK BY InitTypes
<1>2. \A s \in Sessions : sess[s] = Free /\ Free.rfq = "none" /\ Free.op = "none"
  BY DEF Init, Free
<1>3. Locks /\ WorkIsCurrent BY <1>2 DEF Locks, WorkIsCurrent
<1>4. \A i \in Rfqs : /\ rfq[i].status = "none" /\ rfq[i].conversion = 0 /\ answers[i] = {}
                      /\ \A p \in Products : rfq[i].price[p] = 0 /\ rfq[i].cap[p] = 0
  BY DEF Init, NoRfq, Zero
<1>5. RfqsAgree BY <1>4 DEF RfqsAgree
<1>6. OrdersAgree BY DEF OrdersAgree, Init
<1> QED BY <1>1, <1>3, <1>5, <1>6 DEF PInv

\* A new RFQ has no lock, no order and no price.
LEMMA SubmitKeeps ==
    ASSUME PInv, NEW i \in Rfqs, NEW items \in Requests, NEW procurement \in BOOLEAN,
           submit_rfq(i, items, procurement)
    PROVE  Locks' /\ WorkIsCurrent' /\ RfqsAgree' /\ OrdersAgree'
<1> USE DEF PInv
<1> DEFINE q == [NoRfq EXCEPT !.status = "submitted", !.items = items,
                              !.procurement = procurement]
<1>1. /\ q.status = "submitted" /\ q.conversion = 0
      /\ \A p \in Products : q.price[p] = 0 /\ q.cap[p] = 0
  BY DEF NoRfq, Zero
<1>2. /\ rfq' = [rfq EXCEPT ![i] = q] /\ rfq \in [Rfqs -> RfqOK]
      /\ rfq[i].status = "none" /\ UNCHANGED <<order, sess, answers>>
  BY DEF submit_rfq, TypeOK, NoRfq
<1> HIDE DEF q
<1>3. Locks' BY <1>2 DEF Locks
<1>4. WorkIsCurrent'
  <2>1. \A s \in Sessions : sess[s].op \in {"quote", "convert"} =>
           sess[s].rfq \in Rfqs /\ sess[s].rfq # i
    BY <1>2 DEF Locks, Free, WorkIsCurrent, QUOTEABLE_STATUSES
  <2> QED BY <1>2, <2>1 DEF WorkIsCurrent
<1>5. RfqsAgree' BY <1>1, <1>2 DEF RfqsAgree
<1>6. OrdersAgree' BY <1>2 DEF OrdersAgree
<1> QED BY <1>3, <1>4, <1>5, <1>6

\* The lock is taken by one request, which sees the row as it stays.
LEMMA BeginKeeps ==
    ASSUME PInv, NEW i \in Rfqs, NEW s \in Sessions, NEW x \in SessionOK,
           sess[s] = Free, ~Locked(i), sess' = [sess EXCEPT ![s] = x],
           UNCHANGED <<rfq, order, answers>>, x.rfq = i,
           \/ x.op = "convert" /\ rfq[i].status = "quoted"
           \/ /\ x.op = "quote" /\ rfq[i].status \in QUOTEABLE_STATUSES
              /\ \A p \in Products : x.price[p] <= x.cap[p]
    PROVE  Locks' /\ WorkIsCurrent' /\ RfqsAgree' /\ OrdersAgree'
<1> USE DEF PInv
<1>1. sess \in [Sessions -> SessionOK] BY DEF TypeOK
<1>2. \A t \in Sessions : sess[t].rfq # i BY DEF Locked
<1>3. Locks' BY <1>1, <1>2 DEF Locks
<1>4. WorkIsCurrent' BY <1>1 DEF WorkIsCurrent
<1>5. RfqsAgree' /\ OrdersAgree' BY DEF RfqsAgree, OrdersAgree
<1> QED BY <1>3, <1>4, <1>5

\* A commit releases the lock, and the row it wrote was locked by nobody else.
LEMMA CommitFrees ==
    ASSUME PInv, NEW s \in Sessions, Commit(s)
    PROVE  /\ Locks'
           /\ \A t \in Sessions : sess'[t] = IF t = s THEN Free ELSE sess[t]
           /\ \A t \in Sessions : t # s /\ sess[t] # Free /\ sess[s] # Free
                                    => sess[t].rfq # sess[s].rfq
<1> USE DEF PInv
<1>1. \A t \in Sessions : sess'[t] = IF t = s THEN Free ELSE sess[t] BY DEF Commit, TypeOK
<1>2. Free.rfq = "none" BY DEF Free
<1>3. Locks'
  <2>1. \A t \in Sessions : \/ sess'[t] = Free
                            \/ sess'[t].op \in {"quote", "convert"} /\ sess'[t].rfq \in Rfqs
    BY <1>1 DEF Locks
  <2>2. \A t, u \in Sessions : sess'[t].rfq = sess'[u].rfq /\ sess'[t].rfq # "none" => t = u
    BY <1>1, <1>2 DEF Locks
  <2> QED BY <2>1, <2>2 DEF Locks
<1>4. \A t \in Sessions : t # s /\ sess[t] # Free /\ sess[s] # Free => sess[t].rfq # sess[s].rfq
  BY ProcurementAssumption DEF Locks
<1> QED BY <1>1, <1>3, <1>4

LEMMA QuoteKeeps ==
    ASSUME PInv, NEW s \in Sessions, issue_quote(s)
    PROVE  Locks' /\ WorkIsCurrent' /\ RfqsAgree' /\ OrdersAgree'
<1> USE DEF PInv
<1> DEFINE i == sess[s].rfq
<1>1. sess[s].op = "quote" /\ sess[s] # Free /\ i \in Rfqs /\ Commit(s)
  BY DEF issue_quote, Locks, Free
<1>2. PICK q \in RfqOK : /\ rfq' = [rfq EXCEPT ![i] = q]
                         /\ q.status = "quoted" /\ q.conversion = 0
                         /\ q.price = sess[s].price /\ q.cap = sess[s].cap
  BY <1>1, QuoteWrites
<1>3. \A j \in Rfqs : rfq'[j] = IF j = i THEN q ELSE rfq[j] BY <1>2 DEF TypeOK
<1>4. UNCHANGED <<order, answers>> /\ rfq[i].status # "accepted"
  BY <1>1 DEF issue_quote, WorkIsCurrent, QUOTEABLE_STATUSES
<1>5. WorkIsCurrent'
  <2> SUFFICES ASSUME NEW t \in Sessions, sess'[t].op \in {"convert", "quote"}
      PROVE /\ sess'[t] = sess[t]
            /\ rfq'[sess[t].rfq] = rfq[sess[t].rfq]
    BY DEF WorkIsCurrent
  <2>1. t # s /\ sess'[t] = sess[t] /\ sess[t] # Free BY <1>1, CommitFrees DEF Free
  <2>2. sess[t].rfq \in Rfqs /\ sess[t].rfq # i BY <1>1, <2>1, CommitFrees DEF Locks
  <2> QED BY <1>3, <2>1, <2>2
<1>6. RfqsAgree' BY <1>1, <1>2, <1>3, <1>4 DEF RfqsAgree, WorkIsCurrent
<1>7. OrdersAgree' BY <1>1, <1>3, <1>4 DEF OrdersAgree
<1> QED BY <1>1, <1>5, <1>6, <1>7, CommitFrees

LEMMA ConvertKeeps ==
    ASSUME PInv, NEW s \in Sessions, convert_rfq_to_order(s)
    PROVE  Locks' /\ WorkIsCurrent' /\ RfqsAgree' /\ OrdersAgree'
<1> USE DEF PInv
<1> DEFINE i == sess[s].rfq
<1>1. sess[s].op = "convert" /\ sess[s] # Free /\ i \in Rfqs /\ Commit(s)
  BY DEF convert_rfq_to_order, Locks, Free
<1>2. PICK o \in OrderIds, q \in RfqOK, r \in OrderOK : Converts(i, o, q, r)
  BY <1>1, ConversionWrites
<1>3. /\ \A j \in Rfqs : rfq'[j] = IF j = i THEN q ELSE rfq[j]
      /\ \A x \in OrderIds : order'[x] = IF x = o THEN r ELSE order[x]
      /\ \A j \in Rfqs : answers'[j] = IF j = i THEN answers[i] \cup {o} ELSE answers[j]
  BY <1>2 DEF TypeOK, Converts
<1>4. rfq[i].status = "quoted" /\ answers[i] = {} BY <1>1 DEF WorkIsCurrent, RfqsAgree
<1>5. WorkIsCurrent'
  <2> SUFFICES ASSUME NEW t \in Sessions, sess'[t].op \in {"convert", "quote"}
      PROVE /\ sess'[t] = sess[t]
            /\ rfq'[sess[t].rfq] = rfq[sess[t].rfq]
    BY DEF WorkIsCurrent
  <2>1. t # s /\ sess'[t] = sess[t] /\ sess[t] # Free BY <1>1, CommitFrees DEF Free
  <2>2. sess[t].rfq \in Rfqs /\ sess[t].rfq # i BY <1>1, <2>1, CommitFrees DEF Locks
  <2> QED BY <1>3, <2>1, <2>2
<1>6. RfqsAgree' BY <1>1, <1>2, <1>3, <1>4 DEF RfqsAgree, Converts
<1>7. OrdersAgree'
  <2> SUFFICES ASSUME NEW x \in OrderIds, order'[x] # NoOrder
      PROVE /\ order'[x].rfq \in Rfqs
            /\ rfq'[order'[x].rfq].status = "accepted" /\ rfq'[order'[x].rfq].conversion = x
            /\ order'[x].items = rfq'[order'[x].rfq].items
            /\ order'[x].price = rfq'[order'[x].rfq].price
    BY DEF OrdersAgree
  <2>1. CASE x = o BY <1>1, <1>2, <1>3, <2>1 DEF Converts
  <2>2. CASE x # o
    <3>1. order'[x] = order[x] /\ order[x].rfq \in Rfqs /\ order[x].rfq # i
      BY <1>3, <1>4, <2>2 DEF OrdersAgree
    <3> QED BY <1>3, <3>1 DEF OrdersAgree
  <2> QED BY <2>1, <2>2
<1> QED BY <1>1, <1>5, <1>6, <1>7, CommitFrees

\* The actions that touch neither RFQs nor locks.
LEMMA OthersKeep ==
    ASSUME PInv, UNCHANGED <<rfq, sess, answers>>,
           \/ UNCHANGED order
           \/ \E o \in OrderIds : cancel(o)
    PROVE  Locks' /\ WorkIsCurrent' /\ RfqsAgree' /\ OrdersAgree'
<1> USE DEF PInv
<1>1. Locks' /\ WorkIsCurrent' /\ RfqsAgree' BY DEF Locks, WorkIsCurrent, RfqsAgree
<1>2. ASSUME UNCHANGED order PROVE OrdersAgree' BY <1>2 DEF OrdersAgree
<1>3. ASSUME NEW o \in OrderIds, cancel(o) PROVE OrdersAgree'
  <2> DEFINE r == [order[o] EXCEPT !.state = "cancel"]
  <2>1. order[o] \in OrderOK /\ order[o] # NoOrder BY <1>3 DEF cancel, TypeOK, NoOrder
  <2>2. r.rfq = order[o].rfq /\ r.items = order[o].items /\ r.price = order[o].price
    BY <2>1 DEF OrderOK
  <2>3. \A x \in OrderIds : order'[x] = IF x = o THEN r ELSE order[x]
    BY <1>3 DEF cancel, TypeOK
  <2> HIDE DEF r
  <2> QED BY <2>1, <2>2, <2>3 DEF OrdersAgree
<1> QED BY <1>1, <1>2, <1>3

LEMMA Step == PInv /\ [Next]_vars => PInv'
<1> SUFFICES ASSUME PInv, [Next]_vars PROVE PInv' OBVIOUS
<1> DEFINE Rest == Locks /\ WorkIsCurrent /\ RfqsAgree /\ OrdersAgree
<1>1. TypeOK' BY TypesStep DEF PInv
<1>2. ASSUME UNCHANGED vars PROVE Rest' BY <1>2, OthersKeep DEF vars
<1>3. ASSUME NEW i \in Rfqs, NEW items \in Requests, NEW procurement \in BOOLEAN,
             submit_rfq(i, items, procurement)
      PROVE  Rest'
  BY <1>3, SubmitKeeps
<1>4. ASSUME NEW i \in Rfqs, _existing_conversion_response(i) PROVE Rest'
  <2>1. UNCHANGED <<rfq, order, sess>>
    BY <1>4 DEF _existing_conversion_response
  <2>2. rfq[i].status = "accepted" /\ answers[i] \subseteq {rfq[i].conversion}
    BY <1>4 DEF _existing_conversion_response, PInv, RfqsAgree
  <2>3. \A j \in Rfqs : answers'[j] = IF j = i THEN answers[i] \cup {rfq[i].conversion}
                                      ELSE answers[j]
    BY <1>4 DEF _existing_conversion_response, PInv, TypeOK
  <2> QED BY <2>1, <2>2, <2>3 DEF PInv, Locks, WorkIsCurrent, RfqsAgree, OrdersAgree
<1>5. ASSUME NEW i \in Rfqs, NEW s \in Sessions, BeginConvert(s, i) PROVE Rest'
  <2> DEFINE x == [Free EXCEPT !.op = "convert", !.rfq = i]
  <2>1. x \in SessionOK /\ x.op = "convert" /\ x.rfq = i BY EmptyRows DEF Free, SessionOK
  <2>2. sess' = [sess EXCEPT ![s] = x] BY <1>5 DEF BeginConvert
  <2> HIDE DEF x
  <2> QED BY <1>5, <2>1, <2>2, BeginKeeps DEF BeginConvert
<1>6. ASSUME NEW i \in Rfqs, NEW s \in Sessions, NEW custom \in Custom \cup {0},
             NEW validity \in Validity, BeginQuote(s, i, custom, validity)
      PROVE  Rest'
  <2>1. PICK x \in SessionOK : /\ sess' = [sess EXCEPT ![s] = x]
                               /\ x.op = "quote" /\ x.rfq = i
                               /\ \A p \in Products : x.price[p] <= x.cap[p]
    BY <1>6, BeginQuoteComputes DEF PInv
  <2> QED BY <1>6, <2>1, BeginKeeps DEF BeginQuote
<1>7. ASSUME NEW s \in Sessions, issue_quote(s) \/ convert_rfq_to_order(s) PROVE Rest'
  BY <1>7, QuoteKeeps, ConvertKeeps
<1>8. ASSUME NEW s \in Sessions, Rollback(s) PROVE Rest'
  <2>1. Commit(s) /\ UNCHANGED <<rfq, order, answers>> BY <1>8 DEF Rollback
  <2>2. WorkIsCurrent' BY <2>1, CommitFrees DEF PInv, WorkIsCurrent, Free
  <2> QED BY <2>1, <2>2, CommitFrees DEF PInv, RfqsAgree, OrdersAgree
<1>9. ASSUME NEW p \in Products,
             \/ reserve_checkout_stock(p) \/ release_order(p) \/ apply_authoritative_quantity(p)
             \/ \E v \in ListPrices[p] : ChangeListPrice(p, v)
      PROVE  Rest'
  BY <1>9, OthersKeep
     DEF reserve_checkout_stock, release_order, apply_authoritative_quantity, ChangeListPrice
<1>10. ASSUME NEW o \in OrderIds, cancel(o) PROVE Rest' BY <1>10, OthersKeep DEF cancel
<1>11. ASSUME Midnight PROVE Rest' BY <1>11, OthersKeep DEF Midnight
<1>12. Rest'
  <2> HIDE DEF Rest
  <2> QED BY <1>2, <1>3, <1>4, <1>5, <1>6, <1>7, <1>8, <1>9, <1>10, <1>11 DEF Next, Rest
<1> QED BY <1>1, <1>12 DEF PInv

-------------------------------------------------------------------------------
(* Theorems *)

\* The inductive invariant: types, the row locks, what requests at work rely on,
\* and the agreement of RFQs, orders and answers (b2b/service.py:140-345).
THEOREM ProcurementInvariant == Spec => []PInv
<1>1. Init => PInv BY InitHolds
<1>2. PInv /\ [Next]_vars => PInv' BY Step
<1> QED BY <1>1, <1>2, PTL DEF Spec

\* Every column keeps its domain and stock never goes below zero, for any number
\* of RFQs, products and overlapping conversions (b2b/service.py:271-325).
THEOREM ProcurementTypes == Spec => []TypeOK
<1>1. PInv => TypeOK BY DEF PInv
<1> QED BY <1>1, ProcurementInvariant, PTL

\* However conversions are repeated and overlap, an RFQ has one order and every
\* answer names it (b2b/service.py:243).
THEOREM RfqsConvertOnce == Spec => []OneOrderPerRfq
<1>1. PInv => OneOrderPerRfq
  <2> SUFFICES ASSUME PInv PROVE OneOrderPerRfq OBVIOUS
  <2>1. ASSUME NEW o1 \in OrderIds, NEW o2 \in OrderIds, order[o1] # NoOrder,
               order[o1].rfq = order[o2].rfq
        PROVE  o1 = o2
    <3>1. order[o1].rfq \in Rfqs BY <2>1 DEF PInv, OrdersAgree
    <3>2. order[o2] # NoOrder BY <2>1, <3>1, ProcurementAssumption DEF NoOrder
    <3> QED BY <2>1, <3>2 DEF PInv, OrdersAgree
  <2>2. \A i \in Rfqs : answers[i] \subseteq {rfq[i].conversion} BY DEF PInv, RfqsAgree
  <2> QED BY <2>1, <2>2 DEF OneOrderPerRfq
<1> QED BY <1>1, ProcurementInvariant, PTL

\* An order has the items and prices of the quote it accepted, and none of them is
\* above the list price it was quoted from, whatever the pricelist's rules
\* (b2b/service.py:164-231, 269-325, 430-444).
THEOREM OrdersKeepTheQuote == Spec => []OrderAtQuotedPrice
<1>1. PInv => OrderAtQuotedPrice BY DEF PInv, OrdersAgree, RfqsAgree, OrderAtQuotedPrice
<1> QED BY <1>1, ProcurementInvariant, PTL

\* No step loses the procurement context of an RFQ (b2b/procurement.py:28-63).
THEOREM ContextIsKept == Spec => ContextSurvives
<1> DEFINE Kept == \A i \in Rfqs : rfq[i].procurement => rfq'[i].procurement
<1>1. PInv /\ [Next]_vars => [Kept]_vars
  <2> SUFFICES ASSUME PInv, Next PROVE Kept OBVIOUS
  <2>1. rfq \in [Rfqs -> RfqOK] BY DEF PInv, TypeOK
  <2>2. CASE UNCHANGED rfq BY <2>2
  <2>3. ASSUME NEW i \in Rfqs, NEW items \in Requests, NEW procurement \in BOOLEAN,
               submit_rfq(i, items, procurement)
        PROVE  Kept
    <3>1. rfq[i].procurement = FALSE BY <2>3 DEF submit_rfq, NoRfq
    <3>2. \A j \in Rfqs : j # i => rfq'[j] = rfq[j] BY <2>1, <2>3 DEF submit_rfq
    <3> QED BY <3>1, <3>2
  <2>4. ASSUME NEW s \in Sessions, issue_quote(s) PROVE Kept
    <3>1. sess[s].rfq \in Rfqs BY <2>4 DEF issue_quote, PInv, Locks, Free
    <3>2. PICK q \in RfqOK : /\ rfq' = [rfq EXCEPT ![sess[s].rfq] = q]
                             /\ q.status = "quoted" /\ q.conversion = 0
                             /\ q.procurement = rfq[sess[s].rfq].procurement
                             /\ q.price = sess[s].price /\ q.cap = sess[s].cap
      BY <2>4, <3>1, QuoteWrites DEF PInv
    <3> QED BY <2>1, <3>1, <3>2
  <2>5. ASSUME NEW s \in Sessions, convert_rfq_to_order(s) PROVE Kept
    <3>1. sess[s].rfq \in Rfqs BY <2>5 DEF convert_rfq_to_order, PInv, Locks, Free
    <3>2. PICK o \in OrderIds, q \in RfqOK, r \in OrderOK : Converts(sess[s].rfq, o, q, r)
      BY <2>5, <3>1, ConversionWrites DEF PInv
    <3> QED BY <2>1, <3>1, <3>2 DEF Converts
  <2>6. \/ UNCHANGED rfq
        \/ \E i \in Rfqs, items \in Requests, procurement \in BOOLEAN :
              submit_rfq(i, items, procurement)
        \/ \E s \in Sessions : issue_quote(s) \/ convert_rfq_to_order(s)
    BY DEF Next, _existing_conversion_response, BeginConvert, BeginQuote, Rollback,
           reserve_checkout_stock, release_order, apply_authoritative_quantity,
           ChangeListPrice, cancel, Midnight
  <2> QED BY <2>2, <2>3, <2>4, <2>5, <2>6
<1> QED BY <1>1, ProcurementInvariant, PTL DEF Spec, ContextSurvives
===============================================================================
