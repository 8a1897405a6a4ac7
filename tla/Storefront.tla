------------------------------ MODULE Storefront ------------------------------
(***************************************************************************)
(* Carts and checkout, up to the moment payment takes over (that is        *)
(* OrderLifecycle).                                                        *)
(*                                                                         *)
(* A request reads the cart, its rows and the stock without a lock and     *)
(* writes at its end: Begin remembers what was read, Finish writes.  No    *)
(* constraint keeps an owner to one active cart, quantities are written as *)
(* absolute values, and the only guard against overselling is the          *)
(* conditional UPDATE inside checkout.                                     *)
(***************************************************************************)
EXTENDS Integers, FiniteSets, FiniteSetsExt

CONSTANTS
    Customers,      \* each has a guest session (its browser) and an account
    Products,
    Dropshipped,    \* products that are never taken from local stock
    InitialStock,   \* stock_qty at the start, by product
    Sessions,       \* requests in flight at once
    MaxCarts, MaxItems, MaxOrders,  \* bounds on the rows ever inserted
    MaxWanted       \* bound on the units in a cart, by product

ASSUME StorefrontAssumption ==
    /\ IsFiniteSet(Products) /\ "none" \notin Products /\ Dropshipped \subseteq Products
    /\ InitialStock \in [Products -> Nat]
    /\ MaxCarts \in Nat /\ MaxItems \in Nat /\ MaxOrders \in Nat /\ MaxWanted \in Nat

CartIds  == 1..MaxCarts
ItemIds  == 1..MaxItems
OrderIds == 1..MaxOrders
Owners   == Customers \X {"guest", "user"}

VARIABLES
    stock,      \* ProductTemplate.stock_qty
    carts,      \* elitedom_cart
    items,      \* elitedom_cart_item
    orders,     \* sale_order with its lines
    sess,       \* the requests in flight and what each has read
    wanted,     \* history: the units a customer has asked for, until requests overlap
    overlapped  \* history: customers that had two requests in flight

storefrontVars == <<stock, carts, items, orders, sess, wanted, overlapped>>

Nobody  == <<"nobody", "none">>
NoCart  == [owner |-> Nobody, is_active |-> FALSE]
NoItem  == [cart |-> 0, product |-> "none", quantity |-> 0]
NoOrder == [owner |-> Nobody, cart |-> 0, lines |-> [p \in Products |-> 0], state |-> "none"]
Free    == [op |-> "none", owner |-> Nobody]

StorefrontInit ==
    /\ stock = InitialStock
    /\ carts = [i \in CartIds |-> NoCart]
    /\ items = [i \in ItemIds |-> NoItem]
    /\ orders = [i \in OrderIds |-> NoOrder]
    /\ sess = [s \in Sessions |-> Free]
    /\ wanted = [c \in Customers |-> [p \in Products |-> 0]]
    /\ overlapped = {}

-------------------------------------------------------------------------------
(* Reading rows *)

\* Ids are serial columns: the next one is the least that was never used.
Unused(table, empty) == {i \in DOMAIN table : /\ table[i] = empty
                                              /\ \A j \in DOMAIN table : j < i => table[j] # empty}

ActiveCarts(w) == {i \in CartIds : carts[i].owner = w /\ carts[i].is_active}

\* The newest active cart of the owner, 0 when there is none.
_find_cart(w) == Max(ActiveCarts(w) \cup {0})

\* The rows of a cart.  A removed row keeps its id and belongs to no cart.
_load_cart(cart) == [i \in {j \in ItemIds : items[j].cart = cart /\ cart # 0} |-> items[i]]

Rows(view, p) == {i \in DOMAIN view : view[i].product = p}
Quantity(view, p) == MapThenSumSet(LAMBDA i : view[i].quantity, Rows(view, p))

Sellable(p, q) == p \in Dropshipped \/ stock[p] >= q

-------------------------------------------------------------------------------
(* What a request reads and refuses before it writes anything.  A definition   *)
(* named faulty_* is no part of the code: it is the one after it with a        *)
(* plausible mistake, and shows that a property notices it.                    *)

Begin(s, w, op, product, item, quantity, guest) ==
    /\ sess[s] = Free
    /\ sess' = [sess EXCEPT ![s] =
          [op |-> op, owner |-> w, cart |-> _find_cart(w), view |-> _load_cart(_find_cart(w)),
           product |-> product, item |-> item, quantity |-> quantity,
           guest |-> guest, gview |-> _load_cart(guest)]]
    /\ IF \E z \in Sessions : sess[z].owner[1] = w[1]
       THEN /\ overlapped' = overlapped \cup {w[1]}
            /\ wanted' = [wanted EXCEPT ![w[1]] = [p \in Products |-> 0]]
       ELSE UNCHANGED <<overlapped, wanted>>
    /\ UNCHANGED <<stock, carts, items, orders>>

BeginGet(s, w) == ActiveCarts(w) = {} /\ Begin(s, w, "get", "none", 0, 0, 0)

BeginAdd(s, w) ==
    \E p \in Products :
       /\ Quantity(_load_cart(_find_cart(w)), p) < MaxWanted
       /\ Sellable(p, Quantity(_load_cart(_find_cart(w)), p) + 1)
       /\ Begin(s, w, "add", p, 0, 1, 0)

BeginUpdate(s, w) ==
    \E i \in DOMAIN _load_cart(_find_cart(w)), q \in 1..MaxWanted :
       /\ Sellable(items[i].product, q)
       /\ Begin(s, w, "update", items[i].product, i, q, 0)

BeginRemove(s, w) ==
    \E i \in DOMAIN _load_cart(_find_cart(w)) : Begin(s, w, "remove", items[i].product, i, 0, 0)

BeginCheckout(s, w) ==
    /\ DOMAIN _load_cart(_find_cart(w)) # {}
    /\ \A p \in Products : Sellable(p, Quantity(_load_cart(_find_cart(w)), p))
    /\ Begin(s, w, "checkout", "none", 0, 0, 0)

\* Two active guest carts make scalar_one_or_none raise: the request fails.
BeginSync(s, w) ==
    LET guest == <<w[1], "guest">> IN
    /\ w[2] = "user"
    /\ Cardinality(ActiveCarts(guest)) <= 1
    /\ Begin(s, w, "sync", "none", 0, 0, _find_cart(guest))

-------------------------------------------------------------------------------
(* What a request writes.  r is the request with what it has read. *)

\* The history is kept while it is used: for customers that never overlapped.
Wanted(r, by) == wanted' = IF r.owner[1] \in overlapped THEN wanted
                           ELSE [wanted EXCEPT ![r.owner[1]][r.product] = @ + by]

\* The cart the request found, or a new one.
Target(r) == IF r.cart = 0 THEN Unused(carts, NoCart) ELSE {r.cart}
Opened(k, r) == IF r.cart = 0 THEN [carts EXCEPT ![k] = [owner |-> r.owner, is_active |-> TRUE]]
                ELSE carts

get_cart(r) == /\ \E k \in Target(r) : carts' = Opened(k, r)
               /\ UNCHANGED <<stock, items, orders, wanted>>

faulty_Sum(r, old) == r.quantity

\* The new quantity of a row that was in the cart: the one read plus the request.
Sum(r, old) == old.quantity + r.quantity

\* A row of the product is overwritten, also when its cart is closed by now; a row
\* deleted meanwhile fails the flush.
add_to_cart(r) ==
    LET mine == Rows(r.view, r.product) IN
    /\ IF mine = {}
       THEN \E k \in Target(r), i \in Unused(items, NoItem) :
               /\ carts' = Opened(k, r)
               /\ items' = [items EXCEPT ![i] = [cart |-> k, product |-> r.product,
                                                 quantity |-> r.quantity]]
       ELSE /\ items[Min(mine)].cart # 0
            /\ items' = [items EXCEPT ![Min(mine)].quantity = Sum(r, r.view[Min(mine)])]
            /\ UNCHANGED carts
    /\ Wanted(r, r.quantity)
    /\ UNCHANGED <<stock, orders>>

\* The ORM writes nothing when the quantity is the one it read.
update_cart_item(r) ==
    LET old == r.view[r.item].quantity IN
    /\ r.quantity # old => items[r.item].cart # 0
    /\ items' = [items EXCEPT ![r.item].quantity = IF r.quantity = old THEN @ ELSE r.quantity]
    /\ Wanted(r, r.quantity - old)
    /\ UNCHANGED <<stock, carts, orders>>

Removed(i) == [items[i] EXCEPT !.cart = 0, !.quantity = 0]

\* Deleting a row that is gone only logs a warning.
remove_from_cart(r) ==
    /\ items' = [items EXCEPT ![r.item] = Removed(r.item)]
    /\ Wanted(r, -r.view[r.item].quantity)
    /\ UNCHANGED <<stock, carts, orders>>

\* Every row of the guest cart is added to the user's row of that product, or
\* moved over; the guest cart is closed.
sync_cart(r) ==
    LET into(g) == Rows(r.view, r.gview[g].product)
        merged  == {g \in DOMAIN r.gview : into(g) # {}}
        added(i) == MapThenSumSet(LAMBDA g : r.gview[g].quantity,
                                  {g \in merged : Min(into(g)) = i})
        written == (DOMAIN r.gview \ merged) \cup {i \in DOMAIN r.view : added(i) > 0}
    IN /\ \A i \in written : items[i].cart # 0
       /\ \E k \in Target(r) :
             /\ carts' = [i \in CartIds |-> IF i = r.guest
                                            THEN [carts[i] EXCEPT !.is_active = FALSE]
                                            ELSE Opened(k, r)[i]]
             /\ items' = [i \in ItemIds |->
                   IF i \in merged THEN Removed(i)
                   ELSE IF i \in DOMAIN r.gview THEN [items[i] EXCEPT !.cart = k]
                   ELSE IF i \in written
                        THEN [items[i] EXCEPT !.quantity = r.view[i].quantity + added(i)]
                        ELSE items[i]]
       /\ UNCHANGED <<stock, orders, wanted>>

faulty_reserve_non_dropship_stock(lines) ==
    stock' = [p \in Products |-> IF p \in Dropshipped THEN stock[p] ELSE stock[p] - lines[p]]

\* The conditional UPDATE of every local product: all of them or a rollback.
_reserve_non_dropship_stock(lines) ==
    /\ \A p \in Products \ Dropshipped : stock[p] >= lines[p]
    /\ stock' = [p \in Products |-> IF p \in Dropshipped THEN stock[p] ELSE stock[p] - lines[p]]

\* The order with its lines, the stock, and the cart is closed; only a card payment
\* leaves the order in draft.
checkout(r) ==
    LET lines == [p \in Products |-> Quantity(r.view, p)] IN
    /\ _reserve_non_dropship_stock(lines)
    /\ \E o \in Unused(orders, NoOrder), state \in {"draft", "sent"} :
          orders' = [orders EXCEPT ![o] = [owner |-> r.owner, cart |-> r.cart,
                                           lines |-> lines, state |-> state]]
    /\ carts' = [carts EXCEPT ![r.cart].is_active = FALSE]
    /\ UNCHANGED <<items, wanted>>

End(s) == /\ sess' = [sess EXCEPT ![s] = Free]
          /\ UNCHANGED overlapped

FinishGet(s)      == sess[s].op = "get"      /\ get_cart(sess[s])         /\ End(s)
FinishAdd(s)      == sess[s].op = "add"      /\ add_to_cart(sess[s])      /\ End(s)
FinishUpdate(s)   == sess[s].op = "update"   /\ update_cart_item(sess[s]) /\ End(s)
FinishRemove(s)   == sess[s].op = "remove"   /\ remove_from_cart(sess[s]) /\ End(s)
FinishSync(s)     == sess[s].op = "sync"     /\ sync_cart(sess[s])        /\ End(s)
FinishCheckout(s) == sess[s].op = "checkout" /\ checkout(sess[s])         /\ End(s)

\* Sold out meanwhile, a gateway error, a deadlock victim, a row that is gone:
\* get_db rolls the request back.
Rollback(s) == /\ sess[s] # Free
               /\ End(s)
               /\ UNCHANGED <<stock, carts, items, orders, wanted>>

StorefrontNext ==
    \E s \in Sessions :
       \/ \E w \in Owners : \/ BeginGet(s, w)    \/ BeginAdd(s, w)  \/ BeginUpdate(s, w)
                            \/ BeginRemove(s, w) \/ BeginSync(s, w) \/ BeginCheckout(s, w)
       \/ FinishGet(s)    \/ FinishAdd(s)  \/ FinishUpdate(s)
       \/ FinishRemove(s) \/ FinishSync(s) \/ FinishCheckout(s)
       \/ Rollback(s)

StorefrontSpec == StorefrontInit /\ [][StorefrontNext]_storefrontVars

-------------------------------------------------------------------------------
(* Properties *)

Ordered(p) == MapThenSumSet(LAMBDA o : orders[o].lines[p], OrderIds)

\* orders/service.py:537, "conditional, atomic decrements": whatever carts and
\* checkouts run at once, also two of the same cart, no unit is sold twice.
NothingOversold ==
    \A p \in Products \ Dropshipped : stock[p] >= 0 /\ stock[p] + Ordered(p) = InitialStock[p]

OrderedBy(c, p) == MapThenSumSet(LAMBDA o : orders[o].lines[p],
                                 {o \in OrderIds : orders[o].owner[1] = c})

\* orders/router.py:96, :105: as long as a customer has one request in flight at a
\* time, what they asked for is in the cart they see, as guest or signed in, or
\* was ordered, once: no synchronisation, closed cart or removed row loses or
\* doubles a unit.
CartUnitsAccounted ==
    \A c \in Customers \ overlapped, p \in Products :
       wanted[c][p] = OrderedBy(c, p) + Quantity(_load_cart(_find_cart(<<c, "user">>)), p)
                                      + Quantity(_load_cart(_find_cart(<<c, "guest">>)), p)
===============================================================================
