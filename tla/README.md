# Elitedom Commerce Platform: TLA+ models and proofs

This directory models the part of the platform where money, stock, parcels,
accounts and the catalogue meet concurrency: the FastAPI backend under
`src/elitedom-store/backend/app` (paths below are relative to it), the PostgreSQL
rows it keeps, the Celery workers beside it, the Odoo add-on under
`src/elitedom-store/odoo/addons/elitedom_connector`, and the outside systems that
call the backend: Paymob, Stripe and Odoo.

| component module | instance | proofs | about |
| --- | --- | --- | --- |
| `Outbox`, `AtLeastOnceHandoff` | `MC_Outbox`, `Outbox.cfg` | `CheckoutProofs` | the transactional outbox and its dispatchers; what an outbox promises |
| `OrderHandlers`, `OrderLifecycle` | `MC_OrderLifecycle`, `Order_*.cfg` | `OrderLifecycleProofs` | each handler of an order as a function on its rows; the handlers run concurrently |
| `Inventory` | `MC_Inventory`, `Inventory.cfg` | `ProductProofs` | sellable stock against the stock Odoo owns |
| `Storefront` | `MC_Storefront`, `Storefront.cfg` | `CheckoutProofs` | carts and checkout |
| `Connector` | `MC_Connector`, `Connector.cfg` | `ConnectorProofs` | the order task towards Odoo, the add-on's webhook outbox towards the store |
| `Accounts` | `MC_Accounts`, `Accounts.cfg` | `AccountsProofs` | sign-in, sessions, phone codes, MFA, staff roles |
| `AfterSales` | `MC_AfterSales`, `AfterSales.cfg` | `CustomerProofs` | loyalty points, legacy Stripe events, warranty claims |
| `Portal` | `MC_Portal`, `Portal.cfg` | `CustomerProofs` | address book, wishlist and profile of a customer |
| `Procurement` | `MC_Procurement`, `Procurement.cfg` | `ProcurementProofs` | RFQs of institutional buyers, quotes, conversion to orders |
| `Catalogue` | `MC_Catalogue`, `Catalogue.cfg` | `ProductProofs` | publication, media, categories, attributes, search index |

`PROJECT.json` has the runs, mutants, source map, findings, hazards and theorems.
Run a model with `tlc -config X.cfg M`, where `M` is the `MC_` module, and the
proofs with `tlapm M.tla`, where `M` is `UnitSums` or a `*Proofs` module. Three proof modules
treat two components each; the second one's `Init`, `Next`, `Spec` and `vars` have a prefix
(`StorefrontSpec`, `AfterSalesSpec`, `CatalogueSpec`) so that the two share no name.

## 1. Inventory of the system

| component | state | operations | interacts with |
| --- | --- | --- | --- |
| Transactional outbox (`shared/outbox.py`, `shared/outbox_tasks.py`) | `elitedom_outbox_event`: status, attempts, `available_at`, `locked_until` | enqueue in the business transaction, claim, send, four mark transactions | every module that publishes an event; Celery broker; beat every 15 s |
| Cart and orders (`modules/orders`) | `Cart`, `CartItem`; `SaleOrder` (state, payment status, `stock_reservation_released`) | get, add, update, remove, merge; checkout, status route, cancel route | inventory, payments, fulfilment |
| Payments (`modules/payments`) | `PaymentAttempt`, `PaymentRefund` | succeeded, failed, refunded, refund request | Paymob callbacks, cancellation, the refund route |
| Paymob (`integrations/paymob`) | `PaymentWebhookEvent` receipts | verify, register once, bind, apply | payments; outside: Paymob |
| Fulfilment (`modules/fulfillment`) | `OrderFulfillment` | cancel, confirm, force forward, customer cancellation | payments, shipping, Odoo |
| Shipping (`modules/shipping`) | `StockPicking`, `Shipment` legs | dispatch, mark delivered, supplier update | fulfilment, reservations |
| Suppliers (`modules/suppliers`) | `PurchaseOrder`, `Supplier`, `ProductSupplier` | create for a paid dropship order, status updates; verify, link | payments, shipping, catalogue |
| Inventory (`modules/inventory`) | `stock_qty`, `InventoryReservation`, `InventorySourceBalance` | reserve, release, re-reserve, consume, project a snapshot, adjust | orders, shipping, Odoo, procurement |
| Odoo (`integrations/odoo`) | `WebhookReceipt`, `SaleOrder.odoo_order_id` | inventory, order-status and catalogue webhooks; periodic sync; outbound order task | inventory, fulfilment, outbox |
| Odoo add-on (`elitedom_connector`) | `elitedom_webhook_outbox` | enqueue from Odoo records, claim, send, retry, dead-letter, purge | the Odoo webhooks |
| Stripe (`integrations/stripe`) | `StripeWebhookEvent` | legacy checkout session and callbacks | orders, stock |
| Authentication (`modules/auth`) | `AuthSession`, `OtpChallenge`, `AuthIdentity`, `AdminMfaCredential` | sign in, refresh rotation, revoke, recover, enrol | every route |
| Administration (`modules/admin`) | staff roles and overrides, audit rows | change access; image and supplier routes; dashboards | accounts, catalogue |
| Loyalty, warranty | `LoyaltyLedger`; `RMATicket` | award, redeem; claim, review | orders |
| B2B procurement (`modules/b2b`) | `B2BRFQ` with its items, price rules | submit, quote, convert | orders, stock, list prices |
| Customers (`modules/customers`) | `CustomerAddress`, `WishlistItem`, `Partner` | address book, wishlist, profile | accounts, catalogue |
| Catalogue (`modules/products`) | `ProductTemplate`, content, `ProductImage`, categories, attributes; the media store | edit, publish, upload, reorder, remove, move, define | suppliers, Odoo, search |
| Search (`integrations/algolia`) | the index outside | index task of a product event | outbox, catalogue |
| Mail, SMS, ledger integrations | none | one outbound call each | outbox |
| Reporting, middleware, frontend, infrastructure | - | - | - |

What is hard:

- **Unlocked reads.** Sessions run at PostgreSQL's READ COMMITTED. Many routes load
  rows before they lock them, or lock nothing, and `SELECT ... FOR UPDATE` on an
  object that is already in the SQLAlchemy session returns it with the attributes
  first read. The flush writes only attributes that differ from what was read.
- **Callbacks** of Paymob, Stripe and Odoo arrive late, twice and out of order, and
  race the customer, the warehouse and the back office.
- **Two owners of stock.** Odoo reports absolute quantities of the past, the store
  moves its own number at every checkout, release, conversion and shipment.
- **Workers** die, hold a lease longer than it lasts, or are retried after the other
  side has done its part.
- **Orders of two legs**: the order's status is derived from both.
- **Files and search records** take no part in the database transaction.

What makes the components correct, in one line each: no committed event is lost or
recorded as sent without being sent; units are neither created, lost nor promised
twice; a cancelled order holds neither stock nor money; nothing follows from a
payment that was not made; fulfilment moves forward only; what is for sale is
physically there; a code, a refresh token, an RFQ and a webhook event are used once;
a change of a staff role reaches the sessions of its owner; what the shop shows is sourced,
has a primary image, a place in the tree and an entry in the search index.

## 2. The modules

In all of them a *session* (or *request*) is a transaction in flight. An operation
whose first statement takes the lock its decision needs is one action. An operation
that reads first is two: `Begin*` remembers what was read or locked, the action named
after the method writes; what it remembers may be out of date by then. A rollback
changes no row. Variables marked "history" in their declaration are no columns: they
record what has happened, so that a property can speak of it.

Definitions named `faulty_*` (and `repriced_*`) are no part of the system. Each is the
definition after it with a plausible mistake; `PROJECT.json` lists which property
notices it.

### Outbox

State: per row `status`, `attempts`, `due` (`available_at` reached) and `lease`
(`locked_until`: null, in the future, passed); per worker the `batch` it claimed
and the `job` in hand; `handed` counts what the broker took (a history of the
broker, not a column).

| action | code |
| --- | --- |
| `enqueue`, `get_db` | `OutboxService.enqueue`; commit or rollback of the request transaction |
| `_claim_due_events` | the claim, one step: `FOR UPDATE SKIP LOCKED` keeps its rows |
| `RejectEvent`, `send_task` | the body of the loop in `dispatch_pending_outbox`; the broker call may fail before or after the message was taken |
| `ReadRow`, `WriteRow` | the four mark transactions, which do **not** lock: `db.get`, then the flush |
| `Crash`, `LeaseLapses`, `BackoffElapses` | a worker dies; 120 s pass; the back-off passes |

A worker whose lease lapsed can therefore overwrite the outcome of a newer claim,
and even reopen a settled row. `WorkInHand` says what remains true then: whatever
a worker is about to write is justified by the history of that event.

`AtLeastOnceHandoff` is the promise of both outboxes, this one and the Odoo add-on's
(`Connector`): an event becomes owed when its transaction commits, may be delivered any
number of times, is acknowledged only after a delivery or abandoned on the record, and may
be reopened, never forgotten. One commit may report about several events, as a transaction of
the add-on's cron does. `ImplementsHandoff` states in each of the two modules that it
refines the promise (mapping: `AbsLedger`; delivered are the events with a hand-off, or with
a receipt of the store).

### OrderHandlers and OrderLifecycle

A *view* gathers the columns of all rows of one order. `OrderHandlers` has one
operator per handler, from the view the handler sees and the product's stock to
the rows it leaves, the stock and an outcome; `"error"` is an exception, after
which `get_db` rolls everything back. `OrderLifecycle` runs them:

- a handler whose first statement locks is one action (`RequestRefund`,
  `MarkDelivered`, `UpdatePurchaseOrder`, `OdooOrderStatus`, `Checkout`);
- a handler that reads first is two: `Begin` remembers the columns in
  `Unlocked(op)`, `Finish` computes on that view. `ReadLate(op)` are the columns of
  the *other* leg, read while the handler holds its own lock: either value may be
  seen;
- `Flush` writes only attributes that the handler changed with respect to what it
  read, as the ORM does.

Paymob is external: `PaymobMoves` changes a transaction's state and adds its
callback to the set `callbacks`, from which it may be delivered in any order. A
callback that raised may be delivered again; one that committed leaves its event
key in `receipts`, and a repeated delivery does nothing.

Abstractions: one product, shared by the orders of an instance; at most one local and
one dropship line per order, one active supplier, hence one purchase order; amounts,
addresses, serial lots, carrier data and messages are left out; a dispatch that read no
picking may find one when it writes, and then either fails because its reference is taken
or, with a reference of its own, adds a second picking and shipment, of which the rows
keep the latest (`Taken`); `mark_delivered` takes either shipped leg;
`consumed_pending_source` and `consumed` are one status here (the difference is what
`Inventory` is about); Odoo's `draft` status never passes `_can_apply_fulfillment` and
is left out; `ReadLate` also allows a value somewhat older than the lock would, which
adds behaviours.

### Inventory

State: `stock` (available to sell), reservations with `consumed_at`, the source
balance, and Odoo's `onHand` with its clock. The webhook and the sync read the sum
of the active reservations and write the projected stock in different steps, and
the locks between them are those of the code (`ProductFree`, `BalanceFree`): the
webhook holds the product and the balance, the sync only the balance until its
final update, release and re-reservation only the product, a shipment neither.
`SyncFetches` reads Odoo's quantity some time before the page is applied. `periodic`
says whether the sync is scheduled; the run has both cases.

Assumed of Odoo: its quantity falls no later than the shipment is recorded here, and
no two of its movements carry the same timestamp. A request that PostgreSQL aborts as
a deadlock victim changes nothing, so only the sync has an abort action. One webhook
is in progress at a time, because the product row is locked for all of it.

### Storefront

`orders/service.py` up to the order: carts, their rows, the stock, the order with its
lines. Every operation on a cart reads without a lock and writes absolute quantities.
`checkout` writes the order from the lines it read at its `Begin`; the only guard is
`_reserve_non_dropship_stock`, the conditional `UPDATE` of every local product. No
constraint keeps an owner to one active cart, so the merge of a guest cart refuses
when it finds two. `wanted` is what a customer asked for, kept only for customers
outside `overlapped`; two overlapping checkouts of one cart place two orders, and
`NothingOversold` says what remains true then.

### Connector

Two directions about one order. Towards Odoo, each of `Tasks` is a Celery delivery of
`sync_order_to_odoo`; every remote call is an action, may fail after Odoo did its part
and restarts the task (`_retry`); `WorkerCrash` loses it, since Celery acknowledges
early. Towards the store, `outbox` holds the add-on's rows **as committed**: the cron
transaction claims (`_claim_batch`, skip locked), posts (`_dispatch_one`, four answers)
and commits all outcomes at its end (`_cron_dispatch`), or crashes and forgets what it
has sent, while the store keeps `receipts`. A row is `"none"` until Odoo's business
transaction commits it, and `"purged"` after the retention period.

### Accounts

`register`, `login`, `oauth_login` and `verify_phone_otp` create sessions; refresh,
recovery, logout, MFA and staff changes maintain them. `req[r]` holds what a request has
read or locked. A refresh holds its session row, a verification its challenge row, a
staff change its target's partner row. A sign-in has three steps: it reads (`Begin*`),
inserts its session with the role it read (`_issue_tokens`) and commits (`login`,
`oauth_login`, `verify_phone_otp`). Between the last two the row is in the table and no
other request sees it (`Inserted`, `Live`), and the foreign key shares the partner's row:
a staff change waits for it, and an insert waits for a staff change (`KeyShared`,
`PartnerLocked`). Nothing else does: the `UPDATE` of a logout of all devices or of a
recovery (`RevokeAll`) passes by a session that is not committed yet. Unique indexes make
a late insert fail (`Violates`) or wait for one that may still fail (`Conflicts`).
`overtaken` are sessions whose sign-in read a role that a staff change replaced before the
insert; they keep it until their first refresh. `skewed` says that a staff change was
committed on a count of administrators that another change had overtaken. Tokens and codes
are numbers or opaque: hashing, rate limits and the resend interval are left out; a
recovery code is a second way to `verify`. A session remembers the role in the token last
issued; permissions never come from it (`resolve_permissions`), what a client shows does.

### AfterSales

Three operations that meet on an order: loyalty (`redeem_for_order` locks the customer's row and
reads the order without a lock), the Stripe events of orders placed before Paymob
(`process_stripe_event` with its receipt; `_release_order_stock` moves stock but not the
reservation row), and warranty (claim and review lock nothing; the code tells claims apart by
order, product and serial number, an order stands here for one such line). `PaymobSucceeded`,
`PaymobFailed`, `Complete` and `cancel` are the order handlers as far as these three can see
them; the whole handlers are in `OrderHandlers`. Nothing in the repository calls
`earn_points_for_order` or the reward voucher, so their caller is outside. `contested` marks
orders of which two warranty requests on that line were in flight, or that staff cancelled after
a Stripe failure had released them.

### Portal

The customer's own rows, so one customer stands for all. `desk` limits a behaviour to one
part of the portal, since no row is shared between them. A request on the address book
reads twice (`Begin*`, `Second`) and writes once; `Cleared`, `Replacement` and `Promoted`
are the rows it clears, the address that takes the mark over, and whether that is written.
`_get_or_link_oauth_partner` is the sign-in of `Accounts` as far as the email's mark goes.
`raced` is set when two requests are in flight, `failed` when one ends in an unexpected
database error.

### Procurement

Quote and conversion lock the RFQ (`Locked`) from the first read to the commit; list
price and price rules are read unlocked, the products of a conversion are locked and
lowered together. `_existing_conversion_response` answers a repeated conversion.
`reserve_checkout_stock`, `release_order`, `apply_authoritative_quantity`, `cancel` and
`ChangeListPrice` are what the rest of the system does to the same rows. `answers` is the
history of orders a conversion was answered with, `cap` the list price of the day of the
quote.

### Catalogue

One product. `desk` chooses the topic of a behaviour: publication, media, categories,
attributes, search. The product routes read the product for the audit before they lock it
(`update_product`, `delete_product`, `update_product_content` decide on `read`, and
`Written` writes only columns that differ from it). Images exist in two generations of
routes: the catalogue's (`older` false) deletes a file after the commit and a new file
after a rollback (`database.py`), the administrator's (`older` true) does it itself.
`lost` are files whose image stayed although the older route had deleted them, `leaked`
files left behind by a crash, by a refusal of the store or by the older route. Names,
texts, prices, filters and pages are left out.

Each route that writes the product, and Odoo's event, leaves a row in the outbox
(`Changed`), which routes it to the index task (`shared/outbox_tasks.py:111-117`; the first
lines of `integrations/algolia/tasks.py` still say that the tasks are not wired to it).
`queued` says that such an event waits, in the outbox or at the broker: how many there are
makes no difference, since a task reads the product when it runs, so `BeginIndex` may leave
more of them. A task reads in one step (`Task`) and sends in another (`index_product`), is
retried from its start (`_retry`) or given up (`GiveUp`). `outdated` are the tasks that read
before the last change, `entry` what became of that change: due, done, or lost when its
last event (`DeadLetter`) or task was given up or an outdated task overwrote the entry,
against which the code has no guard. The tasks `delete_product` and `reindex_catalog` are
called by nothing and left out.

## 3. The runs

| run | instance | distinct states | shows |
| --- | --- | --- | --- |
| `Outbox` | 3 events (routed, echo of Odoo, malformed), 2 workers, 2 attempts, 1 crash, 1 overrun | 252,249 | a row says dispatched only after a hand-off and dead only when exhausted, the refinement, every committed event settles |
| `Order_payment` | an electronic two-leg order and a COD order compete for one unit, 2 requests in flight; callbacks, both cancellations, refunds, purchase orders, Odoo's cancellation | 1,738,590 | stock is conserved, cancelled orders hold none, nothing follows from an unpaid order |
| `Order_apart` | a two-leg order, 2 transactions with at most 3 callbacks, two requests in flight that overlap in every way but those of `LegsApart` (a constraint of the run); all operations but purchase-order edits | 1,515,798 | refunds, shipped units and legs agree, refunds are final and nothing is reopened |
| `Inventory` | orders of 1 and 2 units, 2 in stock, 1 received, with and without the sync | 341,580 | late and reordered snapshots of the webhook never oversell; with the sync too, source time advances and shipments are reconciled |
| `Storefront` | a guest and a user cart, 2 units, 2 requests in flight, 3 carts, 2 rows, 2 orders | 1,358,863 | no unit is sold twice; without overlap no unit of a cart is lost or doubled |
| `Connector` | 2 task deliveries, 1 retry, 2 Odoo ids, 1 event, 2 attempts | 224,634 | an event has its effect once and settles, its outbox implements `AtLeastOnceHandoff`; Odoo follows the store; retries create nothing twice |
| `Accounts` | 2 accounts, 2 sessions, 1 code with 2 attempts, 2 requests in flight | 1,159,961 | tokens and codes are used once; sessions carry the role their owner has; a verified session is enrolled; an administrator remains unless counts were overtaken |
| `AfterSales` | 2 web orders or 2 Stripe orders with 3 events each, price and points 2, 2 claims, 2 requests | 250,778 | points are covered; Stripe units are accounted for; one active claim of an order line |
| `Portal` | 3 addresses, 1 product, 2 accounts, 3 mailboxes, 2 requests | 45,583 | one default remains; a verified email is proven |
| `Procurement` | 2 RFQs, a local and a dropshipped product, 2 price rules, 2 orders, 2 sessions | 686,250 | one order per RFQ, at the quoted prices; the buyer's context survives |
| `Catalogue` | 1 supplier, 2 images, 3 categories, 4 edits, 2 requests or tasks, each topic by itself, the product also together with its index | 830,245 | what is on sale is sourced; one primary image; files follow images; the categories form a tree; values match their definition; the index agrees |

One run is violated by design, by a statement of the repository that the code does not
keep: `Order_stale_cancel`. The cancel route (`modules/orders/router.py:325`, "requesting
refunds once") reads the order without a lock; a success callback commits in between, and
the order is cancelled and paid with no refund requested.

**Seen in the same models, without a run of their own.** Each of these can be repeated by
checking the named property under the bounds of the run:

| property | bounds | statement and what happens instead |
| --- | --- | --- |
| `OperationsCancelIsFinal` | `Order_payment` | `modules/payments/transitions.py:38`: an order cancelled by the status route is reopened by a late success |
| `OnlyUnshippedIsCancelled` | `Order_apart` | `modules/fulfillment/cancellation.py:21`: an order with one leg on the road is cancelled |
| `ShippedUnitsWereWithheld` | `Order_apart` without its constraint | `modules/inventory/reservations.py:31`: units released by a cancellation are shipped |
| `SyncKeepsReservations` | `Inventory` | `integrations/odoo/tasks.py:86`: a re-reservation is put back on sale by the sync |
| `OneOdooOrder` | `Connector` | `docs/CATALOG_AND_ODOO.md:36`: two deliveries of the task both find the order absent and both create it |
| `AdminRemains` | `Accounts` | `modules/admin/access_service.py:209`: two changes count each other's administrator, and none is left |
| `RecoveryEndsSessions` | `Accounts` | `modules/auth/password_recovery.py:62`: a session that a sign-in has inserted and not committed survives the recovery, which locks no partner row |
| `PointsBuyADiscount` | `AfterSales` | `modules/loyalty/service.py:165`: a payment commits between the redemption's read of the order and its commit, at the full amount |
| `NothingOversold` | `Procurement` | `modules/b2b/service.py:293`: a conversion leaves no reservation row, so the next snapshot of Odoo offers its units again |
| `EveryImageHasItsFile` | `Catalogue` | `database.py:59`: the older image route deletes the file before its commit, which may fail |

Met while modelling, without a property: a batch whose lease lapses is sent by two workers
although none crashed (`shared/outbox_tasks.py:158`; the refinement allows it); a void
overwrites the status of a captured payment whose refund is requested
(`modules/payments/transitions.py:97`); a late pending callback undoes a succeeded attempt
(`integrations/paymob/webhooks.py:308`); a payment with a second card is rejected for its
transaction id (`modules/payments/transitions.py:26`); a delivered leg can be dispatched again
(`modules/shipping/service.py:276`); a purchase order cancelled after the local leg was
dispatched completes the set of required legs, and nothing moves the order on
(`modules/suppliers/service.py:217`); a stale page of the sync offers a shipped unit again
(`modules/inventory/source_sync.py:22`), which is why `SellableIsBacked` excludes the sync; a
session that is inserted and not committed yet survives a logout of all devices too
(`modules/auth/service.py:336`); a sign-in that read the role before a staff change keeps it
until its first refresh (`modules/admin/access_service.py:237`; `overtaken`); an index task that
read the product before a change overwrites the entry of a later task
(`integrations/algolia/tasks.py:104`); two legs that ship in overlapping transactions each miss
the other, which is why `LegsAreReflected` is checked and proved under `LegsApart`; the Paymob
intention is created inside the checkout transaction (`modules/orders/service.py:457`), so a
rollback leaves one without an order.

**Constraints.** `Order_apart` cuts off the states in which two requests overlap as `LegsApart`
says they do not: the hypothesis of the theorems (section 4), where the smaller hypothesis that
each property needs is told from it. `FewCallbacks` cuts off what follows a fourth report of the
provider; a failure, the success of a second transaction and its refund fit below it.
`SomeSessionIsLeft` stops `Accounts` when both sessions have ended: no token is left then and
nobody can sign in again. `PlainProducts` starts the publication of `Catalogue` with an image,
without which nothing is published, and leaves dropshipping out where the search index is there
too, which does not look at it. `Accounts` counts states by the view `Readable`, which forgets
what nobody reads any more: the token and the role of a session that has ended, the answers to a
code that is used up, a phone number once its subject is linked, and what a sign-in holds of a
role that it has already written.

**Exceptions in properties.** `CartUnitsAccounted`, `OneActiveClaim`, `DefaultRemains`,
`VerifiedEmailIsProven`, `SourcedWhileOnSale`, `OnePrimaryImage`, `CategoriesFormATree`
and `ValuesMatchTheirDefinition` leave out rows of which two requests were
in flight at once (`overlapped`, `raced`), because the code locks nothing there and each is
violated without the exception. What they say is that this is the *only* way to break them:
any sequence of requests, aborted ones included, keeps the promise; the races themselves are
not covered by them, and the hazards say so one by one. `AdminRemainsUnlessSkewed` is of this
kind too: the race of two staff changes is the exception. These histories are written when a
request begins or, `skewed`, when another one commits, never from the outcome.

`RolesAreCurrent` excludes sign-ins that read the role before a staff change and insert after
it (`overtaken`), not those that overlap it otherwise. `SearchAgrees` excludes a lost entry,
not overlapping tasks or changes beside a task. `SellableIsBacked` is about instances without
the periodic sync, and of the sync only `SourceTimeAdvances` and `ShipmentsAreReconciled` speak.

**Bounds.** Two requests are the smallest number at which a stale read matters; every race
listed above needs two. They are interchangeable, holding nothing but what they are doing, so
symmetry permutes them (and the orders, RFQs or mailboxes that nothing tells apart). Two orders
and one unit are the smallest contention, one order with two legs the smallest order whose
status is derived. Two attempts are the smallest number at which giving up differs from
retrying; one overrun lets a second worker hold a row that the first still has in hand. Three
addresses let one be deleted, one promoted and one added; three categories make a cycle that two
moves close without either being its own parent; three carts let a guest cart be closed and a
new one be merged; two sessions let a sign-in meet the staff change that the other session
makes. The operations of an order are split over two instances because all of them at once
exceed what can be enumerated in minutes; what holds for every combination of them is proved
(section 4). `CHECK_DEADLOCK FALSE` where an instance ends when its events, ids or tokens are
used up. `Connector` has one event and one dispatching transaction beside two task deliveries;
one delivery with two events and two such transactions (`Crons = {1, 2}`, 453,424 states) passes
as well, and the safety of any number of both is proved.

**Fairness.** `Outbox`: beat starts the dispatcher every 15 s, so claims are weakly fair; a
live worker goes through its loop; time passes; nothing is assumed of the broker, and crashes
and overruns are bounded. `Inventory`: beat starts the sync every 300 s; its steps are
strongly fair because a page may be rolled back, again and again but not for ever; a webhook
ends. `Connector`: Odoo runs the cron every minute, the claim is strongly fair because
another transaction may hold the rows, a transaction goes on, the back-off ends, and from
some time on the transaction is not killed any more; nothing is assumed of the store's
answers, since attempts are limited. All other runs check safety only: their steps are
requests, and no scheduling obliges anybody to send one.

## 4. The proofs

Eight modules, for **every** value of the constants that satisfies the named assumption of
the component. Every invariant and every action property that a passing run checks is also a
theorem; what is left to TLC is listed at the end of this section.

| module | proves | inductive invariant |
| --- | --- | --- |
| `CheckoutProofs` | outbox: types, the safety invariants, `Spec => ImplementsHandoff`; carts: `NothingOversold`, `CartUnitsAccounted` | `IInv`; `ShopInv`, `StockInv`, `AccountInv` |
| `OrderLifecycleProofs` | types (so `stock_qty` never goes below zero), `CancelledHoldsNoStock`, `NothingFollowsFromUnpaid`, `NeverReopened`, `StockConserved`; but for the overlaps named below `RefundedIsFinal`, `CancelledPaidIsRefunded`, `ShippedUnitsWereWithheld`, `LegsAreReflected` | `IInv` with `SessionOK`, `Conserved`; `MoneyInv`, `GoodsInv`, `LegsInv` |
| `ProductProofs` | inventory: types, `SourceTimeAdvances`, `SellableIsBacked`; catalogue: all six invariants of the run | `TimeInv`, `BackedInv`; one for each part of the catalogue |
| `ConnectorProofs` | types, `AppliedOnce`, `OdooFollowsStore`, `OneOrderPerDelivery`, `Spec => ImplementsHandoff` | `CInv`, `Claimed` |
| `AccountsProofs` | types, all five invariants of the run, `RevokedIsFinal` | `AInv` |
| `ProcurementProofs` | types, `OneOrderPerRfq`, `OrderAtQuotedPrice`, `ContextSurvives` | `PInv` |
| `CustomerProofs` | portal: `DefaultRemains`, `VerifiedEmailIsProven`, `OnlyRacesFail`; after-sales: `PointsAreCovered`, `StripeUnitsAccounted`, `OneActiveClaim`, `StripePaidIsFinal`, `ClosedClaimsStayClosed` | `PInv`; `AfterInv` |
| `UnitSums` | lemmas on sums over finite sets: one term changed, a subset, a larger set | - |

**CheckoutProofs, the outbox.** The invariants are not inductive one by one. `WriteRow` records
an outcome decided earlier, so a row says dispatched truthfully only because the job in hand
already implied a hand-off. `IInv` is the type invariant, `WorkInHand` and the statements about
rows; one lemma per action shows that it is kept (`*KeepsIInv`). The refinement shows for
each action that the abstract variables make the matching abstract step or none.

**CheckoutProofs, the carts.** `ShopInv`: the carts, rows and orders a request in flight has
read are its own customer's, so two customers never disturb each other's. `StockInv` needs
nothing of what was read: checkout takes stock by a conditional update, so what is missing from
the shelf is in an order (the sums of `UnitSums`), however stale the request. `AccountInv` is
what a customer relies on: one active cart on each side, one row per product in a cart, and what
was asked for equals what was ordered plus the units of both carts. It holds because the one
request of that customer in flight still sees what it read (`JustRead`), and is claimed only
until two of them overlap: the code locks no cart.

**OrderLifecycleProofs**, whichever operations are enabled, in layers. Each handler is
a function on one row, so it is treated without any state: `Keeps` says what it may do to the
fulfilment status, the reservation and the money (`*Sound` lemmas). `FlushKeeps` carries
`Keeps` from the row a handler saw to the row it writes into: it needs that the columns in
`Locked` were read under the lock and nothing about the others. `CommitKeeps` lifts this to
the state. The strengthening is `SessionOK`: what a request in flight has read was once a row
of its order, and if that row was charged a success had been verified by then. `StockConserved`
needs locked columns only, so it holds for requests with stale reads too: a handler moves as
many units as it takes from or gives to the row it locked, and the sum over the orders changes
by that one term (`UnitSums`).

Four promises depend on columns that are read without a lock: `RefundedIsFinal` and the three
invariants of the run `Order_apart`. They are theorems of `Spec /\ []H`, where `H` names the
overlaps of two requests **about one order** that spoil what was read early, and no other:

| hypothesis | never in flight together | for |
| --- | --- | --- |
| `PaymentsApart` | a callback and a cancellation | `RefundedIsFinal`, `CancelledPaidIsRefunded` |
| `DecisionsApart` | also a callback or a cancellation, and a status change or a dispatch | `ShippedUnitsWereWithheld` |
| `LegsApart` | also a dispatch and a supplier shipment | `LegsAreReflected` |

Whatever else overlaps is covered: two callbacks, two cancellations, two dispatches, supplier
shipments beside callbacks, cancellations or each other, and every handler that locks first. The
invariants say for each request what it may still rely on. `MoneyInv`: the payment a cancellation
read is the one there is, or its refund has been asked for since. `GoodsInv`: a status change or
a dispatch knows whether the order is cancelled; a cancellation knows it or finds the order
cancelled by another, and then does nothing. `LegsInv`: a dispatch knows whether the supplier's
leg has left; a supplier shipment knows whether the local leg has left, or the order says
shipped already; and no two requests work on one callback, so the first success of an order is
handled once.

The first two hypotheses are as weak as they can be: TLC finds a violation of the property as
soon as any one of their pairs may overlap (`Order_stale_cancel` is the first of them), and
`LegsAreReflected` fails when a dispatch may overlap a supplier shipment. The further hypotheses
say what the code itself leaves open, and the run meets them all:

- `"cancel" \notin OdooStatuses`, for `CancelledPaidIsRefunded`: Odoo's webhook cancels the
  order alone and requests no refund (`integrations/odoo/webhooks.py:439`).
- `OneWayToCancel`, for `ShippedUnitsWereWithheld` and `LegsAreReflected`: neither Odoo nor the
  status route cancels (the route changes the order's state and not its fulfilment), and Odoo
  reports "delivered" only if every unit is dropshipped, since a delivery that skips "shipped"
  leaves the reservation unconsumed.
- `"po" \notin Operations`, for `LegsAreReflected`: cancelling a purchase order takes away a
  leg the order needed and does not forward the order's status.

**ProductProofs, the inventory.** A snapshot in hand is no older than the balance because its
webhook holds both rows; the sync stamps its page with the present. `TimeInv` says so and is
kept although release, re-reservation and shipment take neither lock. `BackedInv` adds what a
webhook has summed: its reservations are no fewer than the current ones (a new one needs
the lock it holds), and its snapshot is at most what is in the warehouse plus the units that
have left since the snapshot was taken. `SellableIsBacked` is proved without the periodic sync,
which sums reservations before it locks the product.

**ProductProofs, the catalogue.** `RequestsInv`: until two requests on one topic (the product,
its images, the attributes, the categories) overlap, there is one in flight; and each part has
the invariant of its own: what an edit or a publication read is still the product
(`ProductInv`), the type a value was checked against is still the definition's (`ValuesInv`),
the file an upload or a removal is about belongs to no other request (`FilesInv`), the rows a
media request read are the table (`PrimaryInv`). `SearchInv` excludes no overlap: a task that is
not outdated will send the product as it is, an entry that is done is right, and while the last
change is due an event of it waits or such a task is at work. For the tree (`TreeInv`), `Rooted`
says that no set of categories has all its parents in itself, and `Apart` that the parent of a
move in flight is not below the category that moves; that N levels then reach all N categories
is a lemma of its own.

**ConnectorProofs.** `Justified`: what a dispatching transaction holds as sent already has a
receipt. `Grounded`: what a task or an event carries (an Odoo id, the decision to confirm) is
already true. `Creator`: each order in Odoo can be given the task that created it, and that
task never finds the order absent again; the cardinalities follow. The proof uses that a
failed create either committed in Odoo before the retry's search or never does, which is how
the synchronous call of `client.py` fails. For the refinement, `Claimed` adds that a transaction
deals with rows that exist, so an answer of the store is a delivery of something recorded; the
commit of a batch is one `Report`, justified event by event by `Justified`.

**AccountsProofs.** `Fits`: for each kind of request, what it read under its lock still holds
when it writes (the token of a held session, the attempts of a held challenge, the other
administrators of a change that is not late); a sign-in that no staff change came before holds
the role its owner has (`SignInFits`). `Exclusive`: no two requests hold one row, and a staff
change holds no account whose session is on its way in. `RolesAgree` says of sessions in the
table, committed or not, what `RolesAreCurrent` says of the ones others see: it is what the
foreign key and the target's lock keep. `SessionsAgree` ties a session to the code that signed
it in, which is consumed, and a verified session to its owner's enabled credential; an enrolment
that read the credential before it was enabled cannot undo that, since the ORM writes only what
it changed.

**ProcurementProofs.** An RFQ locked by a conversion stays convertible, and its order has what
its quote says; the price lemmas (`MaxOfNaturals`, `DiscountIsPercentage`, `PartOfPrice`) show
that a quoted price is between zero and the list price, whatever the rules.

**CustomerProofs, the portal.** As long as no two requests overlapped, the one in flight
(`Alone`) relies on rows that are still what it read (`AddressFits` and the others), so each
write moves the mark from one address to one other; `ReplacementIsAnother` is about the address
that is promoted.

**CustomerProofs, after-sales.** `LoyaltyInv`: a redemption holds the customer's row, so there
is one at a time and the balance it read is still the sum of the ledger when it writes; each
write adds one row, which changes the sum by one term. `StripeInv`: a reservation row is let go
only with its order, so a cancellation gives back exactly what is withheld. `ClaimInv`: while no
two warranty requests on an order overlapped there is one of them, and it still sees what it
read.

**UnitSums.** The sum of a function over a finite set is a recursive function of the community
modules on the subsets of that set. That it exists and is unique is shown by well-foundedness
of strict inclusion, with a least counterexample where one would do an induction, since the
library's induction theorems cannot be instantiated. `Rooted` and the minimum and maximum of a
set of numbers are treated the same way.

Assumed everywhere: a transaction's writes are atomic, and row locks, conditional updates and
unique indexes behave as PostgreSQL documents them.

Only model-checked: liveness (`EveryEventSettles`, `ShipmentsAreReconciled`, `EventsSettle`),
which needs fairness and ENABLED. The promises of `Order_apart` are proved under the
hypotheses above and not beyond them; `Order_stale_cancel` is a counterexample, which has no
proof.

## 5. Not modelled, and why

- Hourly clean-up of carts: deletes rows by age, and age is not in the model of the carts.
- Manual stock adjustment (`adjust_stock`), serial lots and barcodes: an adjustment has no
  counterpart in the source balance, so nothing says what should hold after it.
- Totals, taxes, coupons and shipping rates of a checkout; opening a Stripe session; HMAC and
  signature checks; password hashing, token formats, recovery codes and rate limits: pure
  functions, or cryptography.
- The policy checks of `modules/b2b/procurement.py` (budgets, approvers) and the warranty
  period: predicates over one row.
- Manual purchase orders and currency rates: single-row edits.
- A module that joins `OrderLifecycle` and `Inventory` (an Odoo delivery without a shipment
  keeps its units reserved, `integrations/odoo/webhooks.py:478`): the product of the two is out
  of TLC's reach at two orders.
- Reporting, marketing and the dashboards: read-only queries or single inserts.
- Mail, SMS and ledger integrations: one outbound call each; that it is made at least once is
  `Outbox`'s promise.
- Middleware, configuration, the web frontend, infrastructure, migrations, seed and bootstrap
  scripts: request plumbing, presentation, deployment.

`PROJECT.json` lists the hazards met while reading, also those that no property covers, with
the reason.
