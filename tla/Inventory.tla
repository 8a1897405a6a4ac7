------------------------------- MODULE Inventory -------------------------------
(***************************************************************************)
(* Available-to-sell stock of one product against the physical stock that  *)
(* Odoo owns.  Orders reserve, release, re-reserve and ship units locally; *)
(* Odoo reports its absolute on-hand quantity in two ways: by webhook, as  *)
(* a timestamped snapshot that may be late or out of order, and to the     *)
(* periodic sync, which fetches a page and applies it afterwards.          *)
(*                                                                         *)
(* Locks.  The webhook locks the product, then the source balance.  The    *)
(* sync reads the product without a lock, locks the balance, and only its  *)
(* final UPDATE locks the product.  Checkout locks the product, then the   *)
(* balance; release and re-reservation lock the product; shipment locks    *)
(* neither.  Where two of these wait for each other PostgreSQL aborts one: *)
(* a request that aborts changes nothing, the sync has SyncAbort.          *)
(*                                                                         *)
(* Assumed of Odoo: its on-hand quantity falls no later than the shipment  *)
(* is recorded here, and no two of its movements share a timestamp.        *)
(***************************************************************************)
EXTENDS Naturals, FiniteSets, FiniteSetsExt

CONSTANTS
    Orders,
    Qty,            \* order -> units of the product it reserves
    InitialStock,
    MaxReceived,    \* units Odoo may receive from its suppliers
    Schedules       \* whether the periodic sync is scheduled: the cases there are

ASSUME InventoryAssumption ==
    /\ IsFiniteSet(Orders)
    /\ Qty \in [Orders -> Nat \ {0}]
    /\ InitialStock \in Nat
    /\ MaxReceived \in Nat
    /\ Schedules \subseteq BOOLEAN

VARIABLES
    periodic,   \* whether the periodic sync is scheduled
    stock,      \* ProductTemplate.stock_qty, available to sell
    resv,       \* order -> InventoryReservation: status, consumed_at
    balance,    \* InventorySourceBalance: on_hand, at (0: never from the source)
    onHand,     \* the quantity Odoo holds
    received,   \* units Odoo received so far
    clock,      \* Odoo's time: one tick per movement
    snapshots,  \* the webhooks Odoo has emitted: quantity and timestamp
    receipts,   \* those already delivered (WebhookReceipt)
    hook,       \* the webhook being applied
    sync        \* the periodic sync

vars == <<periodic, stock, resv, balance, onHand, received, clock, snapshots, receipts, hook, sync>>

Idle == [pc |-> "idle"]
NoBalance == [on_hand |-> 0, at |-> 0, exists |-> FALSE]

Init == /\ periodic \in Schedules
        /\ stock = InitialStock
        /\ resv = [o \in Orders |-> [status |-> "none", consumed_at |-> 0]]
        /\ balance = NoBalance
        /\ onHand = InitialStock
        /\ received = 0
        /\ clock = 1
        /\ snapshots = {}
        /\ receipts = {}
        /\ hook = Idle
        /\ sync = Idle

WithStatus(status) == {o \in Orders : resv[o].status = status}
Units(S) == MapThenSumSet(LAMBDA o : Qty[o], S)
Reserved == Units(WithStatus("reserved"))
Pending == Units(WithStatus("consumed_pending_source"))

ProductFree == hook = Idle
BalanceFree == hook = Idle /\ ~(sync.pc = "summed" /\ balance.exists)

SetStatus(o, status) == resv' = [resv EXCEPT ![o].status = status]

-------------------------------------------------------------------------------
(* The store: inventory/reservations.py.  A definition named faulty_* is no    *)
(* part of the code: it is the definition after it with a plausible mistake,   *)
(* and shows that a property notices the mistake.                              *)

\* The first checkout of a product infers its baseline from the sellable stock.
_ensure_source_balance ==
    balance' = IF balance.exists THEN balance
               ELSE [on_hand |-> stock, at |-> 0, exists |-> TRUE]

\* The condition of the UPDATE that decrements stock_qty.
InStock(o) == stock >= Qty[o]

reserve_checkout_stock(o) ==
    /\ resv[o].status = "none"
    /\ ProductFree /\ BalanceFree
    /\ InStock(o)
    /\ stock' = stock - Qty[o]
    /\ SetStatus(o, "reserved")
    /\ _ensure_source_balance
    /\ UNCHANGED <<periodic, onHand, received, clock, snapshots, receipts, hook, sync>>

release_order(o) ==
    /\ resv[o].status = "reserved"
    /\ ProductFree
    /\ stock' = stock + Qty[o]
    /\ SetStatus(o, "released")
    /\ UNCHANGED <<periodic, balance, onHand, received, clock, snapshots, receipts, hook, sync>>

rereserve_order(o) ==
    /\ resv[o].status = "released"
    /\ ProductFree
    /\ InStock(o)
    /\ stock' = stock - Qty[o]
    /\ SetStatus(o, "reserved")
    /\ UNCHANGED <<periodic, balance, onHand, received, clock, snapshots, receipts, hook, sync>>

\* The parcel leaves: Odoo's quantity falls and the reservation waits for a
\* snapshot that shows it.
mark_order_consumed(o) ==
    /\ resv[o].status = "reserved"
    /\ onHand >= Qty[o]
    /\ clock' = clock + 1
    /\ onHand' = onHand - Qty[o]
    /\ resv' = [resv EXCEPT ![o] = [status |-> "consumed_pending_source",
                                     consumed_at |-> clock + 1]]
    /\ UNCHANGED <<periodic, stock, balance, received, snapshots, receipts, hook, sync>>

-------------------------------------------------------------------------------
(* Odoo *)

Receive == /\ received < MaxReceived
           /\ received' = received + 1
           /\ onHand' = onHand + 1
           /\ clock' = clock + 1
           /\ UNCHANGED <<periodic, stock, resv, balance, snapshots, receipts, hook, sync>>

EmitSnapshot == /\ snapshots' = snapshots \cup {[qty |-> onHand, at |-> clock]}
                /\ UNCHANGED <<periodic, stock, resv, balance, onHand, received, clock, receipts, hook, sync>>

-------------------------------------------------------------------------------
(* The webhook: odoo/webhooks.py, apply_authoritative_quantity *)

faulty_IsStale(snapshot) == FALSE

IsStale(snapshot) == balance.exists /\ snapshot.at < balance.at

reserved_quantity == Reserved

\* Claim the delivery, lock product and balance, drop a stale snapshot, and
\* read the sum of the active reservations.
WebhookSums ==
    /\ ProductFree /\ BalanceFree
    /\ \E s \in snapshots \ receipts :
         /\ receipts' = receipts \cup {s}
         /\ hook' = IF IsStale(s) THEN Idle
                    ELSE [pc |-> "summed", snapshot |-> s, reserved |-> reserved_quantity]
    /\ UNCHANGED <<periodic, stock, resv, balance, onHand, received, clock, snapshots, sync>>

Minus(a, b) == IF a > b THEN a - b ELSE 0

faulty_Shows(snapshot, o) == resv[o].status = "consumed_pending_source"

\* A shipment the snapshot already shows is reconciled, a later one is withheld.
Shows(snapshot, o) ==
    resv[o].status = "consumed_pending_source" /\ snapshot.at >= resv[o].consumed_at

WebhookApplies ==
    /\ hook # Idle
    /\ LET shown == {o \in Orders : Shows(hook.snapshot, o)}
           withheld == WithStatus("consumed_pending_source") \ shown
       IN /\ resv' = [o \in Orders |-> IF o \in shown THEN [resv[o] EXCEPT !.status = "consumed"]
                                       ELSE resv[o]]
          /\ stock' = Minus(hook.snapshot.qty, hook.reserved + Units(withheld))
    /\ balance' = [on_hand |-> hook.snapshot.qty, at |-> hook.snapshot.at, exists |-> TRUE]
    /\ hook' = Idle
    /\ UNCHANGED <<periodic, onHand, received, clock, snapshots, receipts, sync>>

-------------------------------------------------------------------------------
(* The periodic sync: odoo/tasks.py, inventory/source_sync.py *)

SyncFetches == /\ periodic
               /\ sync = Idle
               /\ sync' = [pc |-> "fetched", qty |-> onHand]
               /\ UNCHANGED <<periodic, stock, resv, balance, onHand, received, clock,
                              snapshots, receipts, hook>>

SyncReadsProduct == /\ sync.pc = "fetched"
                    /\ sync' = [pc |-> "read", qty |-> sync.qty, product |-> stock]
                    /\ UNCHANGED <<periodic, stock, resv, balance, onHand, received, clock,
                                   snapshots, receipts, hook>>

SyncSums == /\ sync.pc = "read"
            /\ BalanceFree
            /\ sync' = [pc |-> "summed", qty |-> sync.qty, product |-> sync.product,
                        reserved |-> reserved_quantity, had_balance |-> balance.exists,
                        at |-> clock]
            /\ UNCHANGED <<periodic, stock, resv, balance, onHand, received, clock,
                           snapshots, receipts, hook>>

InsertConflicts == sync.pc = "summed" /\ sync.had_balance # balance.exists

faulty_Reconciled(o) == FALSE

\* The sync takes every shipment for one that its page shows.
Reconciled(o) == resv[o].status = "consumed_pending_source"

\* The ORM writes stock_qty only when it differs from the value read; inserting
\* a balance that has appeared meanwhile fails.
SyncApplies ==
    /\ sync.pc = "summed"
    /\ ProductFree
    /\ ~InsertConflicts
    /\ LET available == Minus(sync.qty, sync.reserved)
       IN stock' = IF available = sync.product THEN stock ELSE available
    /\ resv' = [o \in Orders |-> IF Reconciled(o) THEN [resv[o] EXCEPT !.status = "consumed"]
                                 ELSE resv[o]]
    /\ balance' = [on_hand |-> sync.qty, at |-> sync.at, exists |-> TRUE]
    /\ sync' = Idle
    /\ UNCHANGED <<periodic, onHand, received, clock, snapshots, receipts, hook>>

\* A failed page is rolled back; the task retries later with a new fetch.
SyncAbort == /\ sync.pc \in {"fetched", "read", "summed"}
             /\ sync' = Idle
             /\ UNCHANGED <<periodic, stock, resv, balance, onHand, received, clock,
                            snapshots, receipts, hook>>

Next == \/ \E o \in Orders : \/ reserve_checkout_stock(o)
                             \/ release_order(o)
                             \/ rereserve_order(o)
                             \/ mark_order_consumed(o)
        \/ Receive \/ EmitSnapshot
        \/ WebhookSums \/ WebhookApplies
        \/ SyncFetches \/ SyncReadsProduct \/ SyncSums \/ SyncApplies \/ SyncAbort

Spec == Init /\ [][Next]_vars

-------------------------------------------------------------------------------
(* Properties *)

Statuses == {"none", "reserved", "released", "consumed_pending_source", "consumed"}

\* Quantities are naturals, statuses those of InventoryReservation, and a
\* delivered snapshot was emitted.
TypeOK == /\ stock \in Nat /\ onHand \in Nat /\ received \in 0..MaxReceived
          /\ clock \in Nat \ {0}
          /\ resv \in [Orders -> [status : Statuses, consumed_at : 0..clock]]
          /\ balance \in [on_hand : Nat, at : 0..clock, exists : BOOLEAN]
          /\ snapshots \subseteq [qty : Nat, at : 1..clock]
          /\ receipts \subseteq snapshots
          /\ hook = Idle \/ hook \in [pc : {"summed"}, snapshot : receipts, reserved : Nat]
          /\ sync.pc \in {"idle", "fetched", "read", "summed"}

\* reservations.py:28: what is offered for sale and what is promised to orders
\* is physically there.  Where only webhooks report, no late, reordered or
\* repeated snapshot and no race with a checkout, a release or a shipment sells a
\* unit twice.
SellableIsBacked == periodic \/ stock + Reserved <= onHand

\* The projection never exceeds its source: sellable, reserved and shipped but
\* not yet reported units add up to at most the on-hand quantity last
\* applied, where the periodic sync does not run.
WithinSource == balance.exists /\ ~periodic => stock + Reserved + Pending <= balance.on_hand

\* reservations.py:288, "Stale source snapshots never move availability
\* backwards": the source's time does not go back.
SourceTimeAdvances == [][balance'.at >= balance.at]_balance

\* odoo/tasks.py:86, "without erasing local reservations": a page the sync applies
\* leaves for sale at most what it reports less what is reserved.
SyncKeepsReservations ==
    [][sync.pc = "summed" /\ balance' # balance => stock' + Reserved' <= balance'.on_hand]_vars

\* Beat starts the sync again and again, a running one goes on unless its page is
\* rolled back, and pages are not rolled back for ever; a webhook ends.
Fairness == /\ WF_vars(SyncFetches)
            /\ SF_vars(SyncReadsProduct) /\ SF_vars(SyncSums) /\ SF_vars(SyncApplies)
            /\ WF_vars(SyncAbort /\ InsertConflicts)
            /\ WF_vars(WebhookApplies)
FairSpec == Spec /\ Fairness

\* fulfillment/models.py:46: a shipped reservation does not stay pending for
\* ever, even when no webhook reports the shipment.
ShipmentsAreReconciled ==
    \A o \in Orders :
      periodic /\ resv[o].status = "consumed_pending_source" ~> resv[o].status = "consumed"
===============================================================================
