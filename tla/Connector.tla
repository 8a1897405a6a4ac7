------------------------------- MODULE Connector -------------------------------
(***************************************************************************)
(* The store and Odoo telling each other about one order.                  *)
(*                                                                         *)
(* Towards Odoo: every OrderCreated, OrderConfirmed and PaymentSucceeded   *)
(* event starts a Celery task that looks the order up in Odoo, creates it  *)
(* when it is absent, confirms it when it is settled and stores its Odoo   *)
(* id.  Each call is a step: tasks interleave, fail, are retried from the  *)
(* start, and are lost with their worker (Celery acknowledges early).      *)
(*                                                                         *)
(* Towards the store: the Odoo add-on writes an outbox row in the business *)
(* transaction; a cron transaction claims rows, posts each of them and     *)
(* commits the outcome of all of them at its end.  A crash undoes the      *)
(* claim and the outcomes, never what the store has done meanwhile.        *)
(***************************************************************************)
EXTENDS Naturals, FiniteSets

CONSTANTS
    Tasks,          \* deliveries of sync_order_to_odoo for the order
    OdooIds,        \* ids Odoo may give to sale orders; 0 is none of them
    Events,         \* ids of webhook events
    Crons,          \* dispatching transactions: the cron, a manual dispatch
    MaxRetries,     \* Celery's max_retries
    MaxAttempts     \* the connector's max_attempts

ASSUME ConnectorAssumption == /\ IsFiniteSet(Tasks)
                              /\ IsFiniteSet(OdooIds) /\ 0 \notin OdooIds
                              /\ MaxRetries \in Nat
                              /\ MaxAttempts \in Nat \ {0}

VARIABLES
    settled,        \* the order is paid or confirmed in the store
    odoo_order_id,  \* SaleOrder.odoo_order_id, 0 for NULL
    receipts,       \* WebhookReceipt rows of source odoo
    effects,        \* history: how often the store has applied an event
    remote,         \* sale orders in Odoo with the order's client_order_ref
    task,           \* the Celery deliveries
    outbox,         \* elitedom_webhook_outbox, as committed
    cron            \* the dispatching transactions

storeVars == <<settled, odoo_order_id, receipts, effects>>
vars == <<settled, odoo_order_id, receipts, effects, remote, task, outbox, cron>>

NoRow == [state |-> "none", order |-> 0, attempts |-> 0, due |-> FALSE]

\* A row enqueue() creates.  order: the Odoo order a status event is about, 0 when
\* the event is about stock or a product.
NewRow(k) == [state |-> "pending", order |-> k, attempts |-> 0, due |-> TRUE]

Waiting == [pc |-> "waiting", retries |-> 0, confirm |-> FALSE, order |-> 0]
Idle == [todo |-> {}, sent |-> {}, failed |-> {}, refused |-> {}]

Init == /\ settled = FALSE
        /\ odoo_order_id = 0
        /\ receipts = {}
        /\ effects = [e \in Events |-> 0]
        /\ remote = [k \in OdooIds |-> "none"]
        /\ task = [t \in Tasks |-> Waiting]
        /\ outbox = [e \in Events |-> NoRow]
        /\ cron = [c \in Crons |-> Idle]

-------------------------------------------------------------------------------
(* The store *)

Settle == /\ ~settled
          /\ settled' = TRUE
          /\ UNCHANGED <<odoo_order_id, receipts, effects, remote, task, outbox, cron>>

Step(t, pc) == task' = [task EXCEPT ![t].pc = pc]
End(t) == task' = [task EXCEPT ![t] = [Waiting EXCEPT !.pc = "done"]]

\* A definition named faulty_* is no part of the code: it is the one after it with
\* a plausible mistake, and shows that a property notices it.
faulty_should_confirm == TRUE

should_confirm == settled

\* The snapshot the task works from; an order that has its Odoo id needs nothing.
_load_order_snapshot(t) ==
    /\ task[t].pc = "waiting"
    /\ IF odoo_order_id = 0
       THEN task' = [task EXCEPT ![t].pc = "loaded", ![t].confirm = should_confirm]
       ELSE End(t)
    /\ UNCHANGED <<storeVars, remote, outbox, cron>>

Exists(k) == remote[k] # "none"

\* Odoo returns some order with the reference; a confirmed one is left alone.
find_sale_order_by_reference(t) ==
    /\ task[t].pc = "loaded"
    /\ \/ /\ \A k \in OdooIds : ~Exists(k)
          /\ Step(t, "absent")
       \/ \E k \in OdooIds :
             /\ Exists(k)
             /\ task' = [task EXCEPT ![t].order = k, ![t].confirm = FALSE,
                                     ![t].pc = IF task[t].confirm /\ remote[k] = "draft"
                                               THEN "confirm" ELSE "persist"]
    /\ UNCHANGED <<storeVars, remote, outbox, cron>>

create_sale_order(t) ==
    /\ task[t].pc = "absent"
    /\ \E k \in OdooIds :
          /\ ~Exists(k)
          /\ remote' = [remote EXCEPT ![k] = "draft"]
          /\ task' = [task EXCEPT ![t].order = k, ![t].confirm = FALSE,
                                  ![t].pc = IF task[t].confirm THEN "confirm" ELSE "persist"]
    /\ UNCHANGED <<storeVars, outbox, cron>>

\* webhook_outbox.py: the row is written in the business transaction.
enqueue(e, k) == /\ outbox[e].state = "none"
                 /\ outbox' = [outbox EXCEPT ![e] = NewRow(k)]

\* Odoo confirms a draft only; its status change is enqueued in the same transaction
\* unless the connector is disabled.
confirm_sale_order(t) ==
    /\ task[t].pc = "confirm"
    /\ remote[task[t].order] = "draft"
    /\ remote' = [remote EXCEPT ![task[t].order] = "sale"]
    /\ \/ UNCHANGED outbox
       \/ \E e \in Events : enqueue(e, task[t].order)
    /\ Step(t, "persist")
    /\ UNCHANGED <<storeVars, cron>>

\* The order is read without a lock: another id already there is kept.
_persist_odoo_order_id(t) ==
    /\ task[t].pc = "persist"
    /\ IF odoo_order_id \in {0, task[t].order} THEN Step(t, "writing") ELSE End(t)
    /\ UNCHANGED <<storeVars, remote, outbox, cron>>

\* What was read may be stale when it is written.
CommitOdooId(t) ==
    /\ task[t].pc = "writing"
    /\ odoo_order_id' = task[t].order
    /\ End(t)
    /\ UNCHANGED <<settled, receipts, effects, remote, outbox, cron>>

Running(t) == task[t].pc \notin {"waiting", "done"}

Restart(t, pc) == task' = [task EXCEPT ![t] =
                     [Waiting EXCEPT !.pc = pc, !.retries = task[t].retries + 1]]

faulty_retry(t) ==
    /\ Running(t)
    /\ IF task[t].retries < MaxRetries
       THEN Restart(t, IF task[t].order = 0 THEN "waiting" ELSE "absent")
       ELSE End(t)
    /\ UNCHANGED <<storeVars, remote, outbox, cron>>

\* Any call may fail, also after Odoo has done its part: the task starts over.
_retry(t) ==
    /\ Running(t)
    /\ IF task[t].retries < MaxRetries THEN Restart(t, "waiting") ELSE End(t)
    /\ UNCHANGED <<storeVars, remote, outbox, cron>>

WorkerCrash(t) == /\ Running(t)
                  /\ End(t)
                  /\ UNCHANGED <<storeVars, remote, outbox, cron>>

-------------------------------------------------------------------------------
(* The Odoo add-on *)

\* Stock moved.  Products without SKU and fractional or negative quantities are
\* skipped.
_enqueue_elitedom_inventory(e) ==
    /\ enqueue(e, 0)
    /\ UNCHANGED <<storeVars, remote, task, cron>>

\* A product was created, changed, published or deleted.
_enqueue_elitedom_catalog(e) ==
    /\ enqueue(e, 0)
    /\ UNCHANGED <<storeVars, remote, task, cron>>

\* A delivery of a confirmed order was done, tracked or cancelled.
picking_write(e) ==
    /\ \E k \in OdooIds : remote[k] = "sale" /\ enqueue(e, k)
    /\ UNCHANGED <<storeVars, remote, task, cron>>

InCron(c) == cron[c].todo \cup cron[c].sent \cup cron[c].failed \cup cron[c].refused
Locked == UNION {InCron(c) : c \in Crons}
Due == {e \in Events : outbox[e].state = "pending" /\ outbox[e].due}

\* FOR UPDATE SKIP LOCKED: due rows that no other transaction holds.
_claim_batch(c) ==
    /\ InCron(c) = {}
    /\ Due \ Locked # {}
    /\ cron' = [cron EXCEPT ![c].todo = Due \ Locked]
    /\ UNCHANGED <<storeVars, remote, task, outbox>>

\* The staff button, for one row that waits or is dead.  A row another transaction
\* holds fails the write and the whole request is repeated.
action_dispatch_now(c) ==
    /\ InCron(c) = {}
    /\ \E e \in Events \ Locked :
          /\ outbox[e].state \in {"pending", "dead"}
          /\ outbox[e].attempts <= MaxAttempts         \* a bound of the model
          /\ cron' = [cron EXCEPT ![c].todo = {e}]
    /\ UNCHANGED <<storeVars, remote, task, outbox>>

faulty_claim_delivery(e) == TRUE

\* The receipt is new.
_claim_delivery(e) == e \notin receipts

\* The store answers 2xx: it has applied the event now, or before.  A status event
\* carries the Odoo id, unless fulfilment is already past that status.
Accept(e) ==
    IF _claim_delivery(e)
    THEN /\ receipts' = receipts \cup {e}
         /\ effects' = [effects EXCEPT ![e] = @ + 1]
         /\ odoo_order_id' \in IF outbox[e].order = 0 THEN {odoo_order_id}
                               ELSE {outbox[e].order, odoo_order_id}
         /\ UNCHANGED settled
    ELSE UNCHANGED storeVars

Post(c, e, outcome) ==
    cron' = [cron EXCEPT ![c].todo = @ \ {e}, ![c][outcome] = @ \cup {e}]

\* Answered; answer lost; never arrived or a retryable status; refused for good
\* (unknown SKU or order, bad signature: the store rolls back).
_dispatch_one(c, e) ==
    /\ e \in cron[c].todo
    /\ \/ Accept(e) /\ Post(c, e, "sent")
       \/ Accept(e) /\ Post(c, e, "failed")
       \/ UNCHANGED storeVars /\ Post(c, e, "failed")
       \/ UNCHANGED storeVars /\ Post(c, e, "refused")
    /\ UNCHANGED <<remote, task, outbox>>

Terminal(e, attempts) == attempts >= MaxAttempts

_mark_sent(e) == [outbox[e] EXCEPT !.state = "sent", !.attempts = @ + 1]

faulty_mark_failure(e, retryable) ==
    [outbox[e] EXCEPT !.state = IF retryable THEN "pending" ELSE "dead", !.due = FALSE]

\* attempts was counted by the claim.  A row that waits becomes due later.
_mark_failure(e, retryable) ==
    [outbox[e] EXCEPT !.state = IF ~retryable \/ Terminal(e, outbox[e].attempts + 1)
                                THEN "dead" ELSE "pending",
                      !.attempts = @ + 1, !.due = FALSE]

\* The transaction commits the outcome of every row it claimed.
_cron_dispatch(c) ==
    /\ InCron(c) # {} /\ cron[c].todo = {}
    /\ outbox' = [e \in Events |-> IF e \in cron[c].sent THEN _mark_sent(e)
                                   ELSE IF e \in cron[c].failed THEN _mark_failure(e, TRUE)
                                   ELSE IF e \in cron[c].refused THEN _mark_failure(e, FALSE)
                                   ELSE outbox[e]]
    /\ cron' = [cron EXCEPT ![c] = Idle]
    /\ UNCHANGED <<storeVars, remote, task>>

CronCrash(c) == /\ InCron(c) # {}
                /\ cron' = [cron EXCEPT ![c] = Idle]
                /\ UNCHANGED <<storeVars, remote, task, outbox>>

\* 30, 90, 270 ... seconds have passed.
BackoffEnds(e) == /\ outbox[e].state = "pending" /\ ~outbox[e].due
                  /\ outbox' = [outbox EXCEPT ![e].due = TRUE]
                  /\ UNCHANGED <<storeVars, remote, task, cron>>

action_retry(e) ==
    /\ outbox[e].state = "dead" /\ e \notin Locked
    /\ outbox' = [outbox EXCEPT ![e] = [@ EXCEPT !.state = "pending", !.due = TRUE, !.attempts = 0]]
    /\ UNCHANGED <<storeVars, remote, task, cron>>

faulty_cron_purge(e) ==
    /\ outbox[e].state \in {"sent", "dead"}
    /\ outbox' = [outbox EXCEPT ![e] = [NoRow EXCEPT !.state = "purged"]]
    /\ UNCHANGED <<storeVars, remote, task, cron>>

\* A delivered row is deleted after the retention period.
_cron_purge(e) ==
    /\ outbox[e].state = "sent"
    /\ outbox' = [outbox EXCEPT ![e] = [NoRow EXCEPT !.state = "purged"]]
    /\ UNCHANGED <<storeVars, remote, task, cron>>

sync_order_to_odoo(t) ==
    \/ _load_order_snapshot(t) \/ find_sale_order_by_reference(t) \/ create_sale_order(t)
    \/ confirm_sale_order(t) \/ _persist_odoo_order_id(t) \/ CommitOdooId(t)
    \/ _retry(t) \/ WorkerCrash(t)

Dispatch(c) == \/ _claim_batch(c) \/ action_dispatch_now(c) \/ _cron_dispatch(c) \/ CronCrash(c)
               \/ \E e \in Events : _dispatch_one(c, e)

Upkeep(e) == \/ _enqueue_elitedom_inventory(e) \/ _enqueue_elitedom_catalog(e) \/ picking_write(e)
             \/ BackoffEnds(e) \/ action_retry(e) \/ _cron_purge(e)

Next == \/ Settle
        \/ \E t \in Tasks : sync_order_to_odoo(t)
        \/ \E c \in Crons : Dispatch(c)
        \/ \E e \in Events : Upkeep(e)

Spec == Init /\ [][Next]_vars

-------------------------------------------------------------------------------
(* Properties *)

TaskOK == [pc : {"waiting", "loaded", "absent", "confirm", "persist", "writing", "done"},
           retries : Nat, confirm : BOOLEAN, order : OdooIds \cup {0}]
RowOK  == [state : {"none", "pending", "sent", "dead", "purged"},
           order : OdooIds \cup {0}, attempts : Nat, due : BOOLEAN]
CronOK == [todo : SUBSET Events, sent : SUBSET Events,
           failed : SUBSET Events, refused : SUBSET Events]

\* Rows, tasks and transactions have the shapes of the tables and of the code.
TypeOK ==
    /\ settled \in BOOLEAN
    /\ odoo_order_id \in OdooIds \cup {0}
    /\ receipts \subseteq Events
    /\ effects \in [Events -> Nat]
    /\ remote \in [OdooIds -> {"none", "draft", "sale"}]
    /\ task \in [Tasks -> TaskOK]
    /\ outbox \in [Events -> RowOK]
    /\ cron \in [Crons -> CronOK]

\* odoo/README.md:21, "a worker crash or webhook retry cannot duplicate the
\* mutation": however often a row is claimed, posted and posted again, the store
\* applies its event once, and a row that says sent (or was purged) was applied.
AppliedOnce ==
    \A e \in Events : /\ effects[e] <= 1
                      /\ outbox[e].state \in {"sent", "purged"} => effects[e] = 1

\* tasks.py:372: the id the store keeps is that of an order Odoo has, and whatever
\* tasks race, Odoo confirms nothing the store has not settled.
OdooFollowsStore ==
    /\ odoo_order_id # 0 => Exists(odoo_order_id)
    /\ \A k \in OdooIds : remote[k] = "sale" => settled

Existing == {k \in OdooIds : Exists(k)}

\* tasks.py:432, "Create (or recover)": a delivery that is retried after any failure
\* finds what it created, so it alone never makes a second Odoo order.
OneOrderPerDelivery == Cardinality(Existing) <= Cardinality({t \in Tasks : task[t] # Waiting})

\* docs/CATALOG_AND_ODOO.md:36, "Odoo unavailability/retries must not duplicate
\* catalogue/inventory/order effects": one order of the store, one order in Odoo.
OneOdooOrder == Cardinality(Existing) <= 1

\* Odoo runs the cron every minute, a transaction goes on, and from some time on it
\* is not killed any more.
Fairness == /\ \A e \in Events : WF_vars(BackoffEnds(e))
            /\ \A c \in Crons : /\ SF_vars(_claim_batch(c)) /\ WF_vars(_cron_dispatch(c))
                                /\ \A e \in Events : WF_vars(_dispatch_one(c, e))
                                /\ <>[][~CronCrash(c)]_vars
FairSpec == Spec /\ Fairness

\* webhook_outbox.py:315: a committed event is not retried or forgotten for ever, it
\* is delivered or put on record as dead.
EventsSettle ==
    \A e \in Events : outbox[e].state = "pending" ~> outbox[e].state \in {"sent", "dead", "purged"}

(* The abstract promise *)
AbsLedger == [e \in Events |->
                CASE outbox[e].state = "none" -> "none"
                  [] outbox[e].state = "pending" -> "owed"
                  [] outbox[e].state \in {"sent", "purged"} -> "acked"
                  [] outbox[e].state = "dead" -> "abandoned"]
Abs == INSTANCE AtLeastOnceHandoff WITH ledger <- AbsLedger, delivered <- receipts

\* odoo/README.md:4, "signed inventory and fulfillment webhooks through a durable Odoo
\* outbox": the add-on keeps the safety half of AtLeastOnceHandoff.  Nothing once
\* enqueued is forgotten, whatever crashes undo, and a row that was sent or purged
\* stands for a receipt of the store.
ImplementsHandoff == Abs!AbsSafety
===============================================================================
