---------------------------- MODULE ConnectorProofs ----------------------------
(***************************************************************************)
(* Safety of the two directions between the store and Odoo for every       *)
(* number of tasks, events, dispatching transactions and attempts.         *)
(*                                                                         *)
(* AppliedOnce is about rows, but a row is marked sent by a transaction    *)
(* that posted it earlier: what a transaction holds as sent must already   *)
(* have a receipt (Justified).  OdooFollowsStore is about rows, but a task *)
(* confirms and stores on what it decided earlier: what a task or an       *)
(* event carries must already be true (Grounded).  The orders in Odoo are  *)
(* counted by giving each one the task that created it (Creator).          *)
(***************************************************************************)
EXTENDS Connector, FiniteSetTheorems, TLAPS

Justified ==
    /\ \A e \in Events : effects[e] = IF e \in receipts THEN 1 ELSE 0
    /\ \A e \in Events : outbox[e].state \in {"sent", "purged"} => e \in receipts
    /\ \A c \in Crons : cron[c].sent \subseteq receipts

Grounded ==
    /\ odoo_order_id # 0 => Exists(odoo_order_id)
    /\ \A k \in OdooIds : remote[k] = "sale" => settled
    /\ \A e \in Events : outbox[e].order # 0 => Exists(outbox[e].order)
    /\ \A t \in Tasks :
          /\ task[t].confirm => settled
          /\ task[t].pc = "confirm" => settled
          /\ task[t].pc \in {"confirm", "persist", "writing"} =>
                task[t].order # 0 /\ Exists(task[t].order)

\* f names the task that created each order.  That task never finds the order
\* absent again.
Creates(f) ==
    /\ f \in [Existing -> Tasks]
    /\ \A j, k \in Existing : f[j] = f[k] => j = k
    /\ \A k \in Existing : task[f[k]] # Waiting /\ task[f[k]].pc # "absent"

Creator == \E f : Creates(f)

CInv == TypeOK /\ Justified /\ Grounded /\ Creator

-------------------------------------------------------------------------------
(* Types *)

\* What a step writes into a task, a row or a transaction is one again.
LEMMA TaskShapes ==
    ASSUME NEW r \in TaskOK, NEW n \in Nat, NEW k \in OdooIds \cup {0}, NEW b \in BOOLEAN,
           NEW pc \in {"waiting", "loaded", "absent", "confirm", "persist", "writing", "done"}
    PROVE  /\ Waiting \in TaskOK /\ [Waiting EXCEPT !.pc = pc] \in TaskOK
           /\ [Waiting EXCEPT !.pc = pc, !.retries = n] \in TaskOK
           /\ [r EXCEPT !.pc = pc] \in TaskOK
           /\ [r EXCEPT !.pc = pc, !.confirm = b] \in TaskOK
           /\ [r EXCEPT !.order = k, !.confirm = b, !.pc = pc] \in TaskOK
           /\ r.retries + 1 \in Nat
<1>1. Waiting \in TaskOK /\ [Waiting EXCEPT !.pc = pc] \in TaskOK
  BY DEF TaskOK, Waiting
<1>2. [Waiting EXCEPT !.pc = pc, !.retries = n] \in TaskOK
  BY DEF TaskOK, Waiting
<1>3. [r EXCEPT !.pc = pc] \in TaskOK /\ [r EXCEPT !.pc = pc, !.confirm = b] \in TaskOK
  BY DEF TaskOK
<1>4. [r EXCEPT !.order = k, !.confirm = b, !.pc = pc] \in TaskOK
  BY DEF TaskOK
<1>5. r.retries + 1 \in Nat
  BY DEF TaskOK
<1> QED BY <1>1, <1>2, <1>3, <1>4, <1>5

LEMMA RowShapes ==
    ASSUME NEW r \in RowOK, NEW n \in Nat, NEW k \in OdooIds \cup {0}, NEW b \in BOOLEAN,
           NEW s \in {"none", "pending", "sent", "dead", "purged"}
    PROVE  /\ NoRow \in RowOK /\ [NoRow EXCEPT !.state = s] \in RowOK /\ NewRow(k) \in RowOK
           /\ [r EXCEPT !.state = s, !.attempts = n] \in RowOK
           /\ [r EXCEPT !.state = s, !.attempts = n, !.due = b] \in RowOK
           /\ [r EXCEPT !.state = s, !.due = b, !.attempts = n] \in RowOK
           /\ [r EXCEPT !.due = b] \in RowOK
           /\ r.attempts + 1 \in Nat
<1>1. NoRow \in RowOK /\ [NoRow EXCEPT !.state = s] \in RowOK
  BY DEF RowOK, NoRow
<1>2. NewRow(k) \in RowOK
  BY DEF RowOK, NewRow
<1>3. [r EXCEPT !.state = s, !.attempts = n] \in RowOK /\ [r EXCEPT !.due = b] \in RowOK
  BY DEF RowOK
<1>4. /\ [r EXCEPT !.state = s, !.attempts = n, !.due = b] \in RowOK
      /\ [r EXCEPT !.state = s, !.due = b, !.attempts = n] \in RowOK
  BY DEF RowOK
<1>5. r.attempts + 1 \in Nat
  BY DEF RowOK
<1> QED BY <1>1, <1>2, <1>3, <1>4, <1>5

LEMMA CronShapes ==
    ASSUME NEW r \in CronOK, NEW x \in SUBSET Events, NEW y \in SUBSET Events
    PROVE  /\ Idle \in CronOK
           /\ [r EXCEPT !.todo = x] \in CronOK
           /\ [r EXCEPT !.todo = x, !.sent = y] \in CronOK
           /\ [r EXCEPT !.todo = x, !.failed = y] \in CronOK
           /\ [r EXCEPT !.todo = x, !.refused = y] \in CronOK
<1>1. Idle \in CronOK BY DEF CronOK, Idle
<1>2. [r EXCEPT !.todo = x] \in CronOK BY DEF CronOK
<1>3. [r EXCEPT !.todo = x, !.sent = y] \in CronOK BY DEF CronOK
<1>4. [r EXCEPT !.todo = x, !.failed = y] \in CronOK BY DEF CronOK
<1>5. [r EXCEPT !.todo = x, !.refused = y] \in CronOK BY DEF CronOK
<1> QED BY <1>1, <1>2, <1>3, <1>4, <1>5

\* At the start there is nothing.
LEMMA InitTypes == Init => TypeOK
<1> SUFFICES ASSUME Init PROVE TypeOK
  OBVIOUS
<1>1. task \in [Tasks -> TaskOK]
  <2>1. Waiting \in TaskOK BY DEF Waiting, TaskOK
  <2> QED BY <2>1 DEF Init
<1>2. outbox \in [Events -> RowOK]
  <2>1. NoRow \in RowOK BY DEF NoRow, RowOK
  <2> QED BY <2>1 DEF Init
<1>3. cron \in [Crons -> CronOK]
  <2>1. Idle \in CronOK BY DEF Idle, CronOK
  <2> QED BY <2>1 DEF Init
<1>4. remote \in [OdooIds -> {"none", "draft", "sale"}] BY DEF Init
<1>5. effects \in [Events -> Nat] BY DEF Init
<1> QED BY <1>1, <1>2, <1>3, <1>4, <1>5 DEF Init, TypeOK

\* A step of a task writes that task only.
LEMMA TaskWritten ==
    ASSUME NEW t \in Tasks, sync_order_to_odoo(t), TypeOK
    PROVE  task' \in [Tasks -> TaskOK]
<1>1. task \in [Tasks -> TaskOK] /\ task[t] \in TaskOK BY DEF TypeOK
<1>2. /\ \A r \in TaskOK : [task EXCEPT ![t] = r] \in [Tasks -> TaskOK]
      /\ End(t) => task' \in [Tasks -> TaskOK]
      /\ Step(t, "absent") \/ Step(t, "persist") \/ Step(t, "writing") => task' \in [Tasks -> TaskOK]
  <2>1. [Waiting EXCEPT !.pc = "done"] \in TaskOK BY DEF Waiting, TaskOK
  <2>2. \A pc \in {"absent", "persist", "writing"} : [task[t] EXCEPT !.pc = pc] \in TaskOK
    BY <1>1 DEF TaskOK
  <2>3. \A pc \in {"absent", "persist", "writing"} :
           Step(t, pc) => task' = [task EXCEPT ![t] = [task[t] EXCEPT !.pc = pc]]
    BY <1>1 DEF Step
  <2> QED BY <1>1, <2>1, <2>2, <2>3 DEF End
<1>3. CASE _load_order_snapshot(t)
  <2>1. CASE End(t) BY <1>2, <2>1
  <2>2. CASE ~End(t)
    <3>1. task' = [task EXCEPT ![t] = [task[t] EXCEPT !.pc = "loaded", !.confirm = settled]]
      BY <1>1, <1>3, <2>2 DEF _load_order_snapshot, should_confirm
    <3> QED BY <1>1, <1>2, <3>1, TaskShapes DEF TypeOK
  <2> QED BY <2>1, <2>2
<1>4. CASE find_sale_order_by_reference(t)
  <2>1. CASE Step(t, "absent") BY <1>2, <2>1
  <2>2. CASE ~Step(t, "absent")
    <3>1. PICK k \in OdooIds, pc \in {"confirm", "persist"} :
             task' = [task EXCEPT ![t].order = k, ![t].confirm = FALSE, ![t].pc = pc]
      BY <1>4, <2>2 DEF find_sale_order_by_reference
    <3>2. task' = [task EXCEPT ![t] = [task[t] EXCEPT !.order = k, !.confirm = FALSE, !.pc = pc]]
      BY <1>1, <3>1
    <3> QED BY <1>1, <1>2, <3>2, TaskShapes
  <2> QED BY <2>1, <2>2
<1>5. CASE create_sale_order(t)
  <2>1. PICK k \in OdooIds, pc \in {"confirm", "persist"} :
           task' = [task EXCEPT ![t].order = k, ![t].confirm = FALSE, ![t].pc = pc]
    BY <1>5 DEF create_sale_order
  <2>2. task' = [task EXCEPT ![t] = [task[t] EXCEPT !.order = k, !.confirm = FALSE, !.pc = pc]]
    BY <1>1, <2>1
  <2> QED BY <1>1, <1>2, <2>2, TaskShapes
<1>6. CASE Step(t, "persist") BY <1>2, <1>6
<1>7. CASE Step(t, "writing") BY <1>2, <1>7
<1>8. CASE End(t) BY <1>2, <1>8
<1>9. CASE Restart(t, "waiting")
  <2>1. task[t].retries + 1 \in Nat BY <1>1, TaskShapes
  <2>2. [Waiting EXCEPT !.pc = "waiting", !.retries = task[t].retries + 1] \in TaskOK
    BY <1>1, <2>1, TaskShapes
  <2> QED BY <1>2, <1>9, <2>2 DEF Restart
<1> QED BY <1>3, <1>4, <1>5, <1>6, <1>7, <1>8, <1>9
        DEF sync_order_to_odoo, confirm_sale_order, _persist_odoo_order_id, CommitOdooId, _retry,
            WorkerCrash

\* The steps of a task keep the shapes.
LEMMA TaskTypes == ASSUME TypeOK, NEW t \in Tasks, sync_order_to_odoo(t) PROVE TypeOK'
<1>1. task' \in [Tasks -> TaskOK] BY TaskWritten
<1>2. task[t].order \in OdooIds \cup {0} BY DEF TypeOK, TaskOK
<1>3. outbox' \in [Events -> RowOK]
  <2>1. CASE confirm_sale_order(t)
    <3>1. ASSUME NEW e \in Events, enqueue(e, task[t].order) PROVE outbox' \in [Events -> RowOK]
      BY <1>2, <3>1, RowShapes DEF enqueue, TypeOK
    <3> QED BY <2>1, <3>1 DEF confirm_sale_order, TypeOK
  <2>2. CASE ~confirm_sale_order(t)
    BY <2>2 DEF sync_order_to_odoo, _load_order_snapshot, find_sale_order_by_reference,
                create_sale_order, _persist_odoo_order_id, CommitOdooId, _retry, WorkerCrash, TypeOK
  <2> QED BY <2>1, <2>2
<1>4. remote' \in [OdooIds -> {"none", "draft", "sale"}]
  BY DEF sync_order_to_odoo, _load_order_snapshot, find_sale_order_by_reference, confirm_sale_order,
         create_sale_order, _persist_odoo_order_id, CommitOdooId, _retry, WorkerCrash, TypeOK
<1>5. odoo_order_id' \in OdooIds \cup {0} /\ UNCHANGED <<settled, receipts, effects, cron>>
  BY <1>2 DEF sync_order_to_odoo, _load_order_snapshot, find_sale_order_by_reference,
         confirm_sale_order, create_sale_order, _persist_odoo_order_id, CommitOdooId, _retry,
         WorkerCrash, TypeOK, storeVars
<1> QED BY <1>1, <1>3, <1>4, <1>5 DEF TypeOK

\* The store's answer to a posted event keeps the shapes of its rows.
LEMMA AcceptTypes ==
    ASSUME TypeOK, NEW e \in Events, Accept(e)
    PROVE  /\ settled' \in BOOLEAN /\ odoo_order_id' \in OdooIds \cup {0}
           /\ receipts' \subseteq Events /\ effects' \in [Events -> Nat]
<1>1. outbox[e].order \in OdooIds \cup {0} BY DEF TypeOK, RowOK
<1> QED BY <1>1 DEF TypeOK, Accept, storeVars

\* An event moves from todo to one outcome.
LEMMA PostMoves ==
    ASSUME TypeOK, NEW c \in Crons, NEW e \in Events,
           NEW o \in {"sent", "failed", "refused"}, Post(c, e, o)
    PROVE  /\ cron' \in [Crons -> CronOK]
           /\ \A d \in Crons : cron'[d].sent \subseteq
                 cron[d].sent \cup (IF o = "sent" THEN {e} ELSE {})
<1>1. cron \in [Crons -> CronOK] /\ cron[c] \in CronOK BY DEF TypeOK
<1>2. /\ cron[c].todo \ {e} \in SUBSET Events /\ cron[c].sent \cup {e} \in SUBSET Events
      /\ cron[c].failed \cup {e} \in SUBSET Events /\ cron[c].refused \cup {e} \in SUBSET Events
  BY <1>1 DEF CronOK
<1>3. CASE o = "sent"
  <2>1. cron' = [cron EXCEPT ![c] = [cron[c] EXCEPT !.todo = cron[c].todo \ {e},
                                                   !.sent = cron[c].sent \cup {e}]]
    BY <1>3 DEF Post
  <2>2. cron' \in [Crons -> CronOK] BY <1>1, <1>2, <2>1, CronShapes
  <2>3. \A d \in Crons : cron'[d].sent \subseteq cron[d].sent \cup {e}
    BY <1>1, <2>1 DEF CronOK
  <2> QED BY <1>3, <2>2, <2>3
<1>4. CASE o = "failed"
  <2>1. cron' = [cron EXCEPT ![c] = [cron[c] EXCEPT !.todo = cron[c].todo \ {e},
                                                   !.failed = cron[c].failed \cup {e}]]
    BY <1>4 DEF Post
  <2>2. cron' \in [Crons -> CronOK] BY <1>1, <1>2, <2>1, CronShapes
  <2>3. \A d \in Crons : cron'[d].sent \subseteq cron[d].sent
    BY <1>1, <2>1 DEF CronOK
  <2> QED BY <1>4, <2>2, <2>3
<1>5. CASE o = "refused"
  <2>1. cron' = [cron EXCEPT ![c] = [cron[c] EXCEPT !.todo = cron[c].todo \ {e},
                                                   !.refused = cron[c].refused \cup {e}]]
    BY <1>5 DEF Post
  <2>2. cron' \in [Crons -> CronOK] BY <1>1, <1>2, <2>1, CronShapes
  <2>3. \A d \in Crons : cron'[d].sent \subseteq cron[d].sent
    BY <1>1, <2>1 DEF CronOK
  <2> QED BY <1>5, <2>2, <2>3
<1> QED BY <1>3, <1>4, <1>5

\* The steps of a dispatching transaction keep the shapes.
LEMMA DispatchTypes == ASSUME TypeOK, NEW c \in Crons, Dispatch(c) PROVE TypeOK'
<1>1. cron \in [Crons -> CronOK] /\ cron[c] \in CronOK BY DEF TypeOK
<1>2. CASE _claim_batch(c) \/ action_dispatch_now(c) \/ CronCrash(c)
  <2>1. \E r \in CronOK : cron' = [cron EXCEPT ![c] = r]
    <3>1. Due \ Locked \in SUBSET Events BY DEF Due
    <3>2. \A x \in SUBSET Events : [cron EXCEPT ![c].todo = x] = [cron EXCEPT ![c] = [cron[c] EXCEPT !.todo = x]]
      OBVIOUS
    <3> QED BY <1>1, <1>2, <3>1, <3>2, CronShapes DEF _claim_batch, action_dispatch_now, CronCrash
  <2>2. UNCHANGED <<storeVars, remote, task, outbox>>
    BY <1>2 DEF _claim_batch, action_dispatch_now, CronCrash
  <2> QED BY <1>1, <2>1, <2>2 DEF TypeOK, storeVars
<1>3. CASE _cron_dispatch(c)
  <2>1. ASSUME NEW e \in Events, NEW retryable \in BOOLEAN
        PROVE  outbox[e] \in RowOK /\ _mark_sent(e) \in RowOK /\ _mark_failure(e, retryable) \in RowOK
    <3>1. outbox[e] \in RowOK BY DEF TypeOK
    <3>2. _mark_sent(e) \in RowOK BY <3>1, RowShapes DEF _mark_sent
    <3>3. _mark_failure(e, retryable) \in RowOK BY <3>1, RowShapes DEF _mark_failure
    <3> QED BY <3>1, <3>2, <3>3
  <2>2. outbox' \in [Events -> RowOK] BY <1>3, <2>1 DEF _cron_dispatch
  <2>3. cron' \in [Crons -> CronOK] BY <1>1, <1>3, CronShapes DEF _cron_dispatch
  <2> QED BY <1>3, <2>2, <2>3 DEF _cron_dispatch, TypeOK, storeVars
<1>4. ASSUME NEW e \in Events, _dispatch_one(c, e) PROVE TypeOK'
  <2>1. \E o \in {"sent", "failed", "refused"} : Post(c, e, o)
    BY <1>4 DEF _dispatch_one
  <2>2. UNCHANGED storeVars \/ Accept(e)
    BY <1>4 DEF _dispatch_one
  <2>3. UNCHANGED <<remote, task, outbox>>
    BY <1>4 DEF _dispatch_one
  <2> QED BY <2>1, <2>2, <2>3, PostMoves, AcceptTypes DEF TypeOK, storeVars
<1> QED BY <1>2, <1>3, <1>4 DEF Dispatch

\* The add-on's own steps keep the shapes.
LEMMA UpkeepTypes == ASSUME TypeOK, NEW e \in Events, Upkeep(e) PROVE TypeOK'
<1>1. outbox \in [Events -> RowOK] /\ outbox[e] \in RowOK BY DEF TypeOK
<1>2. outbox' \in [Events -> RowOK]
  <2>1. ASSUME NEW k \in OdooIds \cup {0}, enqueue(e, k) PROVE outbox' \in [Events -> RowOK]
    BY <1>1, <2>1, RowShapes DEF enqueue
  <2>2. CASE BackoffEnds(e)
    <3>1. outbox' = [outbox EXCEPT ![e] = [outbox[e] EXCEPT !.due = TRUE]] BY <2>2 DEF BackoffEnds
    <3> QED BY <1>1, <3>1, RowShapes
  <2>3. CASE action_retry(e) BY <1>1, <2>3, RowShapes DEF action_retry
  <2>4. CASE _cron_purge(e) BY <1>1, <2>4, RowShapes DEF _cron_purge
  <2> QED BY <2>1, <2>2, <2>3, <2>4
          DEF Upkeep, _enqueue_elitedom_inventory, _enqueue_elitedom_catalog, picking_write
<1>3. UNCHANGED <<storeVars, remote, task, cron>>
  BY DEF Upkeep, _enqueue_elitedom_inventory, _enqueue_elitedom_catalog,
         picking_write, BackoffEnds, action_retry, _cron_purge
<1> QED BY <1>2, <1>3 DEF TypeOK, storeVars

\* Every step keeps the shapes.
LEMMA NextTypes == TypeOK /\ [Next]_vars => TypeOK'
<1> SUFFICES ASSUME TypeOK, [Next]_vars PROVE TypeOK'
  OBVIOUS
<1>1. CASE UNCHANGED vars BY <1>1 DEF TypeOK, vars
<1>2. CASE Settle BY <1>2 DEF TypeOK, Settle
<1> QED BY <1>1, <1>2, TaskTypes, DispatchTypes, UpkeepTypes DEF Next

-------------------------------------------------------------------------------
(* A receipt for everything that is marked or about to be marked sent *)

\* Whether the store applied the event now or before, it has a receipt, and one
\* effect for each receipt.
LEMMA AcceptJustifies ==
    ASSUME TypeOK, Justified, NEW e \in Events, Accept(e)
    PROVE  /\ \A f \in Events : effects'[f] = IF f \in receipts' THEN 1 ELSE 0
           /\ receipts \subseteq receipts' /\ e \in receipts'
<1>1. CASE _claim_delivery(e)
  <2>1. effects[e] = 0 BY <1>1 DEF Justified, _claim_delivery
  <2>2. /\ receipts' = receipts \cup {e} /\ effects' = [effects EXCEPT ![e] = @ + 1]
    BY <1>1 DEF Accept
  <2>3. effects'[e] = 1 BY <2>1, <2>2 DEF TypeOK
  <2> QED BY <2>2, <2>3 DEF TypeOK, Justified
<1>2. CASE ~_claim_delivery(e)
  BY <1>2 DEF Accept, _claim_delivery, storeVars, Justified
<1> QED BY <1>1, <1>2

\* A posted event is held as sent only when the store has answered.
LEMMA DispatchOneJustified ==
    ASSUME TypeOK, Justified, NEW c \in Crons, NEW e \in Events, _dispatch_one(c, e)
    PROVE  Justified'
<1>1. UNCHANGED outbox BY DEF _dispatch_one
<1>2. CASE \E o \in {"sent", "failed"} : Accept(e) /\ Post(c, e, o)
  <2>1. \A d \in Crons : cron'[d].sent \subseteq cron[d].sent \cup {e}
    BY <1>2, PostMoves
  <2> QED BY <1>1, <1>2, <2>1, AcceptJustifies DEF Justified
<1>3. CASE \E o \in {"failed", "refused"} : UNCHANGED storeVars /\ Post(c, e, o)
  <2>1. \A d \in Crons : cron'[d].sent \subseteq cron[d].sent
    BY <1>3, PostMoves
  <2> QED BY <1>1, <1>3, <2>1 DEF Justified, storeVars
<1> QED BY <1>2, <1>3 DEF _dispatch_one

\* The commit of a transaction marks sent what it holds as sent.
LEMMA CronDispatchJustified ==
    ASSUME TypeOK, Justified, NEW c \in Crons, _cron_dispatch(c)
    PROVE  Justified'
<1>1. UNCHANGED <<receipts, effects>> BY DEF _cron_dispatch, storeVars
<1>2. \A d \in Crons : cron'[d].sent \subseteq receipts
  BY DEF _cron_dispatch, Idle, TypeOK, Justified
<1>3. ASSUME NEW e \in Events, outbox'[e].state \in {"sent", "purged"} PROVE e \in receipts
  <2>1. \A b \in BOOLEAN : _mark_failure(e, b).state \notin {"sent", "purged"}
    <3>1. outbox[e] \in RowOK BY DEF TypeOK
    <3> QED BY <3>1 DEF _mark_failure, RowOK
  <2>2. outbox'[e] = _mark_failure(e, TRUE) \/ outbox'[e] = _mark_failure(e, FALSE)
           \/ e \in cron[c].sent \/ outbox'[e] = outbox[e]
    BY DEF _cron_dispatch
  <2> QED BY <1>3, <2>1, <2>2 DEF Justified
<1> QED BY <1>1, <1>2, <1>3 DEF Justified

\* What the add-on's own steps write: a row that says sent or purged said so before,
\* and a row that names an order named it before, or is about a confirmed one.
LEMMA UpkeepWrites ==
    ASSUME TypeOK, NEW e \in Events, Upkeep(e)
    PROVE  \A f \in Events :
             /\ outbox'[f].state \in {"sent", "purged"} => outbox[f].state \in {"sent", "purged"}
             /\ \/ outbox'[f].order \in {0, outbox[f].order}
                \/ outbox'[f].order \in OdooIds /\ remote[outbox'[f].order] = "sale"
<1>1. outbox \in [Events -> RowOK] /\ outbox[e] \in RowOK BY DEF TypeOK
<1>2. CASE \E k \in OdooIds \cup {0} : enqueue(e, k) /\ (k # 0 => remote[k] = "sale")
  <2>1. PICK k \in OdooIds \cup {0} : enqueue(e, k) /\ (k # 0 => remote[k] = "sale")
    BY <1>2
  <2>2. outbox' = [outbox EXCEPT ![e] = NewRow(k)] BY <2>1 DEF enqueue
  <2>3. NewRow(k).state = "pending" /\ NewRow(k).order = k BY DEF NewRow
  <2> QED BY <1>1, <2>1, <2>2, <2>3
<1>3. CASE BackoffEnds(e)
  <2>1. outbox' = [outbox EXCEPT ![e] = [outbox[e] EXCEPT !.due = TRUE]] BY <1>3 DEF BackoffEnds
  <2>2. /\ [outbox[e] EXCEPT !.due = TRUE].state = outbox[e].state
        /\ [outbox[e] EXCEPT !.due = TRUE].order = outbox[e].order
    BY <1>1 DEF RowOK
  <2> QED BY <1>1, <2>1, <2>2
<1>4. CASE action_retry(e)
  <2> DEFINE r == [outbox[e] EXCEPT !.state = "pending", !.due = TRUE, !.attempts = 0]
  <2>1. outbox' = [outbox EXCEPT ![e] = r] BY <1>4 DEF action_retry
  <2>2. r.state = "pending" /\ r.order = outbox[e].order BY <1>1 DEF RowOK
  <2> QED BY <1>1, <2>1, <2>2
<1>5. CASE _cron_purge(e)
  <2>1. outbox' = [outbox EXCEPT ![e] = [NoRow EXCEPT !.state = "purged"]] BY <1>5 DEF _cron_purge
  <2>2. [NoRow EXCEPT !.state = "purged"].order = 0 BY DEF NoRow
  <2> QED BY <1>1, <1>5, <2>1, <2>2 DEF _cron_purge
<1>6. CASE picking_write(e)
  BY <1>2, <1>6, ConnectorAssumption DEF picking_write
<1>7. CASE _enqueue_elitedom_inventory(e) \/ _enqueue_elitedom_catalog(e)
  BY <1>2, <1>7 DEF _enqueue_elitedom_inventory, _enqueue_elitedom_catalog
<1> QED BY <1>3, <1>4, <1>5, <1>6, <1>7 DEF Upkeep

\* Every step keeps the receipts and the rows in agreement.
LEMMA NextJustified == TypeOK /\ Justified /\ [Next]_vars => Justified'
<1> SUFFICES ASSUME TypeOK, Justified, [Next]_vars PROVE Justified'
  OBVIOUS
<1>1. CASE UNCHANGED vars \/ Settle BY <1>1 DEF Justified, vars, Settle
<1>2. ASSUME NEW t \in Tasks, sync_order_to_odoo(t) PROVE Justified'
  <2>1. UNCHANGED <<receipts, effects, cron>>
    BY <1>2 DEF sync_order_to_odoo, _load_order_snapshot, find_sale_order_by_reference,
         confirm_sale_order, create_sale_order, _persist_odoo_order_id, CommitOdooId, _retry,
         WorkerCrash, storeVars
  <2>2. CASE UNCHANGED outbox BY <2>1, <2>2 DEF Justified
  <2>3. ASSUME NEW e \in Events, enqueue(e, task[t].order) PROVE Justified'
    BY <2>1, <2>3 DEF enqueue, NewRow, TypeOK, Justified
  <2> QED BY <1>2, <2>2, <2>3
      DEF sync_order_to_odoo, _load_order_snapshot, find_sale_order_by_reference,
         confirm_sale_order, create_sale_order, _persist_odoo_order_id, CommitOdooId, _retry,
         WorkerCrash
<1>3. ASSUME NEW c \in Crons, Dispatch(c) PROVE Justified'
  <2>1. CASE _claim_batch(c) \/ action_dispatch_now(c) \/ CronCrash(c)
    <3>1. UNCHANGED <<receipts, effects, outbox>>
      BY <2>1 DEF _claim_batch, action_dispatch_now, CronCrash, storeVars
    <3>2. \A d \in Crons : cron'[d].sent \subseteq cron[d].sent
      BY <2>1 DEF _claim_batch, action_dispatch_now, CronCrash, TypeOK, CronOK, Idle
    <3> QED BY <3>1, <3>2 DEF Justified
  <2> QED BY <1>3, <2>1, CronDispatchJustified, DispatchOneJustified DEF Dispatch
<1>4. ASSUME NEW e \in Events, Upkeep(e) PROVE Justified'
  <2>1. UNCHANGED <<receipts, effects, cron>>
    BY <1>4 DEF Upkeep, _enqueue_elitedom_inventory, _enqueue_elitedom_catalog, picking_write,
                BackoffEnds, action_retry, _cron_purge, storeVars
  <2>2. \A f \in Events : outbox'[f].state \in {"sent", "purged"} =>
                             outbox[f].state \in {"sent", "purged"}
    BY <1>4, UpkeepWrites
  <2> QED BY <2>1, <2>2 DEF Justified
<1> QED BY <1>1, <1>2, <1>3, <1>4 DEF Next

-------------------------------------------------------------------------------
(* What tasks and events carry is true *)

\* An order Odoo has stays there.
LEMMA OrdersStay ==
    ASSUME TypeOK, NEW t \in Tasks, sync_order_to_odoo(t), NEW k \in OdooIds, Exists(k)
    PROVE  Exists(k)'
  BY DEF sync_order_to_odoo, _load_order_snapshot, find_sale_order_by_reference,
         confirm_sale_order, create_sale_order, _persist_odoo_order_id, CommitOdooId, _retry,
         WorkerCrash, Exists, TypeOK

\* A task carries the order it found or created, and confirms what is settled.
LEMMA TaskGrounded ==
    ASSUME TypeOK, Grounded, NEW t \in Tasks, sync_order_to_odoo(t)
    PROVE  Grounded'
<1> DEFINE Carries(u) == /\ task[u].confirm => settled
                         /\ task[u].pc = "confirm" => settled
                         /\ task[u].pc \in {"confirm", "persist", "writing"} =>
                               task[u].order # 0 /\ Exists(task[u].order)
<1>0. task[t] \in TaskOK /\ task[t].order \in OdooIds \cup {0} BY DEF TypeOK, TaskOK
<1>1. settled' = settled
  BY DEF sync_order_to_odoo, _load_order_snapshot, find_sale_order_by_reference,
         confirm_sale_order, create_sale_order, _persist_odoo_order_id, CommitOdooId, _retry,
         WorkerCrash, storeVars
<1>2. ASSUME NEW u \in Tasks, u # t PROVE Carries(u)'
  <2>1. task'[u] = task[u]
    BY <1>2 DEF sync_order_to_odoo, _load_order_snapshot, find_sale_order_by_reference,
         confirm_sale_order, create_sale_order, _persist_odoo_order_id, CommitOdooId, _retry,
         WorkerCrash, Step, End, Restart, TypeOK
  <2>2. task[u].order \in OdooIds \cup {0} BY DEF TypeOK, TaskOK
  <2> QED BY <1>1, <2>1, <2>2, OrdersStay DEF Grounded
<1>3. Carries(t)'
  <2>1. CASE _load_order_snapshot(t)
    BY <1>0, <2>1 DEF _load_order_snapshot, should_confirm, End, Waiting, storeVars, TypeOK, TaskOK
  <2>2. CASE find_sale_order_by_reference(t)
    <3>1. UNCHANGED remote BY <2>2 DEF find_sale_order_by_reference
    <3>2. CASE Step(t, "absent")
      <4>1. task'[t] = [task[t] EXCEPT !.pc = "absent"] BY <3>2 DEF Step, TypeOK
      <4>2. task'[t].pc = "absent" /\ task'[t].confirm = task[t].confirm BY <1>0, <4>1 DEF TaskOK
      <4> QED BY <1>1, <4>2 DEF Grounded
    <3>3. CASE ~Step(t, "absent")
      <4>1. PICK k \in OdooIds :
              /\ Exists(k)
              /\ task' = [task EXCEPT ![t].order = k, ![t].confirm = FALSE,
                                      ![t].pc = IF task[t].confirm /\ remote[k] = "draft"
                                                THEN "confirm" ELSE "persist"]
        BY <2>2, <3>3 DEF find_sale_order_by_reference
      <4>2. /\ task'[t].order = k /\ task'[t].confirm = FALSE
            /\ task'[t].pc = "confirm" => task[t].confirm
        BY <1>0, <4>1 DEF TypeOK, TaskOK
      <4> QED BY <1>1, <3>1, <4>1, <4>2, ConnectorAssumption DEF Grounded, Exists
    <3> QED BY <3>2, <3>3
  <2>3. CASE create_sale_order(t)
    BY <1>0, <2>3, ConnectorAssumption DEF create_sale_order, storeVars, TypeOK, TaskOK, Grounded, Exists
  <2>4. CASE confirm_sale_order(t)
    BY <1>0, <2>4, ConnectorAssumption DEF confirm_sale_order, Step, storeVars, TypeOK, TaskOK, Grounded, Exists
  <2>5. CASE _persist_odoo_order_id(t)
    BY <1>0, <2>5 DEF _persist_odoo_order_id, Step, End, Waiting, storeVars, TypeOK, TaskOK, Grounded, Exists
  <2>6. CASE CommitOdooId(t) \/ _retry(t) \/ WorkerCrash(t)
    <3>1. CASE End(t)
      <4>1. task'[t] = [Waiting EXCEPT !.pc = "done"] BY <3>1 DEF End, TypeOK
      <4> QED BY <4>1 DEF Waiting
    <3>2. CASE Restart(t, "waiting")
      <4>1. task'[t] = [Waiting EXCEPT !.pc = "waiting", !.retries = task[t].retries + 1]
        BY <3>2 DEF Restart, TypeOK
      <4> QED BY <4>1 DEF Waiting
    <3> QED BY <2>6, <3>1, <3>2 DEF CommitOdooId, _retry, WorkerCrash
  <2> QED BY <2>1, <2>2, <2>3, <2>4, <2>5, <2>6 DEF sync_order_to_odoo
<1>4. odoo_order_id' # 0 => Exists(odoo_order_id)'
  <2>1. CASE CommitOdooId(t)
    BY <2>1 DEF CommitOdooId, Grounded, Exists
  <2>2. CASE ~CommitOdooId(t)
    <3>1. odoo_order_id' = odoo_order_id
      BY <2>2 DEF sync_order_to_odoo, _load_order_snapshot, find_sale_order_by_reference,
           confirm_sale_order, create_sale_order, _persist_odoo_order_id, _retry, WorkerCrash, storeVars
    <3> QED BY <3>1, OrdersStay DEF Grounded, TypeOK
  <2> QED BY <2>1, <2>2
<1>5. \A k \in OdooIds : remote'[k] = "sale" => settled'
  <2>1. CASE confirm_sale_order(t) BY <1>1, <2>1 DEF confirm_sale_order, Grounded, TypeOK
  <2>2. CASE ~confirm_sale_order(t)
    BY <1>1, <2>2 DEF sync_order_to_odoo, _load_order_snapshot, find_sale_order_by_reference,
         create_sale_order, _persist_odoo_order_id, CommitOdooId, _retry, WorkerCrash, Grounded, TypeOK
  <2> QED BY <2>1, <2>2
<1>6. ASSUME NEW e \in Events, outbox'[e].order # 0 PROVE remote'[outbox'[e].order] # "none"
  <2>1. outbox[e].order \in OdooIds \cup {0} BY DEF TypeOK, RowOK
  <2>2. CASE outbox'[e] = outbox[e] BY <1>6, <2>1, <2>2, OrdersStay DEF Grounded, Exists
  <2>3. CASE outbox'[e] # outbox[e]
    <3>1. confirm_sale_order(t)
      BY <2>3 DEF sync_order_to_odoo, _load_order_snapshot, find_sale_order_by_reference,
           create_sale_order, _persist_odoo_order_id, CommitOdooId, _retry, WorkerCrash
    <3>2. outbox'[e] = NewRow(task[t].order)
      BY <2>3, <3>1 DEF confirm_sale_order, enqueue, TypeOK
    <3>3. outbox'[e].order = task[t].order BY <3>2 DEF NewRow
    <3> QED BY <1>0, <1>6, <3>1, <3>3, OrdersStay DEF confirm_sale_order, Grounded, Exists
  <2> QED BY <2>2, <2>3
<1> QED BY <1>2, <1>3, <1>4, <1>5, <1>6 DEF Grounded, Exists

\* The add-on enqueues orders it has.
LEMMA UpkeepGrounded ==
    ASSUME TypeOK, Grounded, NEW e \in Events, Upkeep(e)
    PROVE  Grounded'
<1>1. UNCHANGED <<settled, odoo_order_id, remote, task>>
  BY DEF Upkeep, _enqueue_elitedom_inventory, _enqueue_elitedom_catalog, picking_write,
         BackoffEnds, action_retry, _cron_purge, storeVars
<1>2. \A f \in Events :
        \/ outbox'[f].order \in {0, outbox[f].order}
        \/ outbox'[f].order \in OdooIds /\ remote[outbox'[f].order] = "sale"
  BY UpkeepWrites
<1>3. \A f \in Events : outbox'[f].order # 0 => remote[outbox'[f].order] # "none"
  BY <1>2 DEF Grounded, Exists
<1>4. \A f \in Events : (outbox[f].order # 0)' => Exists(outbox[f].order)'
  BY <1>1, <1>3 DEF Exists
<1>5. /\ (odoo_order_id # 0)' => Exists(odoo_order_id)'
      /\ \A k \in OdooIds : (remote[k] = "sale" => settled)'
      /\ \A t \in Tasks :
            /\ (task[t].confirm => settled)'
            /\ (task[t].pc = "confirm" => settled)'
            /\ (task[t].pc \in {"confirm", "persist", "writing"})' =>
                  (task[t].order # 0)' /\ Exists(task[t].order)'
  BY <1>1 DEF Grounded, Exists
<1> QED BY <1>4, <1>5 DEF Grounded

\* The store takes over an order an event names.
LEMMA DispatchGrounded ==
    ASSUME TypeOK, Grounded, NEW c \in Crons, Dispatch(c)
    PROVE  Grounded'
<1>1. UNCHANGED <<remote, task, settled>>
  BY DEF Dispatch, _claim_batch, action_dispatch_now, _cron_dispatch, CronCrash, _dispatch_one,
         Accept, storeVars
<1>2. \A f \in Events : outbox'[f].order = outbox[f].order
  <2>1. CASE _cron_dispatch(c)
    <3>1. \A f \in Events : /\ _mark_sent(f).order = outbox[f].order
                            /\ \A b \in BOOLEAN : _mark_failure(f, b).order = outbox[f].order
      BY DEF _mark_sent, _mark_failure, TypeOK, RowOK
    <3> QED BY <2>1, <3>1 DEF _cron_dispatch
  <2>2. CASE ~_cron_dispatch(c)
    BY <2>2 DEF Dispatch, _claim_batch, action_dispatch_now, CronCrash, _dispatch_one
  <2> QED BY <2>1, <2>2
<1>3. odoo_order_id' # 0 => Exists(odoo_order_id')
  <2>1. CASE UNCHANGED odoo_order_id BY <2>1 DEF Grounded
  <2>2. CASE \E e \in Events : Accept(e)
    BY <2>2 DEF Accept, storeVars, Grounded
  <2> QED BY <2>1, <2>2
      DEF Dispatch, _claim_batch, action_dispatch_now, _cron_dispatch, CronCrash, _dispatch_one, storeVars
<1> QED BY <1>1, <1>2, <1>3 DEF Grounded, Exists

\* Every step keeps what is carried true.
LEMMA NextGrounded == TypeOK /\ Grounded /\ [Next]_vars => Grounded'
<1> SUFFICES ASSUME TypeOK, Grounded, [Next]_vars PROVE Grounded'
  OBVIOUS
<1>1. CASE UNCHANGED vars BY <1>1 DEF Grounded, Exists, vars
<1>2. CASE Settle BY <1>2 DEF Grounded, Exists, Settle
<1> QED BY <1>1, <1>2, TaskGrounded, UpkeepGrounded, DispatchGrounded DEF Next

-------------------------------------------------------------------------------
(* One order for each task *)

\* Tasks leave the state Waiting for good, and one that created an order will not
\* find the order absent.
LEMMA CreatorStays ==
    ASSUME TypeOK, NEW f, Creates(f), [Next]_vars, Existing' = Existing
    PROVE  Creates(f)'
<1> SUFFICES ASSUME NEW k \in Existing PROVE task'[f[k]] # Waiting /\ task'[f[k]].pc # "absent"
  BY DEF Creates
<1> DEFINE t == f[k]
<1>2. t \in Tasks /\ task[t] # Waiting /\ task[t].pc # "absent" BY DEF Creates
<1>3. task \in [Tasks -> TaskOK] /\ task[t] \in TaskOK BY <1>2 DEF TypeOK
<1>4. CASE UNCHANGED task BY <1>2, <1>4
<1>5. CASE sync_order_to_odoo(t)
  <2>1. CASE End(t)
    <3>1. task'[t] = [Waiting EXCEPT !.pc = "done"] BY <1>2, <1>3, <2>1 DEF End
    <3> QED BY <3>1 DEF Waiting
  <2>2. CASE Restart(t, "waiting")
    <3>1. task'[t] = [Waiting EXCEPT !.pc = "waiting", !.retries = task[t].retries + 1]
      BY <1>2, <1>3, <2>2 DEF Restart
    <3>2. task'[t].retries = task[t].retries + 1 /\ task'[t].pc = "waiting" BY <3>1 DEF Waiting
    <3>3. task[t].retries \in Nat BY <1>3 DEF TaskOK
    <3>4. task'[t].retries # 0 BY <3>2, <3>3
    <3> QED BY <3>2, <3>4 DEF Waiting
  <2>3. CASE task'[t].pc \in {"loaded", "confirm", "persist", "writing"}
    BY <2>3 DEF Waiting
  <2>4. CASE find_sale_order_by_reference(t)
    <3>1. PICK j \in OdooIds :
            task' = [task EXCEPT ![t].order = j, ![t].confirm = FALSE,
                                 ![t].pc = IF task[t].confirm /\ remote[j] = "draft"
                                           THEN "confirm" ELSE "persist"]
      BY <2>4 DEF find_sale_order_by_reference, Existing
    <3> QED BY <1>2, <1>3, <2>3, <3>1 DEF TaskOK
  <2>5. CASE _load_order_snapshot(t)
    BY <1>2, <1>3, <2>1, <2>3, <2>5 DEF _load_order_snapshot, TaskOK
  <2>6. CASE create_sale_order(t)
    BY <1>2, <2>6 DEF create_sale_order
  <2>7. CASE Step(t, "persist") \/ Step(t, "writing")
    BY <1>2, <1>3, <2>3, <2>7 DEF Step, TaskOK
  <2> QED BY <1>5, <2>1, <2>2, <2>4, <2>5, <2>6, <2>7
      DEF sync_order_to_odoo, confirm_sale_order, _persist_odoo_order_id, CommitOdooId, _retry,
          WorkerCrash
<1>6. ASSUME NEW u \in Tasks, u # t, sync_order_to_odoo(u) PROVE task'[t] = task[t]
  BY <1>2, <1>3, <1>6 DEF sync_order_to_odoo, _load_order_snapshot, find_sale_order_by_reference,
     confirm_sale_order, create_sale_order, _persist_odoo_order_id, CommitOdooId, _retry,
     WorkerCrash, Step, End, Restart
<1>7. CASE \E u \in Tasks : sync_order_to_odoo(u) BY <1>2, <1>5, <1>6, <1>7
<1>8. CASE \A u \in Tasks : ~sync_order_to_odoo(u)
  BY <1>4, <1>8 DEF Next, vars, Settle, Dispatch, Upkeep, _claim_batch, action_dispatch_now,
     _cron_dispatch, CronCrash, _dispatch_one, _enqueue_elitedom_inventory,
     _enqueue_elitedom_catalog, picking_write, BackoffEnds, action_retry, _cron_purge
<1> QED BY <1>7, <1>8

\* A new order is the first one of the task that creates it.
LEMMA CreatorGrows ==
    ASSUME TypeOK, NEW f, Creates(f), NEW t \in Tasks, create_sale_order(t)
    PROVE  Creator'
<1>1. PICK k \in OdooIds :
        /\ ~Exists(k)
        /\ remote' = [remote EXCEPT ![k] = "draft"]
        /\ task' = [task EXCEPT ![t].order = k, ![t].confirm = FALSE,
                                ![t].pc = IF task[t].confirm THEN "confirm" ELSE "persist"]
  BY DEF create_sale_order
<1> DEFINE g == [j \in Existing \cup {k} |-> IF j = k THEN t ELSE f[j]]
<1>2. Existing' = Existing \cup {k} /\ k \notin Existing
  BY <1>1 DEF Existing, Exists, TypeOK
<1>3. task[t].pc = "absent" /\ task[t] \in TaskOK BY DEF create_sale_order, TypeOK
<1>4. \A j \in Existing : f[j] \in Tasks /\ f[j] # t BY <1>3 DEF Creates
<1>5. g \in [Existing' -> Tasks] BY <1>2, <1>4
<1>6. \A i, j \in Existing' : g[i] = g[j] => i = j BY <1>2, <1>4 DEF Creates
<1>7. \A j \in Existing : task'[g[j]] = task[f[j]] BY <1>1, <1>2, <1>4 DEF TypeOK
<1>8. task'[t].pc \in {"confirm", "persist"} BY <1>1, <1>3 DEF TypeOK, TaskOK
<1>9. \A j \in Existing' : task'[g[j]] # Waiting /\ task'[g[j]].pc # "absent"
  <2>1. task'[g[k]] # Waiting /\ task'[g[k]].pc # "absent" BY <1>8 DEF Waiting
  <2>2. \A j \in Existing : task'[g[j]] # Waiting /\ task'[g[j]].pc # "absent"
    BY <1>7 DEF Creates
  <2> QED BY <1>2, <2>1, <2>2
<1>10. \E h : h = g OBVIOUS
<1> HIDE DEF g
<1>11. PICK h : h = g BY <1>10
<1>12. Creates(h)' BY <1>5, <1>6, <1>9, <1>11 DEF Creates
<1> QED BY <1>12 DEF Creator

\* Every step leaves each order with a creator of its own.
LEMMA NextCreator == TypeOK /\ Creator /\ [Next]_vars => Creator'
<1> SUFFICES ASSUME TypeOK, Creator, [Next]_vars PROVE Creator'
  OBVIOUS
<1>1. PICK f : Creates(f) BY DEF Creator
<1>2. CASE \E t \in Tasks : create_sale_order(t)
  BY <1>1, <1>2, CreatorGrows
<1>3. CASE Existing' = Existing
  <2>1. Creates(f)' BY <1>1, <1>3, CreatorStays
  <2> QED BY <2>1 DEF Creator
<1>4. CASE \A t \in Tasks : ~create_sale_order(t)
  <2>1. ASSUME NEW k \in OdooIds PROVE remote'[k] # "none" <=> remote[k] # "none"
    BY <1>4 DEF Next, vars, Settle, Dispatch, Upkeep, _claim_batch, action_dispatch_now,
       _cron_dispatch, CronCrash, _dispatch_one, _enqueue_elitedom_inventory,
       _enqueue_elitedom_catalog, picking_write, BackoffEnds, action_retry, _cron_purge,
       sync_order_to_odoo, _load_order_snapshot, find_sale_order_by_reference,
       confirm_sale_order, _persist_odoo_order_id, CommitOdooId, _retry, WorkerCrash, TypeOK
  <2>2. Existing' = Existing BY <2>1 DEF Existing, Exists
  <2> QED BY <1>3, <2>2
<1> QED BY <1>2, <1>4

\* Orders are not more than the tasks that have created one, which are among those
\* that have started.
LEMMA CreatorBounds == TypeOK /\ Creator => OneOrderPerDelivery
<1> SUFFICES ASSUME TypeOK, Creator PROVE OneOrderPerDelivery
  OBVIOUS
<1> DEFINE Started == {t \in Tasks : task[t] # Waiting}
<1>1. PICK f : Creates(f) BY DEF Creator
<1>2. f \in Injection(Existing, Started) BY <1>1 DEF Creates, Injection, IsInjective
<1>3. IsFiniteSet(Started) BY ConnectorAssumption, FS_Subset
<1>4. Cardinality(Existing) <= Cardinality(Started) BY <1>2, <1>3, FS_Injection
<1> QED BY <1>4 DEF OneOrderPerDelivery

-------------------------------------------------------------------------------
(* The theorems *)

\* Nothing exists, is held or is carried at the start.
LEMMA InitCInv == Init => CInv
<1> SUFFICES ASSUME Init PROVE CInv
  OBVIOUS
<1>1. TypeOK BY InitTypes
<1>2. Justified BY DEF Init, Justified, NoRow, Idle
<1>3. Grounded BY DEF Init, Grounded, NoRow, Waiting
<1>4. Creates([k \in {} |-> 0])
  <2>1. Existing = {} BY DEF Init, Existing, Exists
  <2> QED BY <2>1 DEF Creates
<1> QED BY <1>1, <1>2, <1>3, <1>4 DEF CInv, Creator

\* The inductive invariant of both directions holds in every reachable state.
THEOREM ConnectorInvariant == Spec => []CInv
<1>1. CInv /\ [Next]_vars => CInv'
  BY NextTypes, NextJustified, NextGrounded, NextCreator DEF CInv
<1> QED BY <1>1, InitCInv, PTL DEF Spec

\* Type correctness for any tasks, events, transactions and limits.
THEOREM ConnectorTypes == Spec => []TypeOK
<1>1. CInv => TypeOK BY DEF CInv
<1> QED BY <1>1, ConnectorInvariant, PTL

\* odoo/README.md:21: crashes, lost answers, manual dispatches and concurrent
\* transactions never make the store apply an event twice, nor lose one marked sent.
THEOREM EventsAreAppliedOnce == Spec => []AppliedOnce
<1>1. CInv => AppliedOnce BY DEF CInv, Justified, AppliedOnce
<1> QED BY <1>1, ConnectorInvariant, PTL

\* tasks.py:372: the id the store keeps is one of Odoo's, and Odoo confirms nothing the
\* store has not settled, however tasks and webhooks overlap.
THEOREM StoreAndOdooAgree == Spec => []OdooFollowsStore
<1>1. CInv => OdooFollowsStore BY DEF CInv, Grounded, OdooFollowsStore
<1> QED BY <1>1, ConnectorInvariant, PTL

\* tasks.py:432: with any number of retries, a delivery creates at most one order.
THEOREM RetriesCreateNothingTwice == Spec => []OneOrderPerDelivery
<1>1. CInv => OneOrderPerDelivery BY CreatorBounds DEF CInv
<1> QED BY <1>1, ConnectorInvariant, PTL
-------------------------------------------------------------------------------
(* The add-on's outbox implements AtLeastOnceHandoff *)

\* A transaction deals with rows that exist: a claim outlives no row.
Claimed == \A c \in Crons : \A e \in InCron(c) : outbox[e].state # "none"

\* What has been enqueued stays on record.
LEMMA RowsStay ==
    ASSUME TypeOK, [Next]_vars, NEW e \in Events, outbox[e].state # "none"
    PROVE  outbox'[e].state # "none"
<1>1. outbox \in [Events -> RowOK] /\ outbox[e] \in RowOK BY DEF TypeOK
<1>2. ASSUME NEW f \in Events, NEW k, enqueue(f, k) PROVE outbox'[e].state # "none"
  BY <1>1, <1>2 DEF enqueue
<1>3. CASE UNCHANGED outbox BY <1>3
<1>4. ASSUME NEW c \in Crons, _cron_dispatch(c) PROVE outbox'[e].state # "none"
  <2>1. _mark_sent(e).state = "sent" /\ \A b : _mark_failure(e, b).state \in {"dead", "pending"}
    BY <1>1 DEF _mark_sent, _mark_failure, RowOK
  <2>2. outbox'[e] \in {_mark_sent(e), _mark_failure(e, TRUE), _mark_failure(e, FALSE), outbox[e]}
    BY <1>4 DEF _cron_dispatch
  <2> QED BY <2>1, <2>2
<1>5. ASSUME NEW f \in Events, BackoffEnds(f) \/ action_retry(f) \/ _cron_purge(f)
      PROVE  outbox'[e].state # "none"
  <2>1. CASE BackoffEnds(f)
    <3>1. outbox' = [outbox EXCEPT ![f] = [outbox[f] EXCEPT !.due = TRUE]] BY <2>1 DEF BackoffEnds
    <3>2. outbox[f] \in RowOK BY DEF TypeOK
    <3> QED BY <1>1, <3>1, <3>2 DEF RowOK
  <2>2. CASE action_retry(f) \/ _cron_purge(f)
    <3>1. outbox[f] \in RowOK BY DEF TypeOK
    <3>2. \E r : /\ outbox' = [outbox EXCEPT ![f] = r] /\ r.state \in {"pending", "purged"}
      <4>1. CASE action_retry(f)
        <5> DEFINE r == [outbox[f] EXCEPT !.state = "pending", !.due = TRUE, !.attempts = 0]
        <5>1. outbox' = [outbox EXCEPT ![f] = r] BY <4>1 DEF action_retry
        <5>2. r.state = "pending" BY <3>1 DEF RowOK
        <5> QED BY <5>1, <5>2
      <4>2. CASE _cron_purge(f)
        <5> DEFINE r == [NoRow EXCEPT !.state = "purged"]
        <5>1. outbox' = [outbox EXCEPT ![f] = r] BY <4>2 DEF _cron_purge
        <5>2. r.state = "purged" BY DEF NoRow
        <5> QED BY <5>1, <5>2
      <4> QED BY <2>2, <4>1, <4>2
    <3> QED BY <1>1, <3>2
  <2> QED BY <1>5, <2>1, <2>2
<1> QED BY <1>2, <1>3, <1>4, <1>5 DEF Next, vars, Settle, sync_order_to_odoo, _load_order_snapshot,
        find_sale_order_by_reference, create_sale_order, confirm_sale_order, _persist_odoo_order_id,
        CommitOdooId, _retry, WorkerCrash, Dispatch, _claim_batch, action_dispatch_now, CronCrash,
        _dispatch_one, Upkeep, _enqueue_elitedom_inventory, _enqueue_elitedom_catalog, picking_write

\* A transaction takes up rows that wait or are dead, and drops them when it ends.
LEMMA NextClaimed == TypeOK /\ Claimed /\ [Next]_vars => Claimed'
<1> SUFFICES ASSUME TypeOK, Claimed, [Next]_vars, NEW d \in Crons, NEW e \in InCron(d)'
             PROVE  outbox'[e].state # "none"
  BY DEF Claimed
<1>1. \A c \in Crons : cron[c] \in CronOK /\ InCron(c) \subseteq Events
  BY DEF TypeOK, CronOK, InCron
<1>2. CASE e \in InCron(d) BY <1>1, <1>2, RowsStay DEF Claimed
<1>3. CASE e \notin InCron(d)
  <2>1. PICK c \in Crons : Dispatch(c)
    <3>1. ~UNCHANGED cron BY <1>3 DEF InCron
    <3> QED BY <3>1 DEF Next, vars, Settle, sync_order_to_odoo, _load_order_snapshot,
            find_sale_order_by_reference, create_sale_order, confirm_sale_order,
            _persist_odoo_order_id, CommitOdooId, _retry, WorkerCrash, Upkeep, BackoffEnds,
            action_retry, _cron_purge, _enqueue_elitedom_inventory, _enqueue_elitedom_catalog,
            picking_write
  <2>2. cron \in [Crons -> CronOK] BY DEF TypeOK
  <2>3. CASE _cron_dispatch(c) \/ CronCrash(c)
    <3>1. cron' = [cron EXCEPT ![c] = Idle] BY <2>3 DEF _cron_dispatch, CronCrash
    <3>2. CASE d = c
      <4>1. cron'[d] = Idle BY <2>2, <3>1, <3>2
      <4> QED BY <4>1 DEF InCron, Idle
    <3>3. CASE d # c
      <4>1. cron'[d] = cron[d] BY <2>2, <3>1, <3>3
      <4> QED BY <1>3, <4>1 DEF InCron
    <3> QED BY <3>2, <3>3
  <2>4. ASSUME NEW f \in Events, _dispatch_one(c, f) PROVE FALSE
    <3>1. f \in cron[c].todo BY <2>4 DEF _dispatch_one
    <3>2. PICK o \in {"sent", "failed", "refused"} : Post(c, f, o) BY <2>4 DEF _dispatch_one
    <3>3. CASE d # c BY <1>3, <2>2, <3>2, <3>3 DEF Post, InCron
    <3>4. CASE d = c
      <4>1. cron'[c] = [cron[c] EXCEPT !.todo = @ \ {f}, ![o] = @ \cup {f}]
        BY <2>2, <3>2 DEF Post
      <4> QED BY <1>1, <1>3, <3>1, <3>4, <4>1 DEF InCron, CronOK
    <3> QED BY <3>3, <3>4
  <2>5. CASE _claim_batch(c) \/ action_dispatch_now(c)
    <3>1. PICK x \in SUBSET Events : /\ cron' = [cron EXCEPT ![c].todo = x]
                                     /\ \A f \in x : outbox[f].state \in {"pending", "dead"}
      <4>1. CASE _claim_batch(c) BY <4>1 DEF _claim_batch, Due
      <4>2. CASE action_dispatch_now(c)
        <5>1. PICK f \in Events : /\ outbox[f].state \in {"pending", "dead"}
                                  /\ cron' = [cron EXCEPT ![c].todo = {f}]
          BY <4>2 DEF action_dispatch_now
        <5>2. {f} \in SUBSET Events /\ \A g \in {f} : outbox[g].state \in {"pending", "dead"}
          BY <5>1
        <5> QED BY <5>1, <5>2
      <4> QED BY <2>5, <4>1, <4>2
    <3>2. e \in x BY <1>1, <1>3, <2>2, <3>1 DEF InCron, CronOK
    <3>3. UNCHANGED outbox BY <2>5 DEF _claim_batch, action_dispatch_now
    <3> QED BY <3>1, <3>2, <3>3
  <2> QED BY <2>1, <2>3, <2>4, <2>5 DEF Dispatch
<1> QED BY <1>2, <1>3

Word(r) == CASE r.state = "none" -> "none"
             [] r.state = "pending" -> "owed"
             [] r.state \in {"sent", "purged"} -> "acked"
             [] r.state = "dead" -> "abandoned"

\* The ledger is a book of the four words.
LEMMA LedgerShape ==
    ASSUME TypeOK
    PROVE  AbsLedger = [e \in Events |-> Word(outbox[e])] /\ AbsLedger \in [Events -> Abs!States]
<1>1. AbsLedger = [e \in Events |-> Word(outbox[e])] BY DEF AbsLedger, Word
<1>2. \A r \in RowOK : Word(r) \in Abs!States BY DEF RowOK, Word, Abs!States
<1>3. \A e \in Events : outbox[e] \in RowOK BY DEF TypeOK
<1> QED BY <1>1, <1>2, <1>3

\* A step that keeps every row's word and every receipt is a stutter.
LEMMA StutterRefines ==
    ASSUME TypeOK, TypeOK', UNCHANGED receipts,
           \A e \in Events : Word(outbox'[e]) = Word(outbox[e])
    PROVE  UNCHANGED Abs!absVars
<1>1. AbsLedger' = [e \in Events |-> Word(outbox'[e])] BY DEF AbsLedger, Word
<1> HIDE DEF Word
<1>2. AbsLedger' = AbsLedger BY <1>1, LedgerShape
<1> QED BY <1>2 DEF Abs!absVars

\* Enqueueing records the event.
LEMMA EnqueueRefines ==
    ASSUME TypeOK, TypeOK', UNCHANGED receipts, NEW e \in Events, NEW k, enqueue(e, k)
    PROVE  Abs!AbsNext
<1>1. outbox' = [outbox EXCEPT ![e] = NewRow(k)] /\ outbox[e].state = "none" BY DEF enqueue
<1>2. Word(NewRow(k)) = "owed" /\ Word(outbox[e]) = "none" BY <1>1 DEF Word, NewRow
<1>3. outbox \in [Events -> RowOK] BY DEF TypeOK
<1>4. AbsLedger[e] = "none" BY <1>2, LedgerShape
<1>5. AbsLedger' = [f \in Events |-> Word(outbox'[f])] BY DEF AbsLedger, Word
<1>6. AbsLedger' = [AbsLedger EXCEPT ![e] = "owed"]
  <2> HIDE DEF Word
  <2> QED BY <1>1, <1>2, <1>3, <1>5, LedgerShape
<1> QED BY <1>4, <1>6 DEF Abs!AbsNext, Abs!Record

\* The answer of the store is a delivery, or repeats one.
LEMMA DispatchOneRefines ==
    ASSUME TypeOK, Claimed, NEW c \in Crons, NEW e \in Events, _dispatch_one(c, e)
    PROVE  [Abs!AbsNext]_(Abs!absVars)
<1>1. UNCHANGED outbox BY DEF _dispatch_one
<1>2. AbsLedger' = AbsLedger BY <1>1 DEF AbsLedger
<1>3. receipts' = receipts \/ receipts' = receipts \cup {e}
  BY DEF _dispatch_one, Accept, storeVars
<1>4. AbsLedger[e] # "none"
  <2>1. outbox[e].state # "none" /\ outbox[e] \in RowOK
    BY DEF _dispatch_one, Claimed, InCron, TypeOK
  <2> QED BY <2>1, LedgerShape DEF Word, RowOK
<1>5. CASE receipts' = receipts BY <1>2, <1>5 DEF Abs!absVars
<1>6. CASE receipts' = receipts \cup {e} BY <1>2, <1>4, <1>6 DEF Abs!AbsNext, Abs!Deliver
<1> QED BY <1>3, <1>5, <1>6

\* A step that reports about existing rows, with a receipt for what it marks sent.
LEMMA ReportRefines ==
    ASSUME TypeOK, TypeOK', UNCHANGED receipts,
           \A e \in Events : Word(outbox'[e]) # Word(outbox[e]) =>
              /\ outbox[e].state # "none" /\ outbox'[e].state # "none"
              /\ outbox'[e].state \in {"sent", "purged"} => e \in receipts
    PROVE  Abs!AbsNext
<1>1. AbsLedger' = [e \in Events |-> Word(outbox'[e])] BY DEF AbsLedger, Word
<1>2. \A e \in Events : outbox[e] \in RowOK /\ outbox'[e] \in RowOK BY DEF TypeOK
<1>3. \A r \in RowOK : /\ Word(r) \in Abs!States
                       /\ Word(r) = "none" <=> r.state = "none"
                       /\ Word(r) = "acked" <=> r.state \in {"sent", "purged"}
  BY DEF RowOK, Word, Abs!States
<1> HIDE DEF Word
<1>4. AbsLedger' \in [Events -> Abs!States] BY <1>1, <1>2, <1>3
<1>5. ASSUME NEW e \in Events, AbsLedger'[e] # AbsLedger[e]
      PROVE  Abs!MayReport(e, AbsLedger'[e])
  <2>1. AbsLedger[e] = Word(outbox[e]) /\ AbsLedger'[e] = Word(outbox'[e]) BY <1>1, LedgerShape
  <2>2. AbsLedger[e] # "none" /\ AbsLedger'[e] # "none" BY <1>2, <1>3, <1>5, <2>1
  <2>3. AbsLedger'[e] = "acked" => e \in receipts BY <1>2, <1>3, <1>5, <2>1
  <2> QED BY <1>4, <2>2, <2>3 DEF Abs!MayReport
<1> QED BY <1>4, <1>5 DEF Abs!AbsNext, Abs!Report

\* The commit of a transaction reports about its batch.
LEMMA CronDispatchRefines ==
    ASSUME TypeOK, TypeOK', Justified, Claimed, NEW c \in Crons, _cron_dispatch(c)
    PROVE  Abs!AbsNext
<1>1. UNCHANGED receipts BY DEF _cron_dispatch, storeVars
<1>2. ASSUME NEW e \in Events, Word(outbox'[e]) # Word(outbox[e])
      PROVE  /\ outbox[e].state # "none" /\ outbox'[e].state # "none"
             /\ outbox'[e].state \in {"sent", "purged"} => e \in receipts
  <2>1. outbox[e] \in RowOK BY DEF TypeOK
  <2>2. /\ e \in InCron(c)
        /\ \/ e \in cron[c].sent /\ outbox'[e] = _mark_sent(e)
           \/ outbox'[e] \in {_mark_failure(e, TRUE), _mark_failure(e, FALSE)}
    BY <1>2 DEF _cron_dispatch, InCron
  <2>3. _mark_sent(e).state = "sent" /\ \A b : _mark_failure(e, b).state \in {"dead", "pending"}
    BY <2>1 DEF _mark_sent, _mark_failure, RowOK
  <2>4. cron[c].sent \subseteq receipts BY DEF Justified
  <2> QED BY <2>2, <2>3, <2>4 DEF Claimed
<1> QED BY <1>1, <1>2, ReportRefines

\* Upkeep records an event, reopens a dead one, or keeps every word.
LEMMA UpkeepRefines ==
    ASSUME TypeOK, TypeOK', NEW e \in Events, Upkeep(e)
    PROVE  [Abs!AbsNext]_(Abs!absVars)
<1>1. UNCHANGED receipts
  BY DEF Upkeep, _enqueue_elitedom_inventory, _enqueue_elitedom_catalog, picking_write,
         BackoffEnds, action_retry, _cron_purge, storeVars
<1>2. outbox \in [Events -> RowOK] /\ outbox[e] \in RowOK BY DEF TypeOK
<1>3. ASSUME NEW k, enqueue(e, k) PROVE Abs!AbsNext BY <1>1, <1>3, EnqueueRefines
<1>4. CASE BackoffEnds(e)
  <2>1. outbox' = [outbox EXCEPT ![e] = [outbox[e] EXCEPT !.due = TRUE]] BY <1>4 DEF BackoffEnds
  <2>2. [outbox[e] EXCEPT !.due = TRUE].state = outbox[e].state BY <1>2 DEF RowOK
  <2>3. \A f \in Events : Word(outbox'[f]) = Word(outbox[f]) BY <1>2, <2>1, <2>2 DEF Word
  <2> QED BY <1>1, <2>3, StutterRefines
<1>5. CASE action_retry(e)
  <2>1. /\ outbox[e].state = "dead" /\ outbox'[e].state = "pending"
        /\ \A f \in Events \ {e} : outbox'[f] = outbox[f]
    BY <1>2, <1>5 DEF action_retry, RowOK
  <2> QED BY <1>1, <2>1, ReportRefines
<1>6. CASE _cron_purge(e)
  <2>1. /\ outbox[e].state = "sent" /\ outbox'[e].state = "purged"
        /\ \A f \in Events \ {e} : outbox'[f] = outbox[f]
    BY <1>2, <1>6 DEF _cron_purge, NoRow
  <2>2. Word(outbox[e]) = "acked" /\ Word(outbox'[e]) = "acked" BY <2>1 DEF Word
  <2> HIDE DEF Word
  <2>3. \A f \in Events : Word(outbox'[f]) = Word(outbox[f]) BY <2>1, <2>2
  <2> QED BY <1>1, <2>3, StutterRefines
<1> QED BY <1>3, <1>4, <1>5, <1>6
    DEF Upkeep, _enqueue_elitedom_inventory, _enqueue_elitedom_catalog, picking_write

\* Every step is a step of the promise, or none.
LEMMA NextRefines ==
    ASSUME CInv, CInv', Claimed, [Next]_vars PROVE [Abs!AbsNext]_(Abs!absVars)
<1> USE DEF CInv
<1>1. CASE UNCHANGED <<receipts, outbox>> BY <1>1, StutterRefines
<1>2. ASSUME NEW t \in Tasks, sync_order_to_odoo(t) PROVE [Abs!AbsNext]_(Abs!absVars)
  <2>1. UNCHANGED receipts
    BY <1>2 DEF sync_order_to_odoo, _load_order_snapshot, find_sale_order_by_reference,
         confirm_sale_order, create_sale_order, _persist_odoo_order_id, CommitOdooId, _retry,
         WorkerCrash, storeVars
  <2>2. CASE UNCHANGED outbox BY <1>1, <2>1, <2>2
  <2>3. ASSUME NEW e \in Events, enqueue(e, task[t].order) PROVE Abs!AbsNext
    BY <2>1, <2>3, EnqueueRefines
  <2> QED BY <1>2, <2>2, <2>3
      DEF sync_order_to_odoo, _load_order_snapshot, find_sale_order_by_reference,
         confirm_sale_order, create_sale_order, _persist_odoo_order_id, CommitOdooId, _retry,
         WorkerCrash
<1>3. ASSUME NEW c \in Crons, Dispatch(c) PROVE [Abs!AbsNext]_(Abs!absVars)
  <2>1. CASE _claim_batch(c) \/ action_dispatch_now(c) \/ CronCrash(c)
    BY <1>1, <2>1 DEF _claim_batch, action_dispatch_now, CronCrash, storeVars
  <2> QED BY <1>3, <2>1, CronDispatchRefines, DispatchOneRefines DEF Dispatch
<1>4. CASE UNCHANGED vars \/ Settle BY <1>1, <1>4 DEF vars, Settle
<1> QED BY <1>2, <1>3, <1>4, UpkeepRefines DEF Next

\* At the start nothing is promised.
LEMMA InitRefines == Init => Abs!AbsInit /\ Claimed
  BY DEF Init, Abs!AbsInit, AbsLedger, NoRow, Claimed, InCron, Idle

\* Rows claimed by any transaction exist.
LEMMA AlwaysClaimed == Spec => []Claimed
<1>1. CInv /\ Claimed /\ [Next]_vars => Claimed' BY NextClaimed DEF CInv
<1> QED BY <1>1, InitRefines, ConnectorInvariant, PTL DEF Spec

\* odoo/README.md:4: whatever dispatching transactions overlap, crash and repeat, the
\* add-on's outbox is an implementation of AtLeastOnceHandoff.
THEOREM ConnectorImplementsHandoff == Spec => ImplementsHandoff
  BY InitRefines, NextRefines, ConnectorInvariant, AlwaysClaimed, PTL
  DEF Spec, ImplementsHandoff, Abs!AbsSafety
===============================================================================
