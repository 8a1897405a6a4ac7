----------------------------- MODULE ProductProofs -----------------------------
(***************************************************************************)
(* Safety of Inventory and of Catalogue, the stock and the page of one     *)
(* product, for any orders, quantities, snapshots, images, categories and  *)
(* requests.                                                               *)
(*                                                                         *)
(* With or without the periodic sync the time of the source balance never  *)
(* goes back, and the columns keep their types.  Without it no unit is for *)
(* sale that is not in the warehouse: a snapshot is older than the parcels *)
(* that have left since, so BackedInv counts those with it.                *)
(*                                                                         *)
(* The catalogue's requests read, check and commit in separate steps, so   *)
(* each invariant says of a request in flight that what it checked is      *)
(* still so, unless another request for the same topic has overlapped it.  *)
(***************************************************************************)
EXTENDS Inventory, Catalogue, UnitSums, TLAPS

-------------------------------------------------------------------------------
(* The inductive invariant *)

\* Odoo's clock is ahead of everything it has stamped, and a balance that is not
\* there has no time.
Stamps ==
    /\ clock \in Nat
    /\ balance.exists \in BOOLEAN
    /\ balance.at \in Nat /\ balance.at <= clock
    /\ ~balance.exists => balance.at = 0
    /\ \A s \in snapshots : s.at \in Nat /\ s.at <= clock

\* A webhook at work carries a snapshot that was not stale, and still is not.
HookIsCurrent ==
    hook = Idle \/ /\ hook.snapshot.at \in Nat /\ hook.snapshot.at <= clock
                   /\ balance.at <= hook.snapshot.at

\* So does the sync, unless a balance has appeared that makes its insert fail; and
\* one that found a balance shares its lock with no webhook.
SyncIsCurrent ==
    sync.pc = "summed" =>
       /\ sync.at \in Nat /\ sync.at <= clock
       /\ sync.had_balance \in BOOLEAN
       /\ sync.had_balance => balance.exists /\ hook = Idle /\ balance.at <= sync.at

TimeInv == Stamps /\ HookIsCurrent /\ SyncIsCurrent

LEMMA InitHolds == Init => TimeInv
  BY DEF Init, NoBalance, Idle, TimeInv, Stamps, HookIsCurrent, SyncIsCurrent

LEMMA Step ==
    ASSUME TimeInv, [Next]_vars
    PROVE  TimeInv' /\ balance'.at >= balance.at
<1> USE DEF TimeInv, Stamps, HookIsCurrent, SyncIsCurrent
<1>1. CASE UNCHANGED vars BY <1>1 DEF vars
<1>2. ASSUME NEW o \in Orders, reserve_checkout_stock(o)
      PROVE  TimeInv' /\ balance'.at >= balance.at
  <2>1. /\ hook = Idle /\ hook' = hook /\ UNCHANGED <<clock, snapshots, sync>>
        /\ \/ balance.exists /\ balance' = balance
           \/ ~balance.exists /\ balance'.at = 0 /\ balance'.exists = TRUE
    BY <1>2 DEF reserve_checkout_stock, _ensure_source_balance, ProductFree
  <2>2. balance'.at >= balance.at BY <2>1
  <2>3. Stamps' BY <2>1
  <2>4. HookIsCurrent' BY <2>1
  <2>5. SyncIsCurrent' BY <2>1
  <2> QED BY <2>2, <2>3, <2>4, <2>5
<1>3. ASSUME NEW o \in Orders, release_order(o) \/ rereserve_order(o)
      PROVE  TimeInv' /\ balance'.at >= balance.at
  BY <1>3 DEF release_order, rereserve_order
<1>4. ASSUME NEW o \in Orders, mark_order_consumed(o)
      PROVE  TimeInv' /\ balance'.at >= balance.at
  BY <1>4 DEF mark_order_consumed
<1>5. CASE Receive BY <1>5 DEF Receive
<1>6. CASE EmitSnapshot BY <1>6 DEF EmitSnapshot
<1>7. CASE WebhookSums
  <2>1. PICK s \in snapshots \ receipts :
          hook' = IF IsStale(s) THEN Idle
                  ELSE [pc |-> "summed", snapshot |-> s, reserved |-> reserved_quantity]
    BY <1>7 DEF WebhookSums
  <2>2. UNCHANGED <<clock, balance, snapshots, sync>> /\ (sync.pc = "summed" => ~balance.exists)
    BY <1>7 DEF WebhookSums, BalanceFree
  <2>3. HookIsCurrent'
    <3>1. CASE IsStale(s) BY <2>1, <3>1
    <3>2. CASE ~IsStale(s)
      <4>1. hook'.snapshot = s BY <2>1, <3>2
      <4>2. balance.at <= s.at BY <3>2 DEF IsStale
      <4> QED BY <2>2, <4>1, <4>2
    <3> QED BY <3>1, <3>2
  <2> QED BY <2>2, <2>3
<1>8. CASE WebhookApplies
  <2>1. /\ hook # Idle /\ hook' = Idle /\ UNCHANGED <<clock, snapshots, sync>>
        /\ balance'.at = hook.snapshot.at /\ balance'.exists = TRUE
    BY <1>8 DEF WebhookApplies
  <2> QED BY <2>1
<1>9. CASE SyncFetches
  <2>1. sync'.pc = "fetched" /\ UNCHANGED <<clock, balance, snapshots, hook>>
    BY <1>9 DEF SyncFetches
  <2> QED BY <2>1
<1>10. CASE SyncReadsProduct
  <2>1. sync'.pc = "read" /\ UNCHANGED <<clock, balance, snapshots, hook>>
    BY <1>10 DEF SyncReadsProduct
  <2> QED BY <2>1
<1>11. CASE SyncSums
  <2>1. /\ sync'.at = clock /\ sync'.had_balance = balance.exists
        /\ hook = Idle /\ UNCHANGED <<clock, balance, snapshots, hook>>
    BY <1>11 DEF SyncSums, BalanceFree
  <2> QED BY <2>1
<1>12. CASE SyncApplies
  <2>0. Idle.pc = "idle" BY DEF Idle
  <2>1. /\ sync.pc = "summed" /\ sync' = Idle /\ sync'.pc = "idle"
        /\ balance'.at = sync.at /\ balance'.exists = TRUE
        /\ hook = Idle /\ sync.had_balance = balance.exists
        /\ UNCHANGED <<clock, snapshots, hook>>
    BY <1>12, <2>0 DEF SyncApplies, InsertConflicts, ProductFree
  <2>2. sync.at \in Nat /\ sync.at <= clock BY <2>1
  <2>3. balance.at <= sync.at
    <3>1. CASE balance.exists = TRUE BY <2>1, <3>1
    <3>2. CASE balance.exists = FALSE BY <2>2, <3>2
    <3> QED BY <3>1, <3>2
  <2>4. Stamps' BY <2>1, <2>2
  <2>5. HookIsCurrent' /\ SyncIsCurrent' BY <2>1
  <2> QED BY <2>1, <2>2, <2>3, <2>4, <2>5
<1>13. CASE SyncAbort
  <2>1. sync'.pc = "idle" /\ UNCHANGED <<clock, balance, snapshots, hook>>
    BY <1>13 DEF SyncAbort, Idle
  <2> QED BY <2>1
<1> QED BY <1>1, <1>2, <1>3, <1>4, <1>5, <1>6, <1>7, <1>8, <1>9, <1>10, <1>11, <1>12, <1>13
        DEF Next

-------------------------------------------------------------------------------
(* Theorems *)

\* The inductive invariant: what the webhook and the sync are about to write is
\* stamped no earlier than the balance they will overwrite.
THEOREM TimeInvariant == Spec => []TimeInv
<1>1. Init => TimeInv BY InitHolds
<1>2. TimeInv /\ [Next]_vars => TimeInv' BY Step
<1> QED BY <1>1, <1>2, PTL DEF Spec

\* Whichever way late, repeated and reordered snapshots, pages of the periodic sync
\* and checkouts interleave, the source's time does not go back
\* (reservations.py:288).
THEOREM SourceTimeNeverGoesBack == Spec => SourceTimeAdvances
<1>1. TimeInv /\ [Next]_vars => [balance'.at >= balance.at]_balance BY Step
<1> QED BY <1>1, TimeInvariant, PTL DEF Spec, SourceTimeAdvances

-------------------------------------------------------------------------------
(* Types *)

\* The sum of the model is the sum of the table Qty.
LEMMA UnitsAre == \A S : Units(S) = SumOf(Qty, S)
BY DEF Units, SumOf

\* Units are natural numbers, the more orders the more of them.
LEMMA UnitsGrow ==
  ASSUME NEW S \in SUBSET Orders
  PROVE  /\ Units(S) \in Nat
         /\ \A o \in Orders \ S : Units(S \cup {o}) = Units(S) + Qty[o]
         /\ \A T \in SUBSET S : Units(T) \in Nat /\ Units(T) <= Units(S)
<1>1. IsFiniteSet(Orders) /\ \A o \in Orders : Qty[o] \in Nat BY InventoryAssumption
<1>2. /\ SumOf(Qty, S) \in Nat
      /\ \A T \in SUBSET S : SumOf(Qty, T) \in Nat /\ SumOf(Qty, T) <= SumOf(Qty, S)
  BY <1>1, SumMonotone
<1>3. \A o \in Orders \ S : SumOf(Qty, S \cup {o}) = SumOf(Qty, S) + Qty[o]
  BY <1>1, SumGrows
<1> QED BY <1>2, <1>3, UnitsAre

\* What the sync carries are quantities, and it does not run where it is not scheduled.
SyncTyped ==
    /\ sync.pc # "idle" => sync.qty \in Nat
    /\ sync.pc = "summed" => sync.reserved \in Nat /\ sync.at \in 0..clock
    /\ ~periodic => sync = Idle

\* The initial state is well typed.
LEMMA InitTypes == Init => TypeOK /\ SyncTyped
<1> SUFFICES ASSUME Init PROVE TypeOK /\ SyncTyped OBVIOUS
<1> USE InventoryAssumption DEF Init
<1>1. stock \in Nat /\ onHand \in Nat /\ received \in 0..MaxReceived /\ clock \in Nat \ {0} OBVIOUS
<1>2. resv \in [Orders -> [status : Statuses, consumed_at : 0..clock]] BY DEF Statuses
<1>3. balance \in [on_hand : Nat, at : 0..clock, exists : BOOLEAN] BY DEF NoBalance
<1> QED BY <1>1, <1>2, <1>3 DEF TypeOK, SyncTyped, Idle

\* A reservation keeps a type when its status changes, and the clock only widens it.
LEMMA ResvTyped ==
  ASSUME TypeOK, clock' \in Nat, clock <= clock'
  PROVE  /\ \A o \in Orders : \A status \in Statuses :
               [resv EXCEPT ![o].status = status]
                 \in [Orders -> [status : Statuses, consumed_at : 0..clock']]
         /\ resv \in [Orders -> [status : Statuses, consumed_at : 0..clock']]
         /\ balance \in [on_hand : Nat, at : 0..clock', exists : BOOLEAN]
         /\ snapshots \subseteq [qty : Nat, at : 1..clock']
<1>1. clock \in Nat /\ 0..clock \subseteq 0..clock' /\ 1..clock \subseteq 1..clock' BY DEF TypeOK
<1>2. resv \in [Orders -> [status : Statuses, consumed_at : 0..clock']] BY <1>1 DEF TypeOK
<1>3. balance \in [on_hand : Nat, at : 0..clock', exists : BOOLEAN] BY <1>1 DEF TypeOK
<1>4. snapshots \subseteq [qty : Nat, at : 1..clock'] BY <1>1 DEF TypeOK
<1>5. ASSUME NEW o \in Orders, NEW status \in Statuses
      PROVE  [resv EXCEPT ![o].status = status]
               \in [Orders -> [status : Statuses, consumed_at : 0..clock']]
  BY <1>2
<1> QED BY <1>2, <1>3, <1>4, <1>5

\* Only orders have reservations.
LEMMA StatusSets == \A status : WithStatus(status) \in SUBSET Orders
BY DEF WithStatus

\* Every step keeps the types.
LEMMA NextTypes == ASSUME TypeOK, SyncTyped, [Next]_vars PROVE TypeOK'
<1>0. clock \in Nat /\ stock \in Nat /\ onHand \in Nat /\ \A o \in Orders : Qty[o] \in Nat \ {0}
  BY InventoryAssumption DEF TypeOK
<1>1. Reserved \in Nat BY UnitsGrow, StatusSets DEF Reserved
<1>2. clock' = clock =>
        \A o \in Orders : \A status \in Statuses :
           [resv EXCEPT ![o].status = status]
             \in [Orders -> [status : Statuses, consumed_at : 0..clock']]
  BY <1>0, ResvTyped
<1>3. ASSUME NEW o \in Orders, reserve_checkout_stock(o) PROVE TypeOK'
  <2> USE <1>3 DEF reserve_checkout_stock, SetStatus
  <2>1. stock' \in Nat BY <1>0 DEF InStock
  <2>2. resv' \in [Orders -> [status : Statuses, consumed_at : 0..clock']] BY <1>2 DEF Statuses
  <2>3. balance' \in [on_hand : Nat, at : 0..clock, exists : BOOLEAN]
    BY <1>0 DEF TypeOK, _ensure_source_balance
  <2> QED BY <2>1, <2>2, <2>3 DEF TypeOK
<1>4. ASSUME NEW o \in Orders, release_order(o) \/ rereserve_order(o) PROVE TypeOK'
  <2> USE <1>4 DEF release_order, rereserve_order, SetStatus
  <2>1. stock' \in Nat BY <1>0 DEF InStock
  <2>2. resv' \in [Orders -> [status : Statuses, consumed_at : 0..clock']]
    <3>1. \/ resv' = [resv EXCEPT ![o].status = "released"]
          \/ resv' = [resv EXCEPT ![o].status = "reserved"]
      OBVIOUS
    <3>2. clock' = clock OBVIOUS
    <3>3. ASSUME NEW status \in Statuses, resv' = [resv EXCEPT ![o].status = status]
          PROVE  resv' \in [Orders -> [status : Statuses, consumed_at : 0..clock']]
      BY <3>2, <3>3 DEF TypeOK
    <3>4. "released" \in Statuses /\ "reserved" \in Statuses BY DEF Statuses
    <3> QED BY <3>1, <3>3, <3>4
  <2>3. UNCHANGED <<balance, onHand, received, clock, snapshots, receipts, hook, sync>> OBVIOUS
  <2> QED BY <2>1, <2>2, <2>3 DEF TypeOK
<1>5. ASSUME NEW o \in Orders, mark_order_consumed(o) PROVE TypeOK'
  <2> USE <1>5 DEF mark_order_consumed
  <2>1. onHand' \in Nat /\ clock' \in Nat \ {0} /\ clock <= clock' BY <1>0
  <2>2. resv \in [Orders -> [status : Statuses, consumed_at : 0..clock']] BY <2>1, ResvTyped
  <2>3. [status |-> "consumed_pending_source", consumed_at |-> clock + 1]
          \in [status : Statuses, consumed_at : 0..clock']
    BY <1>0 DEF Statuses
  <2>4. resv' \in [Orders -> [status : Statuses, consumed_at : 0..clock']] BY <2>2, <2>3
  <2>5. /\ balance \in [on_hand : Nat, at : 0..clock', exists : BOOLEAN]
        /\ snapshots \subseteq [qty : Nat, at : 1..clock']
    BY <2>1, ResvTyped
  <2> QED BY <2>1, <2>4, <2>5 DEF TypeOK
<1>6. CASE Receive
  <2> USE <1>6 DEF Receive
  <2>1. onHand' \in Nat /\ clock' \in Nat \ {0} /\ clock <= clock' BY <1>0
  <2>2. received' \in 0..MaxReceived BY InventoryAssumption DEF TypeOK
  <2>3. /\ resv \in [Orders -> [status : Statuses, consumed_at : 0..clock']]
        /\ balance \in [on_hand : Nat, at : 0..clock', exists : BOOLEAN]
        /\ snapshots \subseteq [qty : Nat, at : 1..clock']
    BY <2>1, ResvTyped
  <2> QED BY <2>1, <2>2, <2>3 DEF TypeOK
<1>7. CASE EmitSnapshot
  <2>1. [qty |-> onHand, at |-> clock] \in [qty : Nat, at : 1..clock] BY <1>0 DEF TypeOK
  <2> QED BY <1>7, <2>1 DEF EmitSnapshot, TypeOK
<1>8. CASE WebhookSums
  <2>1. PICK s \in snapshots \ receipts :
           /\ receipts' = receipts \cup {s}
           /\ hook' = IF IsStale(s) THEN Idle
                      ELSE [pc |-> "summed", snapshot |-> s, reserved |-> reserved_quantity]
    BY <1>8 DEF WebhookSums
  <2>2. hook' = Idle \/ hook' \in [pc : {"summed"}, snapshot : receipts', reserved : Nat]
    BY <1>1, <2>1 DEF reserved_quantity
  <2>3. receipts' \subseteq snapshots BY <2>1 DEF TypeOK
  <2> QED BY <1>8, <2>2, <2>3 DEF WebhookSums, TypeOK
<1>9. CASE WebhookApplies
  <2> DEFINE shown == {o \in Orders : Shows(hook.snapshot, o)}
             withheld == WithStatus("consumed_pending_source") \ shown
  <2>1. hook.snapshot \in snapshots /\ hook.reserved \in Nat /\ hook # Idle
    BY <1>9 DEF WebhookApplies, TypeOK
  <2>2. hook.snapshot.qty \in Nat /\ hook.snapshot.at \in 1..clock BY <2>1 DEF TypeOK
  <2>3. Units(withheld) \in Nat BY UnitsGrow, StatusSets
  <2>4. stock' = Minus(hook.snapshot.qty, hook.reserved + Units(withheld))
    BY <1>9 DEF WebhookApplies
  <2>5. stock' \in Nat
    <3> HIDE DEF withheld
    <3> QED BY <2>1, <2>2, <2>3, <2>4 DEF Minus
  <2>6. resv' \in [Orders -> [status : Statuses, consumed_at : 0..clock]]
    <3>1. resv' = [o \in Orders |-> IF o \in shown THEN [resv[o] EXCEPT !.status = "consumed"]
                                       ELSE resv[o]]
      BY <1>9 DEF WebhookApplies
    <3> HIDE DEF shown
    <3> QED BY <3>1 DEF TypeOK, Statuses
  <2>7. balance' \in [on_hand : Nat, at : 0..clock, exists : BOOLEAN]
    BY <1>0, <1>9, <2>2 DEF WebhookApplies
  <2> QED BY <1>9, <2>5, <2>6, <2>7 DEF WebhookApplies, TypeOK
<1>10. CASE SyncFetches \/ SyncReadsProduct \/ SyncSums \/ SyncAbort
  BY <1>10 DEF SyncFetches, SyncReadsProduct, SyncSums, SyncAbort, TypeOK, Idle
<1>11. CASE SyncApplies
  <2>1. sync.pc = "summed" /\ sync.qty \in Nat /\ sync.reserved \in Nat /\ sync.at \in 0..clock
    BY <1>11 DEF SyncApplies, SyncTyped
  <2>2. stock' \in Nat BY <1>0, <1>11, <2>1 DEF SyncApplies, Minus
  <2>3. resv' \in [Orders -> [status : Statuses, consumed_at : 0..clock]]
    <3>1. resv' = [o \in Orders |-> IF Reconciled(o) THEN [resv[o] EXCEPT !.status = "consumed"]
                                 ELSE resv[o]]
      BY <1>11 DEF SyncApplies
    <3> QED BY <3>1 DEF TypeOK, Statuses
  <2>4. balance' \in [on_hand : Nat, at : 0..clock, exists : BOOLEAN]
    BY <1>11, <2>1 DEF SyncApplies
  <2> QED BY <1>11, <2>2, <2>3, <2>4 DEF SyncApplies, TypeOK, Idle
<1>12. CASE UNCHANGED vars BY <1>12 DEF vars, TypeOK
<1> QED BY <1>3, <1>4, <1>5, <1>6, <1>7, <1>8, <1>9, <1>10, <1>11, <1>12 DEF Next

\* Every step keeps what the sync carries well typed.
LEMMA NextSync == ASSUME TypeOK, SyncTyped, [Next]_vars PROVE SyncTyped'
<1>0. clock \in Nat /\ onHand \in Nat BY DEF TypeOK
<1>1. Reserved \in Nat BY UnitsGrow, StatusSets DEF Reserved
<1>2. Idle.pc = "idle" BY DEF Idle
<1>3. CASE UNCHANGED <<periodic, sync>> /\ clock' \in {clock, clock + 1}
  BY <1>0, <1>3 DEF SyncTyped
<1>4. CASE SyncFetches BY <1>0, <1>4 DEF SyncFetches, SyncTyped
<1>5. CASE SyncReadsProduct BY <1>0, <1>2, <1>5 DEF SyncReadsProduct, SyncTyped
<1>6. CASE SyncSums BY <1>0, <1>1, <1>2, <1>6 DEF SyncSums, SyncTyped, reserved_quantity
<1>7. CASE SyncApplies \/ SyncAbort BY <1>2, <1>7 DEF SyncApplies, SyncAbort, SyncTyped
<1>8. ASSUME NEW o \in Orders,
             \/ reserve_checkout_stock(o) \/ release_order(o)
             \/ rereserve_order(o) \/ mark_order_consumed(o)
      PROVE  UNCHANGED <<periodic, sync>> /\ clock' \in {clock, clock + 1}
  BY <1>8 DEF reserve_checkout_stock, release_order, rereserve_order, mark_order_consumed
<1>9. CASE Receive \/ EmitSnapshot \/ WebhookSums \/ WebhookApplies \/ UNCHANGED vars
  BY <1>3, <1>9 DEF Receive, EmitSnapshot, WebhookSums, WebhookApplies, vars
<1> QED BY <1>3, <1>4, <1>5, <1>6, <1>7, <1>8, <1>9 DEF Next

\* The columns keep their types; stock_qty, the units of Odoo and its clock never become
\* negative, for any orders, quantities and snapshots.
THEOREM InventoryTypes == Spec => []TypeOK
<1>1. TypeOK /\ SyncTyped /\ [Next]_vars => (TypeOK /\ SyncTyped)' BY NextTypes, NextSync
<1> QED BY <1>1, InitTypes, PTL DEF Spec

-------------------------------------------------------------------------------
(* What is for sale is there *)

\* The orders whose parcels have left after a time of the source.
LeftAfter(t) == {o \in Orders : /\ resv[o].status \in {"consumed_pending_source", "consumed"}
                                /\ resv[o].consumed_at > t}

\* Without the periodic sync, what is for sale or reserved is in the warehouse: a snapshot
\* counted at most what is there now and what has left since, and the webhook that writes
\* the stock has summed no fewer reservations than there are.
BackedInv ==
    ~periodic =>
      /\ stock + Reserved <= onHand
      /\ \A s \in snapshots : s.qty <= onHand + Units(LeftAfter(s.at))
      /\ hook # Idle => Reserved <= hook.reserved
      /\ \A o \in Orders : resv[o].status = "consumed" => resv[o].consumed_at <= balance.at

\* At the start nothing is reserved.
LEMMA InitBacked == Init => BackedInv
<1> SUFFICES ASSUME Init PROVE BackedInv OBVIOUS
<1>1. WithStatus("reserved") = {} BY DEF Init, WithStatus
<1>2. IsFiniteSet({}) BY FS_EmptySet
<1>3. SumOf(Qty, {}) = 0 BY <1>2, SumOfNothing
<1>4. Reserved = 0 BY <1>1, <1>3, UnitsAre DEF Reserved
<1> QED BY <1>4, InventoryAssumption DEF Init, BackedInv

\* Every step keeps what is for sale backed.
LEMMA NextBacked ==
  ASSUME TypeOK, SyncTyped, TimeInv, BackedInv, [Next]_vars
  PROVE  BackedInv'
<1>0. /\ clock \in Nat /\ stock \in Nat /\ onHand \in Nat
      /\ \A o \in Orders : Qty[o] \in Nat /\ resv[o] \in [status : Statuses, consumed_at : 0..clock]
      /\ \A s \in snapshots : s.qty \in Nat /\ s.at \in Nat /\ s.at <= clock
      /\ \A t : LeftAfter(t) \in SUBSET Orders
      /\ resv \in [Orders -> [status : Statuses, consumed_at : 0..clock]]
  BY InventoryAssumption DEF TypeOK, LeftAfter
<1>1. balance'.at >= balance.at /\ balance.at \in Nat /\ balance'.at \in Nat
  BY Step DEF TimeInv, Stamps
<1>2. Reserved \in Nat /\ \A t : Units(LeftAfter(t)) \in Nat
  BY <1>0, UnitsGrow, StatusSets DEF Reserved
<1>3. CASE periodic'
  BY <1>3 DEF BackedInv
<1>4. CASE ~periodic' /\ UNCHANGED <<periodic, stock, resv, balance, onHand, snapshots, hook>>
  BY <1>4 DEF BackedInv, Reserved, WithStatus, LeftAfter
<1> SUFFICES ASSUME ~periodic',
                    ~UNCHANGED <<periodic, stock, resv, balance, onHand, snapshots, hook>>
             PROVE  BackedInv'
  BY <1>3, <1>4
<1>5. ~periodic /\ UNCHANGED periodic
  BY DEF Next, vars, reserve_checkout_stock, release_order, rereserve_order,
         mark_order_consumed,
         Receive, EmitSnapshot, WebhookSums, WebhookApplies, SyncFetches, SyncReadsProduct,
         SyncSums, SyncApplies, SyncAbort
<1>6. sync = Idle /\ Idle.pc = "idle" BY <1>5 DEF SyncTyped, Idle
<1>7. /\ stock + Reserved <= onHand
      /\ \A s \in snapshots : s.qty <= onHand + Units(LeftAfter(s.at))
      /\ hook # Idle => Reserved <= hook.reserved
      /\ \A o \in Orders : resv[o].status = "consumed" => resv[o].consumed_at <= balance.at
  BY <1>5 DEF BackedInv
<1>8. ASSUME NEW o \in Orders, reserve_checkout_stock(o) \/ rereserve_order(o) PROVE BackedInv'
  <2>1. /\ resv' = [resv EXCEPT ![o].status = "reserved"] /\ resv[o].status \in {"none", "released"}
        /\ hook = Idle /\ hook' = Idle /\ UNCHANGED <<onHand, snapshots>>
        /\ stock >= Qty[o] /\ stock' = stock - Qty[o]
    BY <1>8 DEF reserve_checkout_stock, rereserve_order, SetStatus, ProductFree, InStock
  <2>2. /\ o \notin WithStatus("reserved")
        /\ WithStatus("reserved")' = WithStatus("reserved") \cup {o}
    BY <1>0, <2>1 DEF WithStatus
  <2>3. Reserved' = Reserved + Qty[o] BY <2>2, UnitsGrow, StatusSets DEF Reserved
  <2>4. \A t : LeftAfter(t)' = LeftAfter(t) BY <1>0, <2>1 DEF LeftAfter
  <2>5. \A p \in Orders : resv'[p].status = "consumed" =>
           resv[p].status = "consumed" /\ resv'[p] = resv[p]
    BY <1>0, <2>1
  <2>6. stock' + Reserved' <= onHand' BY <1>0, <1>2, <1>7, <2>1, <2>3
  <2>7. \A p \in Orders : resv'[p].status = "consumed" => resv'[p].consumed_at <= balance'.at
    BY <1>0, <1>1, <1>7, <2>5
  <2> QED BY <1>7, <2>1, <2>4, <2>6, <2>7 DEF BackedInv
<1>9. ASSUME NEW o \in Orders, release_order(o) PROVE BackedInv'
  <2>1. /\ resv' = [resv EXCEPT ![o].status = "released"] /\ resv[o].status = "reserved"
        /\ hook = Idle /\ hook' = Idle /\ UNCHANGED <<onHand, snapshots, balance>>
        /\ stock' = stock + Qty[o]
    BY <1>9 DEF release_order, SetStatus, ProductFree
  <2>2. /\ o \notin WithStatus("reserved")'
        /\ WithStatus("reserved") = WithStatus("reserved")' \cup {o}
        /\ WithStatus("reserved")' \in SUBSET Orders
    BY <1>0, <2>1 DEF WithStatus
  <2>3. Reserved = Reserved' + Qty[o] /\ Reserved' \in Nat BY <2>2, UnitsGrow,
      StatusSets DEF Reserved
  <2>4. \A t : LeftAfter(t)' = LeftAfter(t) BY <1>0, <2>1 DEF LeftAfter
  <2>5. \A p \in Orders : resv'[p].status = "consumed" =>
           resv[p].status = "consumed" /\ resv'[p] = resv[p]
    BY <1>0, <2>1
  <2>6. stock' + Reserved' <= onHand' BY <1>0, <1>2, <1>7, <2>1, <2>3
  <2> QED BY <1>7, <2>1, <2>4, <2>5, <2>6 DEF BackedInv
<1>10. ASSUME NEW o \in Orders, mark_order_consumed(o) PROVE BackedInv'
  <2>1. /\ resv' = [resv EXCEPT ![o] = [status |-> "consumed_pending_source",
                                        consumed_at |-> clock + 1]]
        /\ resv[o].status = "reserved"
        /\ onHand >= Qty[o] /\ onHand' = onHand - Qty[o]
        /\ UNCHANGED <<stock, balance, snapshots, hook>>
    BY <1>10 DEF mark_order_consumed
  <2>2. /\ o \notin WithStatus("reserved")'
        /\ WithStatus("reserved") = WithStatus("reserved")' \cup {o}
        /\ WithStatus("reserved")' \in SUBSET Orders
    BY <1>0, <2>1 DEF WithStatus
  <2>3. Reserved = Reserved' + Qty[o] /\ Reserved' \in Nat BY <2>2, UnitsGrow,
      StatusSets DEF Reserved
  <2>4. ASSUME NEW s \in snapshots PROVE s.qty <= onHand' + Units(LeftAfter(s.at)')
    <3>1. o \notin LeftAfter(s.at) /\ LeftAfter(s.at)' = LeftAfter(s.at) \cup {o}
      BY <1>0, <2>1 DEF LeftAfter
    <3>2. Units(LeftAfter(s.at)') = Units(LeftAfter(s.at)) + Qty[o]
      BY <1>0, <3>1, UnitsGrow
    <3> QED BY <1>0, <1>2, <1>7, <2>1, <3>2
  <2>5. \A p \in Orders : resv'[p].status = "consumed" =>
           resv[p].status = "consumed" /\ resv'[p] = resv[p]
    BY <1>0, <2>1
  <2>6. stock' + Reserved' <= onHand' BY <1>0, <1>2, <1>7, <2>1, <2>3
  <2>7. hook' # Idle => Reserved' <= hook'.reserved
    <3>1. hook # Idle => hook.reserved \in Nat BY DEF TypeOK
    <3> QED BY <1>0, <1>7, <2>1, <2>3, <3>1
  <2> QED BY <1>7, <2>1, <2>4, <2>5, <2>6, <2>7 DEF BackedInv
<1>11. CASE Receive
  <2>1. onHand' = onHand + 1 /\ UNCHANGED <<stock, resv, balance, snapshots, hook>>
    BY <1>11 DEF Receive
  <2>2. Reserved' = Reserved /\ \A t : LeftAfter(t)' = LeftAfter(t)
    BY <2>1 DEF Reserved, WithStatus, LeftAfter
  <2>3. \A s \in snapshots : s.qty <= onHand' + Units(LeftAfter(s.at))
    BY <1>0, <1>2, <1>7, <2>1
  <2>4. stock' + Reserved' <= onHand' BY <1>0, <1>2, <1>7, <2>1, <2>2
  <2> QED BY <1>7, <2>1, <2>2, <2>3, <2>4 DEF BackedInv
<1>12. CASE EmitSnapshot
  <2>1. /\ snapshots' = snapshots \cup {[qty |-> onHand, at |-> clock]}
        /\ UNCHANGED <<stock, resv, balance, onHand, hook>>
    BY <1>12 DEF EmitSnapshot
  <2>2. Reserved' = Reserved /\ \A t : LeftAfter(t)' = LeftAfter(t)
    BY <2>1 DEF Reserved, WithStatus, LeftAfter
  <2>3. onHand <= onHand + Units(LeftAfter(clock)) BY <1>0, <1>2
  <2> QED BY <1>7, <2>1, <2>2, <2>3 DEF BackedInv
<1>13. CASE WebhookSums
  <2>1. PICK s \in snapshots \ receipts :
           hook' = IF IsStale(s) THEN Idle
                   ELSE [pc |-> "summed", snapshot |-> s, reserved |-> reserved_quantity]
    BY <1>13 DEF WebhookSums
  <2>2. UNCHANGED <<stock, resv, balance, onHand, snapshots>> BY <1>13 DEF WebhookSums
  <2>3. Reserved' = Reserved /\ \A t : LeftAfter(t)' = LeftAfter(t)
    BY <2>2 DEF Reserved, WithStatus, LeftAfter
  <2>4. hook' # Idle => Reserved' <= hook'.reserved
    BY <1>2, <2>1, <2>3 DEF reserved_quantity
  <2> QED BY <1>7, <2>2, <2>3, <2>4 DEF BackedInv
<1>14. CASE WebhookApplies
  <2> DEFINE s == hook.snapshot
             shown == {o \in Orders : Shows(s, o)}
             withheld == WithStatus("consumed_pending_source") \ shown
  <2>1. /\ hook # Idle /\ hook' = Idle /\ UNCHANGED <<onHand, snapshots>>
        /\ resv' = [o \in Orders |-> IF o \in shown THEN [resv[o] EXCEPT !.status = "consumed"]
                                     ELSE resv[o]]
        /\ stock' = Minus(s.qty, hook.reserved + Units(withheld))
        /\ balance'.at = s.at
    BY <1>14 DEF WebhookApplies
  <2>2. s \in snapshots /\ hook.reserved \in Nat /\ Reserved <= hook.reserved
    BY <1>7, <2>1 DEF TypeOK
  <2>3. s.qty \in Nat /\ s.at \in Nat BY <1>0, <2>2
  <2>4. withheld = LeftAfter(s.at)
    <3>1. \A o \in Orders : resv[o].status = "consumed" => resv[o].consumed_at <= s.at
      BY <1>0, <1>1, <1>7, <2>1, <2>3
    <3>2. \A o \in Orders : resv[o].consumed_at \in Nat BY <1>0
    <3> QED BY <2>3, <3>1, <3>2 DEF LeftAfter, WithStatus, Shows
  <2>5. s.qty <= onHand + Units(withheld) BY <1>7, <2>2, <2>4
  <2>6. Units(withheld) \in Nat BY <1>2, <2>4
  <2> HIDE DEF withheld
  <2>7. stock' + Reserved <= onHand
    BY <1>0, <1>2, <1>7, <2>1, <2>2, <2>3, <2>5, <2>6 DEF Minus
  <2>8. WithStatus("reserved")' = WithStatus("reserved")
    BY <1>0, <2>1 DEF WithStatus, Shows
  <2>9. \A t : LeftAfter(t)' = LeftAfter(t)
    BY <1>0, <2>1 DEF LeftAfter, Shows
  <2>10. \A o \in Orders : resv'[o].status = "consumed" => resv'[o].consumed_at <= balance'.at
    <3> SUFFICES ASSUME NEW o \in Orders, resv'[o].status = "consumed"
                 PROVE  resv'[o].consumed_at <= balance'.at
      OBVIOUS
    <3>1. resv[o].consumed_at \in Nat BY <1>0
    <3>2. CASE o \in shown
      <4>1. resv'[o].consumed_at = resv[o].consumed_at BY <1>0, <2>1, <3>2
      <4>2. resv[o].consumed_at <= s.at BY <2>3, <3>1, <3>2 DEF Shows
      <4> QED BY <2>1, <4>1, <4>2
    <3>3. CASE o \notin shown
      <4>1. resv'[o] = resv[o] BY <2>1, <3>3
      <4> QED BY <1>1, <1>7, <3>1, <4>1
    <3> QED BY <3>2, <3>3
  <2> QED BY <1>7, <2>1, <2>7, <2>8, <2>9, <2>10 DEF BackedInv, Reserved
<1> QED
  BY <1>6, <1>8, <1>9, <1>10, <1>11, <1>12, <1>13, <1>14
  DEF Next, vars, SyncFetches, SyncReadsProduct, SyncSums, SyncApplies, SyncAbort

\* Without the periodic sync no unit is for sale that is not in the warehouse or is
\* reserved already (inventory/reservations.py:28), for any orders and quantities.
THEOREM NothingIsSoldTwice == Spec => []SellableIsBacked
<1> DEFINE Inv == TypeOK /\ SyncTyped /\ BackedInv
<1>1. Init => Inv BY InitTypes, InitBacked
<1>2. Inv /\ TimeInv /\ [Next]_vars => Inv' BY NextTypes, NextSync, NextBacked
<1>3. Inv => SellableIsBacked BY DEF BackedInv, SellableIsBacked
<1> HIDE DEF Inv
<1> QED BY <1>1, <1>2, <1>3, TimeInvariant, PTL DEF Spec

-------------------------------------------------------------------------------
(* Catalogue: its requests and the groups of its steps *)

\* The topic of a request, by what it does.
TopicOf(op) ==
    CASE op \in {"edit", "archive", "content"} -> "product"
      [] op \in {"upload", "reorder", "remove"} -> "media"
      [] op = "cleanup" -> "files"
      [] op = "move" -> "categories"
      [] op \in {"define", "replace"} -> "attributes"
      [] op = "index" -> "tasks"
      [] OTHER -> "none"

\* Requests are what their handlers made them, and two of one topic have raced.
RequestsInv ==
    /\ DOMAIN sess = Sessions
    /\ \A s \in Sessions : sess[s].topic = TopicOf(sess[s].op)
    /\ \A s, t \in Sessions :
         sess[s].topic = sess[t].topic /\ sess[s].topic \in Topics \ raced => s = t

\* A step of the request s, which works on one of the topics, and of no other request.
StepOf(s, topics) ==
    /\ sess[s].topic \in topics /\ sess'[s].topic \in topics
    /\ \A t \in Sessions \ {s} : sess'[t] = sess[t]
    /\ raced \subseteq raced'
    /\ RequestsInv'

\* What the groups of Next's steps may touch; every invariant below starts from these.
LEMMA PublicationSteps ==
  ASSUME RequestsInv, NEW s \in Sessions, Publication(s)
  PROVE  StepOf(s, {"product", "none"}) /\ UNCHANGED <<mediaVars, treeVars>>
<1> DEFINE Goal == StepOf(s, {"product", "none"}) /\ UNCHANGED <<mediaVars, treeVars>>
<1> USE DEF RequestsInv, TopicOf, StepOf, mediaVars, treeVars,
            searchVars, Free, Topics, Begin, Commit, Changed, Edited, Busy
<1>1. ASSUME NEW e \in Edits, BeginUpdate(s, e) PROVE Goal BY <1>1 DEF BeginUpdate
<1>2. CASE update_product(s) BY <1>2 DEF update_product
<1>3. CASE BeginDelete(s) BY <1>3 DEF BeginDelete
<1>4. CASE delete_product(s) BY <1>4 DEF delete_product
<1>5. ASSUME NEW e, BeginContent(s, e) PROVE Goal BY <1>5 DEF BeginContent
<1>6. CASE update_product_content(s) BY <1>6 DEF update_product_content
<1> QED BY <1>1, <1>2, <1>3, <1>4, <1>5, <1>6 DEF Publication

LEMMA MediaSteps ==
  ASSUME RequestsInv, NEW s \in Sessions, Media(s)
  PROVE  /\ StepOf(s, {"media", "files", "none"})
         /\ UNCHANGED <<productVars, treeVars, searchVars>>
<1> DEFINE Goal == /\ StepOf(s, {"media", "files", "none"})
                   /\ UNCHANGED <<productVars, treeVars, searchVars>>
<1> USE DEF RequestsInv, TopicOf, StepOf, treeVars, searchVars, productVars,
            Free, Topics, Begin, Commit, Busy
<1>1. ASSUME NEW id, NEW primary, NEW older, BeginUpload(s, id, primary, older) PROVE Goal
  BY <1>1 DEF BeginUpload
<1>2. CASE add_media(s) BY <1>2 DEF add_media
<1>3. ASSUME NEW i, FailUpload(s, i) PROVE Goal BY <1>3 DEF FailUpload
<1>4. ASSUME NEW i, BeginReorder(s, i) PROVE Goal BY <1>4 DEF BeginReorder
<1>5. CASE reorder_media(s) BY <1>5 DEF reorder_media
<1>6. ASSUME NEW i, NEW p, NEW older, BeginRemove(s, i, p, older) PROVE Goal
  BY <1>6 DEF BeginRemove
<1>7. CASE delete_media(s) BY <1>7 DEF delete_media
<1>8. ASSUME NEW r, _cleanup_catalog_media(s, r)
      PROVE Goal BY <1>8 DEF _cleanup_catalog_media
<1>9. CASE Crash(s) BY <1>9 DEF Crash
<1> QED BY <1>1, <1>2, <1>3, <1>4, <1>5, <1>6, <1>7, <1>8, <1>9 DEF Media

LEMMA TaxonomySteps ==
  ASSUME RequestsInv, NEW s \in Sessions, Taxonomy(s)
  PROVE  /\ StepOf(s, {"categories", "attributes", "none"})
         /\ UNCHANGED <<productVars, mediaVars, searchVars>>
<1> DEFINE Goal == /\ StepOf(s, {"categories", "attributes", "none"})
                   /\ UNCHANGED <<productVars, mediaVars, searchVars>>
<1> USE DEF RequestsInv, TopicOf, StepOf, mediaVars, searchVars, productVars,
            treeVars, Free, Topics, Begin, Commit, Busy
<1>1. ASSUME NEW c, NEW p, BeginMove(s, c, p) PROVE Goal BY <1>1 DEF BeginMove
<1>2. CASE update_category(s) BY <1>2 DEF update_category
<1>3. ASSUME NEW t, BeginDefine(s, t) PROVE Goal BY <1>3 DEF BeginDefine
<1>4. CASE update_attribute_definition(s) BY <1>4 DEF update_attribute_definition
<1>5. ASSUME NEW v, BeginReplace(s, v) PROVE Goal BY <1>5 DEF BeginReplace
<1>6. CASE replace_product_attributes(s) BY <1>6 DEF replace_product_attributes
<1> QED BY <1>1, <1>2, <1>3, <1>4, <1>5, <1>6 DEF Taxonomy

LEMMA SearchSteps ==
  ASSUME RequestsInv, NEW s \in Sessions, Search(s)
  PROVE  /\ StepOf(s, {"tasks", "none"})
         /\ UNCHANGED <<productVars, mediaVars, treeVars>>
<1> DEFINE Goal == /\ StepOf(s, {"tasks", "none"})
                   /\ UNCHANGED <<productVars, mediaVars, treeVars>>
<1> USE DEF RequestsInv, TopicOf, StepOf, mediaVars, productVars, treeVars,
            searchVars, Free, Topics, Begin, Commit, Busy
<1>1. CASE BeginIndex(s) BY <1>1 DEF BeginIndex, Task
<1>2. CASE index_product(s) BY <1>2 DEF index_product
<1>3. CASE _retry(s) BY <1>3 DEF _retry, Task
<1>4. CASE GiveUp(s) BY <1>4 DEF GiveUp
<1> QED BY <1>1, <1>2, <1>3, <1>4 DEF Search

LEMMA Rollbacks ==
  ASSUME RequestsInv, NEW s \in Sessions, Rollback(s)
  PROVE  /\ RequestsInv' /\ sess' = [sess EXCEPT ![s] = Free]
         /\ UNCHANGED <<productVars, mediaVars, treeVars, searchVars, raced>>
  BY DEF RequestsInv, TopicOf, Free, Topics, Rollback, Commit

\* The steps that are one transaction each.
OneStep ==
    \/ \E dropship, category \in BOOLEAN : create_product(dropship, category)
    \/ \E c \in Categories, p \in Categories \cup {NoCategory} : create_category(c, p)
    \/ \E s \in Suppliers, active, primary \in BOOLEAN :
         upsert_product_supplier(s, active, primary)
    \/ \E s \in Suppliers : update_supplier(s)
    \/ \E p \in OdooProducts : OdooCatalogueEvent(p)
    \/ DeadLetter

LEMMA OneStepSteps ==
  ASSUME RequestsInv, OneStep
  PROVE  RequestsInv' /\ raced \subseteq raced' /\ UNCHANGED <<sess, attribute, mediaVars>>
<1> DEFINE Goal == /\ RequestsInv' /\ raced \subseteq raced'
                   /\ UNCHANGED <<sess, attribute, mediaVars>>
<1> USE DEF RequestsInv, Topics, mediaVars, treeVars, Changed, Edited, searchVars,
            productVars
<1>1. ASSUME NEW d, NEW c, create_product(d, c) PROVE Goal BY <1>1 DEF create_product
<1>2. ASSUME NEW c, NEW p, create_category(c, p) PROVE Goal BY <1>2 DEF create_category
<1>3. ASSUME NEW s, NEW a, NEW p, upsert_product_supplier(s, a, p) PROVE Goal
  BY <1>3 DEF upsert_product_supplier
<1>4. ASSUME NEW s, update_supplier(s) PROVE Goal BY <1>4 DEF update_supplier
<1>5. ASSUME NEW p, OdooCatalogueEvent(p) PROVE Goal BY <1>5 DEF OdooCatalogueEvent
<1>6. CASE DeadLetter BY <1>6 DEF DeadLetter
<1> QED BY <1>1, <1>2, <1>3, <1>4, <1>5, <1>6 DEF OneStep

LEMMA NextSplits ==
  CatalogueNext <=> OneStep \/ \E s \in Sessions :
     Publication(s) \/ Media(s) \/ Taxonomy(s) \/ Search(s) \/ Rollback(s)
  BY DEF CatalogueNext, OneStep

-------------------------------------------------------------------------------
(* Attribute values *)

\* A request for the attributes that no other has overlapped has checked against the
\* value, or the type, that is still there when it commits.
ValuesInv ==
    /\ RequestsInv
    /\ attribute \in [type : Types, value : Types \cup {"none"}]
    /\ \A s \in Sessions :
         /\ sess[s].op = "define" =>
              /\ sess[s].type \in Types
              /\ "attributes" \notin raced /\ sess[s].type # attribute.type
                   => attribute.value = "none"
         /\ sess[s].op = "replace" =>
              /\ sess[s].value \in Types \cup {"none"}
              /\ "attributes" \notin raced => sess[s].value \in {"none", attribute.type}
    /\ ValuesMatchTheirDefinition

LEMMA ValuesInit == CatalogueInit => ValuesInv
  BY DEF CatalogueInit, ValuesInv, ValuesMatchTheirDefinition, Types, Free, RequestsInv,
     TopicOf, Topics

LEMMA ValuesFrame ==
  ASSUME ValuesInv, RequestsInv', raced \subseteq raced', attribute' = attribute,
         \A s \in Sessions : sess'[s] = sess[s] \/ sess'[s].topic # "attributes"
  PROVE  ValuesInv'
  BY DEF ValuesInv, RequestsInv, TopicOf, ValuesMatchTheirDefinition

LEMMA ValuesNext == ValuesInv /\ [CatalogueNext]_catalogueVars => ValuesInv'
<1> SUFFICES ASSUME ValuesInv, CatalogueNext PROVE ValuesInv'
  BY DEF ValuesInv, RequestsInv, ValuesMatchTheirDefinition, catalogueVars, TopicOf
<1>1. RequestsInv BY DEF ValuesInv
<1>2. CASE OneStep BY <1>1, <1>2, OneStepSteps, ValuesFrame
<1>3. ASSUME NEW s \in Sessions, Publication(s) \/ Media(s) \/ Search(s)
      PROVE ValuesInv'
  BY <1>1, <1>3, PublicationSteps, MediaSteps, SearchSteps, ValuesFrame DEF StepOf, treeVars
<1>4. ASSUME NEW s \in Sessions, Taxonomy(s) PROVE ValuesInv'
  <2>1. StepOf(s, {"categories", "attributes", "none"}) BY <1>1, <1>4, TaxonomySteps
  <2> USE DEF ValuesInv, RequestsInv, TopicOf, StepOf, ValuesMatchTheirDefinition, Begin,
              Commit, Free,
              Types, Topics, treeVars
  <2>2. ASSUME NEW c, NEW p, BeginMove(s, c, p) PROVE ValuesInv'
    BY <2>1, <2>2 DEF BeginMove
  <2>3. CASE update_category(s) BY <2>1, <2>3 DEF update_category
  <2>4. ASSUME NEW t \in Types, BeginDefine(s, t)
        PROVE ValuesInv' BY <2>1, <2>4 DEF BeginDefine
  <2>5. CASE update_attribute_definition(s) BY <2>1, <2>5 DEF update_attribute_definition
  <2>6. ASSUME NEW v, BeginReplace(s, v) PROVE ValuesInv' BY <2>1, <2>6 DEF BeginReplace
  <2>7. CASE replace_product_attributes(s) BY <2>1, <2>7 DEF replace_product_attributes
  <2> QED BY <1>4, <2>2, <2>3, <2>4, <2>5, <2>6, <2>7 DEF Taxonomy
<1>5. ASSUME NEW s \in Sessions, Rollback(s) PROVE ValuesInv'
  BY <1>1, <1>5, Rollbacks, ValuesFrame DEF treeVars, Free, RequestsInv
<1> QED BY <1>2, <1>3, <1>4, <1>5, NextSplits

\* A product's attribute value has the type of its definition unless a change of the
\* definition and one of the value overlapped (catalog_service.py:366, :399): the two
\* checks are against each other's row, which only the foreign key guards.
THEOREM AttributeValuesMatch == CatalogueSpec => []ValuesMatchTheirDefinition
<1>1. ValuesInv => ValuesMatchTheirDefinition BY DEF ValuesInv
<1> QED BY <1>1, ValuesInit, ValuesNext, PTL DEF CatalogueSpec

-------------------------------------------------------------------------------
(* Publication and suppliers *)

\* A product on sale exists, and what an edit or a publication has read is still the
\* product unless another request or Odoo came between.
ProductInv ==
    /\ RequestsInv
    /\ product \in [exists : BOOLEAN, active : BOOLEAN, dropship : BOOLEAN, category : BOOLEAN]
    /\ product.active => product.exists
    /\ \A s \in Sessions :
         /\ sess[s].topic = "product" => product.exists
         /\ sess[s].op \in {"edit", "content"} /\ "product" \notin raced /\ ~unchecked
              => sess[s].read = product

SourcedInv ==
    /\ ProductInv
    /\ SourcedWhileOnSale

LEMMA ProductInit == CatalogueInit => ProductInv
  BY DEF CatalogueInit, ProductInv, Free, RequestsInv, TopicOf, Topics

LEMMA ProductFrame ==
  ASSUME ProductInv, RequestsInv', raced \subseteq raced', UNCHANGED <<product, unchecked>>,
         \A s \in Sessions : sess'[s] = sess[s] \/ sess'[s].topic # "product"
  PROVE  ProductInv'
  BY DEF ProductInv, RequestsInv, TopicOf

LEMMA ProductOneStep ==
  ASSUME ProductInv, OneStep
  PROVE  ProductInv'
<1>1. RequestsInv BY DEF ProductInv
<1>2. RequestsInv' /\ raced \subseteq raced' /\ sess' = sess BY <1>1, OneStepSteps
<1> USE DEF ProductInv, RequestsInv, TopicOf, Changed, Edited
<1>3. ASSUME NEW d \in BOOLEAN, NEW c \in BOOLEAN, create_product(d, c) PROVE ProductInv'
   BY <1>2, <1>3 DEF create_product
<1>4. ASSUME NEW c, NEW p, create_category(c, p) PROVE ProductInv'
   BY <1>2, <1>4 DEF create_category, productVars
<1>5. ASSUME NEW s, NEW a, NEW p, upsert_product_supplier(s, a, p) PROVE ProductInv'
   BY <1>2, <1>5 DEF upsert_product_supplier
<1>6. ASSUME NEW s, update_supplier(s) PROVE ProductInv'
   BY <1>2, <1>6 DEF update_supplier
<1>7. ASSUME NEW p \in OdooProducts, OdooCatalogueEvent(p) PROVE ProductInv'
   BY <1>2, <1>7, CatalogueAssumption DEF OdooCatalogueEvent
<1>8. CASE DeadLetter BY <1>2, <1>8 DEF DeadLetter, productVars
<1> QED BY <1>3, <1>4, <1>5, <1>6, <1>7, <1>8 DEF OneStep

\* A request for the product has written a row that is one of a product.
LEMMA ProductWritten ==
  ASSUME ProductInv, NEW s \in Sessions, StepOf(s, {"product", "none"}), sess[s].topic = "product",
         sess' = [sess EXCEPT ![s] = Free], unchecked' = unchecked, product'.exists,
         product' \in [exists : BOOLEAN, active : BOOLEAN, dropship : BOOLEAN, category : BOOLEAN]
  PROVE  ProductInv'
<1>1. \A t \in Sessions : t # s => sess'[t] = sess[t] BY DEF StepOf
<1>2. RequestsInv /\ RequestsInv' /\ raced \subseteq raced' BY DEF StepOf, ProductInv
<1>3. sess'[s].topic = "none" /\ sess'[s].op = "none" BY DEF Free, ProductInv, RequestsInv
<1>4. ASSUME NEW t \in Sessions, sess'[t].op \in {"edit", "content"}, "product" \notin raced'
      PROVE FALSE
  <2>1. t # s /\ sess'[t] = sess[t] BY <1>1, <1>3, <1>4
  <2>2. sess[t].topic = "product" BY <1>2, <1>4, <2>1 DEF RequestsInv, TopicOf
  <2> QED BY <1>2, <1>4, <2>1, <2>2 DEF RequestsInv, Topics
<1> QED BY <1>2, <1>4 DEF ProductInv

\* A column keeps its value when the request repeats the one read, or takes the new one.
LEMMA WrittenIs ==
  ASSUME NEW f, NEW read, NEW value
  PROVE  \/ value \subseteq {read[f]} /\ Written(f, read, value) = product[f]
         \/ ~(value \subseteq {read[f]}) /\ TRUE \in value /\ Written(f, read, value) = TRUE
         \/ ~(value \subseteq {read[f]}) /\ TRUE \notin value /\ Written(f, read, value) = FALSE
<1>1. CASE value \subseteq {read[f]} BY <1>1 DEF Written
<1>2. CASE ~(value \subseteq {read[f]}) /\ TRUE \in value BY <1>2 DEF Written
<1>3. CASE ~(value \subseteq {read[f]}) /\ TRUE \notin value
  <2>1. ~Written(f, read, value) BY <1>3 DEF Written
  <2>2. Written(f, read, value) \in BOOLEAN BY <1>3 DEF Written
  <2>3. Written(f, read, value) = FALSE BY <2>1, <2>2
  <2> QED BY <1>3, <2>3
<1> QED BY <1>1, <1>2, <1>3

LEMMA WrittenIsBoolean ==
  ASSUME ProductInv, NEW f \in {"active", "dropship", "category"}, NEW read, NEW value
  PROVE  Written(f, read, value) \in BOOLEAN
<1>1. product[f] \in BOOLEAN
  <2>1. CASE f = "active" BY <2>1 DEF ProductInv
  <2>2. CASE f = "dropship" BY <2>2 DEF ProductInv
  <2>3. CASE f = "category" BY <2>3 DEF ProductInv
  <2> QED BY <2>1, <2>2, <2>3
<1>2. \/ Written(f, read, value) = product[f]
      \/ Written(f, read, value) = TRUE \/ Written(f, read, value) = FALSE
  BY WrittenIs
<1>3. CASE Written(f, read, value) = product[f] BY <1>1, <1>3, Zenon
<1>4. CASE Written(f, read, value) = TRUE \/ Written(f, read, value) = FALSE BY <1>4
<1> QED BY <1>2, <1>3, <1>4

LEMMA ProductPublication ==
  ASSUME ProductInv, NEW s \in Sessions, Publication(s)
  PROVE  ProductInv'
<1>1. RequestsInv BY DEF ProductInv
<1>2. StepOf(s, {"product", "none"}) BY <1>1, PublicationSteps
<1>3. unchecked' = unchecked
  <2> USE DEF productVars
  <2>1. ASSUME NEW e \in Edits, BeginUpdate(s, e)
        PROVE unchecked' = unchecked BY <2>1 DEF BeginUpdate
  <2>2. CASE update_product(s) BY <2>2 DEF update_product
  <2>3. CASE BeginDelete(s) BY <2>3 DEF BeginDelete
  <2>4. CASE delete_product(s) BY <2>4 DEF delete_product
  <2>5. ASSUME NEW e, BeginContent(s, e)
        PROVE unchecked' = unchecked BY <2>5 DEF BeginContent
  <2>6. CASE update_product_content(s) BY <2>6 DEF update_product_content
  <2> QED BY <2>1, <2>2, <2>3, <2>4, <2>5, <2>6 DEF Publication
<1> USE DEF ProductInv, RequestsInv, TopicOf, StepOf, productVars, Free, Topics,
            Begin, Commit, Changed, Edited
<1>4. ASSUME NEW e \in Edits, BeginUpdate(s, e)
      PROVE ProductInv' BY <1>2, <1>4 DEF BeginUpdate
<1>5. CASE BeginDelete(s) BY <1>2, <1>5 DEF BeginDelete
<1>6. ASSUME NEW e, BeginContent(s, e) PROVE ProductInv' BY <1>2, <1>6 DEF BeginContent
<1>7. CASE update_product(s)
  <2>1. sess[s].topic = "product" BY <1>7 DEF update_product
  <2>2. sess' = [sess EXCEPT ![s] = Free] /\ product'.exists BY <1>7 DEF update_product
  <2>3. product' = [exists |-> TRUE, active |-> product'.active, dropship |-> product'.dropship,
                    category |-> product'.category]
    BY <1>7 DEF update_product
  <2>4. /\ product'.active \in BOOLEAN /\ product'.dropship \in BOOLEAN
        /\ product'.category \in BOOLEAN
    <3> HIDE DEF ProductInv
    <3> QED BY <1>7, WrittenIsBoolean DEF update_product
  <2> HIDE DEF ProductInv, StepOf, Free
  <2> QED BY <1>2, <1>3, <2>1, <2>2, <2>3, <2>4, ProductWritten
<1>8. CASE delete_product(s)
  <2>1. sess[s].topic = "product" /\ product.exists BY <1>8 DEF delete_product
  <2>2. sess' = [sess EXCEPT ![s] = Free] BY <1>8 DEF delete_product
  <2>3. product' = [product EXCEPT !.active = product.active /\ ~sess[s].active]
    BY <1>8 DEF delete_product
  <2>4. /\ product'.exists
        /\ product' \in [exists : BOOLEAN, active : BOOLEAN, dropship : BOOLEAN, category : BOOLEAN]
    BY <2>1, <2>3
  <2> HIDE DEF ProductInv, StepOf, Free
  <2> QED BY <1>2, <1>3, <2>1, <2>2, <2>4, ProductWritten
<1>9. CASE update_product_content(s)
  <2>1. sess[s].topic = "product" /\ product.exists BY <1>9 DEF update_product_content
  <2>2. sess' = [sess EXCEPT ![s] = Free] BY <1>9 DEF update_product_content
  <2>3. PICK v : product' = [product EXCEPT !.active = Written("active", sess[s].read, v)]
    BY <1>9 DEF update_product_content
  <2>4. Written("active", sess[s].read, v) \in BOOLEAN
    <3> HIDE DEF ProductInv
    <3> QED BY WrittenIsBoolean
  <2>5. /\ product'.exists
        /\ product' \in [exists : BOOLEAN, active : BOOLEAN, dropship : BOOLEAN, category : BOOLEAN]
    BY <2>1, <2>3, <2>4
  <2> HIDE DEF ProductInv, StepOf, Free
  <2> QED BY <1>2, <1>3, <2>1, <2>2, <2>5, ProductWritten
<1> QED BY <1>4, <1>7, <1>5, <1>8, <1>6, <1>9 DEF Publication

LEMMA ProductNext == ProductInv /\ [CatalogueNext]_catalogueVars => ProductInv'
<1> SUFFICES ASSUME ProductInv, CatalogueNext PROVE ProductInv'
  BY ProductFrame DEF ProductInv, RequestsInv, catalogueVars
<1>1. RequestsInv BY DEF ProductInv
<1>2. CASE OneStep BY <1>2, ProductOneStep
<1>3. ASSUME NEW s \in Sessions, Taxonomy(s) \/ Media(s) \/ Search(s) PROVE ProductInv'
  BY <1>1, <1>3, TaxonomySteps, MediaSteps, SearchSteps, ProductFrame DEF StepOf, productVars
<1>4. ASSUME NEW s \in Sessions, Rollback(s) PROVE ProductInv'
  BY <1>1, <1>4, Rollbacks, ProductFrame DEF productVars, Free, RequestsInv
<1> QED BY <1>2, <1>3, <1>4, ProductPublication, NextSplits

\* The staff's own requests look at the suppliers wherever they put a product on sale
\* or make one on sale drop-shipped.
LEMMA SourcedPublication ==
  ASSUME SourcedInv, NEW s \in Sessions, Publication(s)
  PROVE  SourcedWhileOnSale'
<1>1. RequestsInv BY DEF ProductInv, SourcedInv
<1>2. StepOf(s, {"product", "none"}) BY <1>1, PublicationSteps
<1>3. ASSUME NEW e \in Edits, BeginUpdate(s, e) PROVE SourcedWhileOnSale'
  BY <1>2, <1>3
     DEF BeginUpdate, SourcedInv, StepOf, productVars, SourcedWhileOnSale, Sourced,
         list_products
<1>4. CASE update_product(s)
  <2>1. UNCHANGED <<links, verified, unchecked>> BY <1>4 DEF update_product
  <2> SUFFICES ASSUME product'.active, "product" \notin raced', ~unchecked'
        PROVE Sourced(product'.dropship)
    BY <2>1 DEF SourcedWhileOnSale, list_products, Sourced
  <2>2. Sourced(TRUE) => \A d : Sourced(d) BY DEF Sourced
  <2>3. \A d : Sourced(d) => Sourced(FALSE) BY DEF Sourced
  <2>4. sess[s].read = product /\ "product" \notin raced /\ ~unchecked
    BY <1>2, <1>4, <2>1 DEF SourcedInv, ProductInv, update_product, StepOf
  <2>5. product.active => Sourced(product.dropship)
    BY <2>4 DEF SourcedInv, ProductInv, SourcedWhileOnSale, list_products
  <2> DEFINE e == sess[s].edit
  <2>6. product.dropship \in BOOLEAN /\ product.active \in BOOLEAN BY DEF SourcedInv, ProductInv
  <2>7. /\ product'.active = Written("active", product, e.active)
        /\ product'.dropship = Written("dropship", product, e.dropship)
    BY <1>4, <2>4 DEF update_product, Changed, Edited
  <2>8. \/ TRUE \in e.active /\ ~product.active
        \/ TRUE \in e.dropship /\ ~product.dropship /\ product.active
        => Sourced(IF TRUE \in e.active /\ ~product.active /\ e.dropship = {}
                       THEN product.dropship ELSE TRUE \in e.dropship)
    BY <1>4, <2>4 DEF update_product, MustBeSourced
  <2> HIDE DEF e
  <2>9. CASE product'.dropship = product.dropship
    <3>1. CASE product.active BY <2>9, <3>1, <2>5
    <3>2. CASE ~product.active
      <4>1. TRUE \in e.active BY <3>2, <2>7, WrittenIs
      <4>2. CASE e.dropship = {} BY <2>9, <3>2, <4>1, <4>2, <2>8
      <4>3. CASE TRUE \in e.dropship
        <5>1. Sourced(TRUE) BY <3>2, <4>1, <4>3, <2>8
        <5> QED BY <5>1, <2>2
      <4>4. CASE e.dropship # {} /\ TRUE \notin e.dropship
        <5>1. Sourced(FALSE) BY <3>2, <4>1, <2>3, <2>8
        <5>2. product.dropship = FALSE
          <6>1. CASE e.dropship \subseteq {product.dropship} BY <4>4, <6>1, <2>6
          <6>2. CASE ~(e.dropship \subseteq {product.dropship}) BY <4>4, <6>2, <2>9, <2>7, WrittenIs
          <6> QED BY <6>1, <6>2
        <5> QED BY <5>1, <5>2, <2>9
      <4> QED BY <4>2, <4>3, <4>4
    <3> QED BY <3>1, <3>2
  <2>10. CASE product'.dropship # product.dropship
    <3>1. CASE TRUE \in e.dropship
      <4>1. product'.dropship = TRUE /\ product.dropship = FALSE
        BY <2>10, <3>1, <2>6, <2>7, WrittenIs
      <4>2. TRUE \in e.active \/ product.active BY <2>7, WrittenIs
      <4>3. Sourced(TRUE) BY <3>1, <4>1, <4>2, <2>8
      <4> QED BY <4>3, <2>2
    <3>2. CASE TRUE \notin e.dropship
      <4>1. product'.dropship = FALSE BY <2>10, <3>2, <2>7, WrittenIs
      <4>2. product'.dropship = FALSE /\ product.dropship = TRUE BY <2>10, <4>1, <2>6
      <4>3. CASE product.active BY <4>2, <4>3, <2>2, <2>5
      <4>4. CASE ~product.active
        <5>1. TRUE \in e.active BY <4>4, <2>7, WrittenIs
        <5>2. e.dropship # {} BY <2>10, <2>7, WrittenIs
        <5>3. Sourced(TRUE \in e.dropship) BY <4>4, <5>1, <5>2, <2>8
        <5>4. Sourced(FALSE) BY <3>2, <5>3, <2>3
        <5> QED BY <4>2, <5>4
      <4> QED BY <4>3, <4>4
    <3> QED BY <3>1, <3>2
  <2> QED BY <2>9, <2>10
<1>5. CASE BeginDelete(s)
  BY <1>2, <1>5
     DEF BeginDelete, SourcedInv, StepOf, productVars, SourcedWhileOnSale, Sourced,
         list_products
<1>6. CASE delete_product(s)
  BY <1>2, <1>6
     DEF delete_product, Changed, Edited, SourcedInv, ProductInv, StepOf, SourcedWhileOnSale,
         Sourced, list_products
<1>7. ASSUME NEW e, BeginContent(s, e) PROVE SourcedWhileOnSale'
  BY <1>2, <1>7
     DEF BeginContent, SourcedInv, StepOf, productVars, SourcedWhileOnSale,
         Sourced, list_products
<1>8. CASE update_product_content(s)
  <2>1. UNCHANGED <<links, verified, unchecked>> BY <1>8 DEF update_product_content
  <2> SUFFICES ASSUME product'.active, "product" \notin raced', ~unchecked'
        PROVE Sourced(product'.dropship)
    BY <2>1 DEF SourcedWhileOnSale, list_products, Sourced
  <2>2. sess[s].read = product /\ "product" \notin raced /\ ~unchecked
    BY <1>2, <1>8, <2>1 DEF SourcedInv, ProductInv, update_product_content, StepOf
  <2>3. product.active => Sourced(product.dropship)
    BY <2>2 DEF SourcedInv, ProductInv, SourcedWhileOnSale, list_products
  <2>4. product'.dropship = product.dropship
    BY <1>8 DEF SourcedInv, ProductInv, update_product_content, Changed, Edited
  <2>5. CASE product.active BY <2>5, <2>3, <2>4
  <2>6. CASE ~product.active
    <3>1. sess[s].target = "published" /\ sess[s].status # "published"
      BY <1>8, <2>2, <2>6
         DEF SourcedInv, ProductInv, update_product_content, Changed, Edited, Written
    <3>2. Publishable(product) BY <1>8, <2>2, <3>1 DEF update_product_content
    <3> QED BY <3>2, <2>4 DEF Publishable
  <2> QED BY <2>5, <2>6
<1> QED BY <1>3, <1>4, <1>5, <1>6, <1>7, <1>8 DEF Publication

LEMMA SourcedNext == SourcedInv /\ [CatalogueNext]_catalogueVars => SourcedInv'
<1> SUFFICES ASSUME SourcedInv, [CatalogueNext]_catalogueVars
      PROVE SourcedWhileOnSale'
  BY ProductNext DEF SourcedInv
<1>1. ProductInv BY DEF SourcedInv
<1>2. RequestsInv BY DEF SourcedInv, ProductInv
<1> DEFINE Same == raced \subseteq raced' /\ UNCHANGED productVars
<1>3. CASE Same
  BY <1>3 DEF SourcedInv, SourcedWhileOnSale, productVars, list_products, Sourced
<1>4. CASE UNCHANGED catalogueVars BY <1>3, <1>4 DEF catalogueVars, productVars
<1>5. CASE OneStep
  <2> USE DEF SourcedInv, ProductInv, SourcedWhileOnSale, list_products, Sourced
  <2>1. ASSUME NEW d, NEW c, create_product(d, c) PROVE SourcedWhileOnSale'
    BY <2>1 DEF create_product, Changed, Edited
  <2>2. ASSUME NEW c, NEW p, create_category(c, p) PROVE SourcedWhileOnSale'
    BY <2>2, <1>3 DEF create_category
  <2>3. ASSUME NEW s, NEW a, NEW p, upsert_product_supplier(s, a, p)
        PROVE SourcedWhileOnSale'
    BY <2>3 DEF upsert_product_supplier
  <2>4. ASSUME NEW s, update_supplier(s) PROVE SourcedWhileOnSale'
    BY <2>4 DEF update_supplier
  <2>5. ASSUME NEW p, OdooCatalogueEvent(p) PROVE SourcedWhileOnSale'
    BY <2>5 DEF OdooCatalogueEvent
  <2>6. CASE DeadLetter BY <1>3, <2>6 DEF DeadLetter
  <2> QED BY <1>5, <2>1, <2>2, <2>3, <2>4, <2>5, <2>6 DEF OneStep
<1>6. ASSUME NEW s \in Sessions, Taxonomy(s) \/ Media(s) \/ Search(s)
      PROVE SourcedWhileOnSale'
  BY <1>2, <1>3, <1>6, TaxonomySteps, MediaSteps, SearchSteps DEF StepOf
<1>7. ASSUME NEW s \in Sessions, Rollback(s) PROVE SourcedWhileOnSale'
  BY <1>2, <1>3, <1>7, Rollbacks
<1> QED BY <1>4, <1>5, <1>6, <1>7, SourcedPublication, NextSplits

\* A product on sale has a verified supplier, a primary one if it is drop-shipped, for
\* any edits and suppliers (products/service.py:315, catalog_service.py:871), until two
\* requests for it overlap or Odoo or an edit of the suppliers changes the sourcing.
THEOREM ProductsOnSaleAreSourced == CatalogueSpec => []SourcedWhileOnSale
<1>1. CatalogueInit => SourcedInv
  BY ProductInit DEF SourcedInv, SourcedWhileOnSale, list_products, CatalogueInit
<1>2. SourcedInv /\ [CatalogueNext]_catalogueVars => SourcedInv' BY SourcedNext
<1>3. SourcedInv => SourcedWhileOnSale BY DEF SourcedInv
<1> QED BY <1>1, <1>2, <1>3, PTL DEF CatalogueSpec

-------------------------------------------------------------------------------
(* The search index *)

\* An index task that is not outdated sends the product as it still is; while the index
\* lacks the last change, an event of it waits or such a task is at work.
SearchInv ==
    /\ ProductInv
    /\ listed \in BOOLEAN /\ queued \in BOOLEAN
    /\ outdated \subseteq Indexing
    /\ \A s \in Indexing : /\ sess[s].active \in BOOLEAN
                           /\ s \notin outdated => sess[s].active = product.active
    /\ entry \in {"due", "done", "lost"}
    /\ entry = "done" => listed = product.active
    /\ entry = "due" /\ ~queued => Indexing \ outdated # {}

\* A handler that writes the product leaves an event of it, and all tasks at work outdated.
LEMMA SearchChanged ==
  ASSUME SearchInv, ProductInv', NEW p, Changed(p),
         \A s \in Sessions : \/ sess'[s] = sess[s]
                             \/ sess[s].topic # "tasks" /\ sess'[s].topic # "tasks"
  PROVE  SearchInv'
<1>1. \A s \in Sessions : sess[s].op = "index" \/ sess'[s].op = "index" => sess'[s] = sess[s]
  BY DEF SearchInv, ProductInv, RequestsInv, TopicOf
<1>2. Indexing' = Indexing BY <1>1 DEF Indexing
<1>3. outdated' = Indexing /\ entry' = "due" /\ queued' = TRUE /\ listed' = listed
  BY DEF Changed, Edited
<1> QED BY <1>1, <1>2, <1>3 DEF SearchInv, Indexing

LEMMA SearchFrame ==
  ASSUME SearchInv, ProductInv', UNCHANGED product, UNCHANGED searchVars,
         \A s \in Sessions : \/ sess'[s] = sess[s]
                             \/ sess[s].topic # "tasks" /\ sess'[s].topic # "tasks"
  PROVE  SearchInv'
<1>1. \A s \in Sessions : sess[s].op = "index" \/ sess'[s].op = "index" => sess'[s] = sess[s]
  BY DEF SearchInv, ProductInv, RequestsInv, TopicOf
<1>2. Indexing' = Indexing BY <1>1 DEF Indexing
<1> QED BY <1>1, <1>2 DEF SearchInv, Indexing, searchVars

LEMMA SearchPublication ==
  ASSUME SearchInv, ProductInv', NEW s \in Sessions, Publication(s)
  PROVE  SearchInv'
<1>1. StepOf(s, {"product", "none"}) BY PublicationSteps DEF SearchInv, ProductInv
<1>2. \A t \in Sessions : \/ sess'[t] = sess[t]
                          \/ sess[t].topic # "tasks" /\ sess'[t].topic # "tasks"
  BY <1>1 DEF StepOf
<1>3. ASSUME NEW p, Changed(p) PROVE SearchInv' BY <1>2, <1>3, SearchChanged
<1>4. ASSUME NEW e \in Edits, BeginUpdate(s, e) PROVE SearchInv'
  BY <1>2, <1>4, SearchFrame DEF BeginUpdate, productVars
<1>5. CASE update_product(s) BY <1>3, <1>5 DEF update_product
<1>6. CASE BeginDelete(s) BY <1>2, <1>6, SearchFrame DEF BeginDelete, productVars
<1>7. CASE delete_product(s) BY <1>3, <1>7 DEF delete_product
<1>8. ASSUME NEW e, BeginContent(s, e) PROVE SearchInv'
  BY <1>2, <1>8, SearchFrame DEF BeginContent, productVars
<1>9. CASE update_product_content(s) BY <1>3, <1>9 DEF update_product_content
<1> QED BY <1>4, <1>5, <1>6, <1>7, <1>8, <1>9 DEF Publication

LEMMA SearchOneStep ==
  ASSUME SearchInv, ProductInv', OneStep
  PROVE  SearchInv'
<1>1. sess' = sess BY OneStepSteps DEF SearchInv, ProductInv
<1>2. ASSUME NEW p, Changed(p) PROVE SearchInv' BY <1>1, <1>2, SearchChanged
<1>3. ASSUME NEW d, NEW c, create_product(d, c)
      PROVE SearchInv' BY <1>2, <1>3 DEF create_product
<1>4. ASSUME NEW c, NEW p, create_category(c, p) PROVE SearchInv'
  BY <1>1, <1>4, SearchFrame DEF create_category, productVars
<1>5. ASSUME NEW s, NEW a, NEW p, upsert_product_supplier(s, a, p) PROVE SearchInv'
  BY <1>1, <1>5, SearchFrame DEF upsert_product_supplier
<1>6. ASSUME NEW s, update_supplier(s) PROVE SearchInv'
  BY <1>1, <1>6, SearchFrame DEF update_supplier
<1>7. ASSUME NEW p, OdooCatalogueEvent(p)
      PROVE SearchInv' BY <1>2, <1>7 DEF OdooCatalogueEvent
<1>8. CASE DeadLetter
  <2>1. Indexing' = Indexing BY <1>1 DEF Indexing
  <2> QED BY <1>1, <1>8, <2>1 DEF DeadLetter, SearchInv, productVars
<1> QED BY <1>3, <1>4, <1>5, <1>6, <1>7, <1>8 DEF OneStep

\* A task that starts or is retried reads the product as it is; one that ends brings the
\* last change to the index, or was outdated and another is to follow.
LEMMA SearchTasks ==
  ASSUME SearchInv, ProductInv', NEW s \in Sessions, Search(s)
  PROVE  SearchInv'
<1>1. StepOf(s, {"tasks", "none"}) /\ product' = product
  BY SearchSteps DEF SearchInv, ProductInv, productVars
<1>2. product.active \in BOOLEAN BY DEF SearchInv, ProductInv
<1>3. \A t \in Sessions : t # s => sess'[t] = sess[t] BY <1>1 DEF StepOf
<1>4. DOMAIN sess = Sessions BY DEF SearchInv, ProductInv, RequestsInv
<1>5. CASE BeginIndex(s)
  <2>1. /\ sess[s].op = "none" /\ sess'[s].op = "index" /\ sess'[s].active = product.active
        /\ UNCHANGED <<listed, outdated, entry>> /\ (queued' = FALSE \/ queued' = queued)
    BY <1>4, <1>5 DEF BeginIndex, Task, Free
  <2>2. Indexing' = Indexing \cup {s} BY <1>3, <2>1 DEF Indexing
  <2>3. s \notin outdated
    <3>1. s \notin Indexing BY <2>1 DEF Indexing
    <3> QED BY <3>1 DEF SearchInv
  <2>4. s \in Indexing' \ outdated' BY <2>1, <2>2, <2>3
  <2>5. \A t \in Indexing' : t = s \/ (t \in Indexing /\ sess'[t] = sess[t])
    BY <1>3, <2>2 DEF Indexing
  <2> QED BY <1>1, <1>2, <2>1, <2>2, <2>4, <2>5 DEF SearchInv
<1>6. CASE index_product(s) \/ GiveUp(s)
  <2>1. /\ sess[s].op = "index" /\ sess'[s].op = "none"
        /\ outdated' = outdated \ {s} /\ queued' = queued
    BY <1>4, <1>6 DEF index_product, GiveUp, Commit, Free
  <2>2. Indexing' = Indexing \ {s} /\ s \in Indexing BY <1>3, <2>1 DEF Indexing
  <2>3. \A t \in Indexing' : t \in Indexing /\ t # s /\ sess'[t] = sess[t]
    BY <1>3, <2>2 DEF Indexing
  <2>4. s \in outdated => Indexing' \ outdated' = Indexing \ outdated BY <2>1, <2>2
  <2>5. CASE index_product(s)
    <3>1. /\ listed' = sess[s].active
          /\ entry' = IF s \notin outdated THEN "done"
                      ELSE IF entry = "done" THEN "lost" ELSE entry
      BY <2>5 DEF index_product
    <3> QED BY <1>1, <1>2, <2>1, <2>2, <2>3, <2>4, <3>1 DEF SearchInv
  <2>6. CASE GiveUp(s)
    <3>1. /\ listed' = listed
          /\ entry' = IF entry = "due" /\ s \notin outdated THEN "lost" ELSE entry
      BY <2>6 DEF GiveUp
    <3> QED BY <1>1, <1>2, <2>1, <2>2, <2>3, <2>4, <3>1 DEF SearchInv
  <2> QED BY <1>6, <2>5, <2>6
<1>7. CASE _retry(s)
  <2>1. /\ sess[s].op = "index" /\ sess'[s].op = "index" /\ sess'[s].active = product.active
        /\ outdated' = outdated \ {s} /\ UNCHANGED <<listed, queued, entry>>
    BY <1>4, <1>7 DEF _retry, Task
  <2>2. Indexing' = Indexing /\ s \in Indexing BY <1>3, <2>1 DEF Indexing
  <2>3. \A t \in Indexing' : t = s \/ sess'[t] = sess[t] BY <1>3 DEF Indexing
  <2>4. s \in Indexing' \ outdated' BY <2>1, <2>2
  <2> QED BY <1>1, <1>2, <2>1, <2>2, <2>3, <2>4 DEF SearchInv
<1> QED BY <1>5, <1>6, <1>7 DEF Search

LEMMA SearchNext == SearchInv /\ [CatalogueNext]_catalogueVars => SearchInv'
<1> SUFFICES ASSUME SearchInv, [CatalogueNext]_catalogueVars PROVE SearchInv' OBVIOUS
<1>1. ProductInv' BY ProductNext DEF SearchInv
<1>2. RequestsInv BY DEF SearchInv, ProductInv
<1>3. CASE UNCHANGED catalogueVars BY <1>1, <1>3, SearchFrame DEF catalogueVars, searchVars
<1>4. ASSUME NEW s \in Sessions, Taxonomy(s) \/ Media(s) PROVE SearchInv'
  BY <1>1, <1>2, <1>4, TaxonomySteps, MediaSteps, SearchFrame DEF StepOf, productVars
<1>5. ASSUME NEW s \in Sessions, Rollback(s) PROVE SearchInv'
  BY <1>1, <1>2, <1>5, Rollbacks, SearchFrame
     DEF productVars, Free, RequestsInv, Rollback, TopicOf
<1> QED BY <1>1, <1>3, <1>4, <1>5, SearchPublication, SearchOneStep, SearchTasks, NextSplits

\* When no event of the product waits and no index task is at work, the index has the
\* product if and only if it is on sale (algolia/service.py:69, outbox_tasks.py:111),
\* however changes, tasks started before them, retries and repeated tasks interleave,
\* unless the last event or task was given up or an outdated task was the last to send.
THEOREM SearchIndexAgrees == CatalogueSpec => []SearchAgrees
<1>1. CatalogueInit => SearchInv
  <2> SUFFICES ASSUME CatalogueInit PROVE SearchInv OBVIOUS
  <2>1. ProductInv BY ProductInit
  <2>2. /\ listed = FALSE /\ product.active = FALSE /\ queued = FALSE /\ outdated = {}
        /\ entry = "done" /\ Indexing = {}
    BY DEF CatalogueInit, Free, Indexing
  <2> QED BY <2>1, <2>2 DEF SearchInv
<1>2. SearchInv /\ [CatalogueNext]_catalogueVars => SearchInv' BY SearchNext
<1>3. SearchInv => SearchAgrees
  <2> SUFFICES ASSUME SearchInv, ~queued, Indexing = {}, entry # "lost"
               PROVE listed = list_products
    BY DEF SearchAgrees
  <2>1. /\ listed = product.active /\ listed \in BOOLEAN
        /\ product.exists \in BOOLEAN /\ (product.active => product.exists)
    BY DEF SearchInv, ProductInv
  <2>2. listed <=> list_products BY <2>1 DEF list_products
  <2>3. CASE listed
    <3>1. list_products BY <2>2, <2>3
    <3> QED BY <2>1, <2>3, <3>1, Zenon
  <2>4. CASE ~listed
    <3>1. ~list_products BY <2>2, <2>4
    <3>2. list_products \in BOOLEAN BY DEF list_products
    <3>3. list_products = FALSE /\ listed = FALSE BY <2>1, <2>4, <3>1, <3>2
    <3> QED BY <3>3
  <2> QED BY <2>3, <2>4
<1> QED BY <1>1, <1>2, <1>3, PTL DEF CatalogueSpec

-------------------------------------------------------------------------------
(* The table of images *)

\* The rows of the table are images, and an upload carries one.
MediaInv ==
    /\ RequestsInv
    /\ images \subseteq [id : Images, primary : BOOLEAN]
    /\ \A s \in Sessions : sess[s].op = "upload" => /\ sess[s].id \in Images
                                                    /\ sess[s].primary \in BOOLEAN

\* What an upload, a reorder and a removal make of a row they leave in the table.
Demoted(i, r) ==
    [i EXCEPT !.primary = @ /\ i.id \notin r.rows /\ ~(r.older /\ r.primary /\ r.read # {})]
Placed(i, r) == IF i.id \in r.rows THEN [i EXCEPT !.primary = i.id = r.primary] ELSE i
Kept(i, r) == [i EXCEPT !.primary = @ \/ i.id \in r.promoted]

LEMMA MediaInit == CatalogueInit => MediaInv
<1> SUFFICES ASSUME CatalogueInit PROVE MediaInv OBVIOUS
<1>1. RequestsInv /\ \A s \in Sessions : sess[s].op = "none"
  BY DEF CatalogueInit, Free, RequestsInv, TopicOf, Topics
<1>2. images \in {{}} \cup {{[id |-> i, primary |-> TRUE]} : i \in Images} BY DEF CatalogueInit
<1>3. images \subseteq [id : Images, primary : BOOLEAN]
  <2>1. CASE images = {} BY <2>1
  <2>2. CASE images # {}
    <3>1. PICK i \in Images : images = {[id |-> i, primary |-> TRUE]} BY <1>2, <2>2
    <3> QED BY <3>1
  <2> QED BY <2>1, <2>2
<1> QED BY <1>1, <1>3 DEF MediaInv

LEMMA MediaFrame ==
  ASSUME MediaInv, RequestsInv', images' = images,
         \A s \in Sessions : sess'[s] = sess[s] \/ sess'[s].op # "upload"
  PROVE  MediaInv'
  BY DEF MediaInv

LEMMA MediaMedia ==
  ASSUME MediaInv, NEW s \in Sessions, Media(s)
  PROVE  MediaInv'
<1>1. RequestsInv' /\ \A t \in Sessions : t # s => sess'[t] = sess[t]
  BY MediaSteps DEF MediaInv, StepOf
<1>2. DOMAIN sess = Sessions BY DEF MediaInv, RequestsInv
<1> USE DEF Free, Begin, Commit
<1>3. ASSUME NEW id \in Images, NEW primary \in BOOLEAN, NEW older,
             BeginUpload(s, id, primary, older)
      PROVE MediaInv'
  BY <1>1, <1>2, <1>3 DEF BeginUpload, MediaInv
<1>4. CASE add_media(s)
  <2>1. images' = {Demoted(i, sess[s]) : i \in images}
                  \cup {[id |-> sess[s].id, primary |-> sess[s].primary]}
    BY <1>4 DEF add_media, Demoted
  <2>2. [id |-> sess[s].id, primary |-> sess[s].primary] \in [id : Images, primary : BOOLEAN]
    BY <1>4 DEF add_media, MediaInv
  <2>3. ASSUME NEW i \in images PROVE Demoted(i, sess[s]) \in [id : Images, primary : BOOLEAN]
    BY DEF Demoted, MediaInv
  <2>4. images' \subseteq [id : Images, primary : BOOLEAN] BY <2>1, <2>2, <2>3
  <2>5. sess'[s].op = "none" BY <1>2, <1>4 DEF add_media
  <2> QED BY <1>1, <2>4, <2>5 DEF MediaInv
<1>5. ASSUME NEW i, FailUpload(s, i) PROVE MediaInv'
  BY <1>1, <1>2, <1>5, MediaFrame DEF FailUpload
<1>6. ASSUME NEW i, BeginReorder(s, i) PROVE MediaInv'
  BY <1>1, <1>2, <1>6, MediaFrame DEF BeginReorder, mediaVars
<1>7. CASE reorder_media(s)
  <2>1. images' = {Placed(i, sess[s]) : i \in images} BY <1>7 DEF reorder_media, Placed
  <2>2. ASSUME NEW i \in images PROVE Placed(i, sess[s]) \in [id : Images, primary : BOOLEAN]
    BY DEF MediaInv, Placed
  <2>3. images' \subseteq [id : Images, primary : BOOLEAN] BY <2>1, <2>2
  <2>4. sess'[s].op = "none" BY <1>2, <1>7 DEF reorder_media
  <2> QED BY <1>1, <2>3, <2>4 DEF MediaInv
<1>8. ASSUME NEW i, NEW p, NEW older, BeginRemove(s, i, p, older) PROVE MediaInv'
  BY <1>1, <1>2, <1>8, MediaFrame DEF BeginRemove
<1>9. CASE delete_media(s)
  <2>1. images' = {Kept(i, sess[s]) : i \in {j \in images : j.id # sess[s].id}}
    BY <1>9 DEF delete_media, Kept
  <2>2. ASSUME NEW i \in images PROVE Kept(i, sess[s]) \in [id : Images, primary : BOOLEAN]
    BY DEF MediaInv, Kept
  <2>3. images' \subseteq [id : Images, primary : BOOLEAN] BY <2>1, <2>2
  <2>4. sess'[s].op # "upload" BY <1>2, <1>9 DEF delete_media
  <2> QED BY <1>1, <2>3, <2>4 DEF MediaInv
<1>10. ASSUME NEW r, _cleanup_catalog_media(s, r) PROVE MediaInv'
  BY <1>1, <1>2, <1>10, MediaFrame DEF _cleanup_catalog_media
<1>11. CASE Crash(s) BY <1>1, <1>2, <1>11, MediaFrame DEF Crash
<1> QED BY <1>3, <1>4, <1>5, <1>6, <1>7, <1>8, <1>9, <1>10, <1>11 DEF Media

LEMMA MediaNext == MediaInv /\ [CatalogueNext]_catalogueVars => MediaInv'
<1> SUFFICES ASSUME MediaInv, [CatalogueNext]_catalogueVars PROVE MediaInv' OBVIOUS
<1>1. RequestsInv BY DEF MediaInv
<1>2. CASE UNCHANGED catalogueVars BY <1>1, <1>2, MediaFrame DEF catalogueVars, RequestsInv
<1>3. CASE OneStep BY <1>1, <1>3, OneStepSteps, MediaFrame DEF mediaVars
<1>4. ASSUME NEW s \in Sessions, Publication(s) \/ Taxonomy(s) \/ Search(s)
      PROVE MediaInv'
  BY <1>1, <1>4, PublicationSteps, TaxonomySteps, SearchSteps, MediaFrame
     DEF StepOf, mediaVars, RequestsInv, TopicOf
<1>5. ASSUME NEW s \in Sessions, Rollback(s) PROVE MediaInv'
  BY <1>1, <1>5, Rollbacks, MediaFrame DEF mediaVars, Free, RequestsInv
<1> QED BY <1>2, <1>3, <1>4, <1>5, MediaMedia, NextSplits

\* What the steps on the table do to the ids in it.
LEMMA IdsAdded ==
  ASSUME MediaInv, NEW s \in Sessions, add_media(s)
  PROVE  Ids' = Ids \cup {sess[s].id}
<1> DEFINE new == [id |-> sess[s].id, primary |-> sess[s].primary]
<1>1. images' = {Demoted(i, sess[s]) : i \in images} \cup {new}
  BY DEF add_media, Demoted
<1>2. ASSUME NEW i \in images PROVE Demoted(i, sess[s]).id = i.id BY DEF Demoted, MediaInv
<1>3. new.id = sess[s].id OBVIOUS
<1> HIDE DEF new
<1> QED BY <1>1, <1>2, <1>3 DEF Ids

LEMMA IdsReordered ==
  ASSUME MediaInv, NEW s \in Sessions, reorder_media(s)
  PROVE  Ids' = Ids
<1>1. images' = {Placed(i, sess[s]) : i \in images} BY DEF reorder_media, Placed
<1>2. ASSUME NEW i \in images PROVE Placed(i, sess[s]).id = i.id BY DEF MediaInv, Placed
<1> QED BY <1>1, <1>2 DEF Ids

LEMMA IdsRemoved ==
  ASSUME MediaInv, NEW s \in Sessions, delete_media(s)
  PROVE  Ids' = Ids \ {sess[s].id}
<1>1. images' = {Kept(i, sess[s]) : i \in {j \in images : j.id # sess[s].id}}
  BY DEF delete_media, Kept
<1>2. ASSUME NEW i \in images PROVE Kept(i, sess[s]).id = i.id BY DEF MediaInv, Kept
<1> QED BY <1>1, <1>2 DEF Ids

-------------------------------------------------------------------------------
(* The files of the images *)

\* Requests that hold a file: stored and not in the table yet, or about to go.
Holding == {"upload", "remove", "cleanup"}

\* An image is held by one request at most: an upload's id is new, and a removal locks
\* the row of its own.  What is in the store alone is held by a request, or leaked.
FilesInv ==
    /\ MediaInv
    /\ \A s \in Sessions :
         /\ sess[s].op = "upload" => sess[s].id \in files \ Ids
         /\ sess[s].op = "remove" => /\ sess[s].id \in Ids \cap sess[s].rows
                                     /\ sess[s].older => sess[s].id \notin files
         /\ sess[s].op = "cleanup" => sess[s].id \in (files \cup lost) \ Ids
    /\ \A s, t \in Sessions :
         sess[s].op \in Holding /\ sess[t].op \in Holding /\ sess[s].id = sess[t].id => s = t
    /\ Ids \subseteq files \cup lost
    /\ \A f \in files \ (Ids \cup leaked) :
         \E s \in Sessions : sess[s].op \in {"upload", "cleanup"} /\ sess[s].id = f

LEMMA FilesInit == CatalogueInit => FilesInv
<1> SUFFICES ASSUME CatalogueInit PROVE FilesInv OBVIOUS
<1>1. MediaInv BY MediaInit
<1>2. \A s \in Sessions : sess[s].op = "none" BY DEF CatalogueInit, Free
<1>3. files = Ids BY DEF CatalogueInit, Ids
<1> QED BY <1>1, <1>2, <1>3 DEF FilesInv, Holding

LEMMA FilesFrame ==
  ASSUME FilesInv, MediaInv', UNCHANGED <<images, files, lost, leaked>>,
         \A s \in Sessions :
            \/ sess'[s] = sess[s]
            \/ sess[s].op \notin {"upload", "cleanup"} /\ sess'[s].op \notin Holding
  PROVE  FilesInv'
<1>1. Ids' = Ids BY DEF Ids
<1> QED BY <1>1 DEF FilesInv, Holding

LEMMA FilesMedia ==
  ASSUME FilesInv, MediaInv', NEW s \in Sessions, Media(s)
  PROVE  FilesInv'
<1>1. MediaInv BY DEF FilesInv
<1>2. \A t \in Sessions : t # s => sess'[t] = sess[t] BY <1>1, MediaSteps DEF MediaInv, StepOf
<1>3. DOMAIN sess = Sessions BY <1>1 DEF MediaInv, RequestsInv
<1>4. images' = images => Ids' = Ids BY DEF Ids
<1> USE DEF Free, Begin, Commit
<1>5. ASSUME NEW id \in Images, NEW primary \in BOOLEAN, NEW older,
             BeginUpload(s, id, primary, older)
      PROVE FilesInv'
  <2>1. id \notin Ids \cup files \cup lost BY <1>5 DEF BeginUpload, Stored
  <2>2. sess[s].op = "none" /\ sess'[s].op = "upload" /\ sess'[s].id = id
    BY <1>3, <1>5 DEF BeginUpload
  <2>3. Ids' = Ids /\ files' = files \cup {id} /\ lost' = lost /\ leaked' = leaked
    BY <1>4, <1>5 DEF BeginUpload
  <2> QED BY <1>2, <2>1, <2>2, <2>3 DEF FilesInv, Holding
<1>6. CASE add_media(s)
  <2>1. /\ sess[s].op = "upload" /\ sess'[s].op = "none"
        /\ files' = files /\ lost' = lost /\ leaked' = leaked
    BY <1>3, <1>6 DEF add_media
  <2>2. Ids' = Ids \cup {sess[s].id} BY <1>1, <1>6, IdsAdded
  <2> QED BY <1>2, <2>1, <2>2 DEF FilesInv, Holding
<1>7. ASSUME NEW i, FailUpload(s, i) PROVE FilesInv'
  <2>1. /\ sess[s].op = "upload" /\ sess'[s].op = "none" /\ lost' = lost /\ Ids' = Ids
        /\ \/ files' = files /\ leaked' = leaked \cup {sess[s].id}
           \/ files' = files \ {sess[s].id} /\ leaked' = leaked
    BY <1>3, <1>4, <1>7 DEF FailUpload
  <2> QED BY <1>2, <2>1 DEF FilesInv, Holding
<1>8. ASSUME NEW i, BeginReorder(s, i) PROVE FilesInv'
  BY <1>2, <1>3, <1>8, FilesFrame DEF BeginReorder, mediaVars, Holding
<1>9. CASE reorder_media(s)
  <2>1. /\ sess[s].op = "reorder" /\ sess'[s].op = "none"
        /\ files' = files /\ lost' = lost /\ leaked' = leaked
    BY <1>3, <1>9 DEF reorder_media
  <2>2. Ids' = Ids BY <1>1, <1>9, IdsReordered
  <2> QED BY <1>2, <2>1, <2>2 DEF FilesInv, Holding
<1>10. ASSUME NEW i, NEW p, NEW older, BeginRemove(s, i, p, older) PROVE FilesInv'
  <2>1. /\ sess[s].op = "none" /\ sess'[s].op = "remove"
        /\ sess'[s].id = i.id /\ i.id \in sess'[s].rows
        /\ sess'[s].older = older
    BY <1>3, <1>10 DEF BeginRemove
  <2>2. /\ i.id \in Ids /\ Ids' = Ids /\ leaked' = leaked
        /\ IF older THEN files' = files \ {i.id} /\ lost' = lost \cup {i.id}
                    ELSE files' = files /\ lost' = lost
    BY <1>4, <1>10 DEF BeginRemove, Ids
  <2>3. ASSUME NEW t \in Sessions, t # s, sess[t].op = "remove" PROVE sess[t].id # i.id
    <3>1. sess[t].topic = "media" BY <1>1, <2>3 DEF MediaInv, RequestsInv, TopicOf
    <3>2. i.id \notin sess[t].rows BY <1>10, <2>3, <3>1 DEF BeginRemove, RowLocks
    <3> QED BY <2>3, <3>2 DEF FilesInv
  <2> QED BY <1>2, <2>1, <2>2, <2>3 DEF FilesInv, Holding
<1>11. CASE delete_media(s)
  <2>1. /\ sess[s].op = "remove" /\ files' = files /\ lost' = lost /\ leaked' = leaked
        /\ IF sess[s].older THEN sess'[s].op = "none"
                            ELSE sess'[s].op = "cleanup" /\ sess'[s].id = sess[s].id
    BY <1>3, <1>11 DEF delete_media
  <2>2. Ids' = Ids \ {sess[s].id} BY <1>1, <1>11, IdsRemoved
  <2> QED BY <1>2, <2>1, <2>2 DEF FilesInv, Holding
<1>12. ASSUME NEW r, _cleanup_catalog_media(s, r) PROVE FilesInv'
  <2>1. /\ sess[s].op = "cleanup" /\ sess'[s].op = "none" /\ lost' = lost /\ Ids' = Ids
        /\ \/ files' = files /\ leaked' = leaked \cup {sess[s].id}
           \/ files' = files \ {sess[s].id} /\ leaked' = leaked
    BY <1>3, <1>4, <1>12 DEF _cleanup_catalog_media
  <2> QED BY <1>2, <2>1 DEF FilesInv, Holding
<1>13. CASE Crash(s)
  <2>1. /\ sess[s].op \in Holding /\ sess'[s].op = "none"
        /\ lost' = lost /\ files' = files /\ Ids' = Ids
        /\ leaked' = leaked \cup (IF sess[s].op = "remove" THEN {} ELSE {sess[s].id})
    BY <1>3, <1>4, <1>13 DEF Crash, Holding
  <2> QED BY <1>2, <2>1 DEF FilesInv, Holding
<1> QED BY <1>5, <1>6, <1>7, <1>8, <1>9, <1>10, <1>11, <1>12, <1>13 DEF Media

LEMMA FilesNext == FilesInv /\ [CatalogueNext]_catalogueVars => FilesInv'
<1> SUFFICES ASSUME FilesInv, [CatalogueNext]_catalogueVars PROVE FilesInv' OBVIOUS
<1>1. MediaInv /\ MediaInv' /\ RequestsInv BY MediaNext DEF FilesInv, MediaInv
<1>2. CASE UNCHANGED catalogueVars BY <1>1, <1>2, FilesFrame DEF catalogueVars
<1>3. CASE OneStep BY <1>1, <1>3, OneStepSteps, FilesFrame DEF mediaVars
<1>4. ASSUME NEW s \in Sessions, Publication(s) \/ Taxonomy(s) \/ Search(s)
      PROVE FilesInv'
  <2>1. UNCHANGED mediaVars /\ \A t \in Sessions : t # s => sess'[t] = sess[t]
    BY <1>1, <1>4, PublicationSteps, TaxonomySteps, SearchSteps DEF StepOf
  <2>2. sess[s].topic \notin {"media", "files"} /\ sess'[s].topic \notin {"media", "files"}
    BY <1>1, <1>4, PublicationSteps, TaxonomySteps, SearchSteps DEF StepOf
  <2>3. sess[s].op \notin Holding /\ sess'[s].op \notin Holding
    BY <1>1, <2>2 DEF MediaInv, RequestsInv, TopicOf, Holding
  <2> QED BY <1>1, <2>1, <2>3, FilesFrame DEF Holding, mediaVars
<1>5. ASSUME NEW s \in Sessions, Rollback(s) PROVE FilesInv'
  <2>1. sess[s].op \notin {"upload", "cleanup"} BY <1>5 DEF Rollback
  <2> QED
    BY <1>1, <1>5, <2>1, Rollbacks, FilesFrame DEF Free, mediaVars, RequestsInv, Holding
<1> QED BY <1>1, <1>2, <1>3, <1>4, <1>5, FilesMedia, NextSplits

\* The table of images and the media store agree through failed commits, refusals of the
\* store and crashes (database.py:50-82, admin/router.py:331-389), for any images and
\* requests: what they disagree in, the older route's files and the leaked ones, is named.
THEOREM ImagesKeepTheirFiles == CatalogueSpec => []FilesFollowImages
<1>1. FilesInv => FilesFollowImages BY DEF FilesInv, FilesFollowImages
<1> QED BY <1>1, FilesInit, FilesNext, PTL DEF CatalogueSpec

-------------------------------------------------------------------------------
(* The primary image *)

\* One image is primary and ids are not shared.
OneIsPrimary ==
    /\ \A i, j \in images : i.id = j.id => i = j
    /\ images # {} => \E i \in images : i.primary /\ \A j \in images : j.primary => j = i

\* While no two requests for the images overlap, each has locked or replaced the rows
\* that are still the table: an upload of a primary demotes all there are, a removal of
\* the primary names another that is there.
PrimaryInv ==
    /\ MediaInv
    /\ "media" \notin raced =>
         /\ OneIsPrimary
         /\ \A s \in Sessions :
              /\ sess[s].op = "upload" =>
                   /\ sess[s].read = images /\ sess[s].id \notin Ids
                   /\ IF sess[s].primary THEN sess[s].rows = Ids
                                         ELSE images # {} /\ sess[s].rows = {}
              /\ sess[s].op = "reorder" => sess[s].rows = Ids /\ sess[s].primary \in Ids
              /\ sess[s].op = "remove" =>
                   \E i \in images : sess[s].id = i.id /\ sess[s].promoted \in Replacements(i)

LEMMA PrimaryInit == CatalogueInit => PrimaryInv
<1> SUFFICES ASSUME CatalogueInit PROVE PrimaryInv OBVIOUS
<1>1. MediaInv BY MediaInit
<1>2. \A s \in Sessions : sess[s].op = "none" BY DEF CatalogueInit, Free
<1>3. images \in {{}} \cup {{[id |-> i, primary |-> TRUE]} : i \in Images} BY DEF CatalogueInit
<1>4. OneIsPrimary
  <2>1. CASE images = {} BY <2>1 DEF OneIsPrimary
  <2>2. CASE images # {}
    <3>1. PICK i \in Images : images = {[id |-> i, primary |-> TRUE]} BY <1>3, <2>2
    <3> QED BY <3>1 DEF OneIsPrimary
  <2> QED BY <2>1, <2>2
<1> QED BY <1>1, <1>2, <1>4 DEF PrimaryInv

LEMMA PrimaryFrame ==
  ASSUME PrimaryInv, MediaInv', images' = images, raced \subseteq raced',
         \A s \in Sessions : sess'[s] = sess[s] \/ sess'[s].topic # "media"
  PROVE  PrimaryInv'
<1>1. Ids' = Ids BY DEF Ids
<1>2. \A i : Replacements(i)' = Replacements(i) BY DEF Replacements
<1>3. \A s \in Sessions : sess'[s].op \in {"upload", "reorder", "remove"} => sess'[s] = sess[s]
  BY DEF MediaInv, RequestsInv, TopicOf
<1>4. OneIsPrimary => OneIsPrimary' BY DEF OneIsPrimary
<1> QED BY <1>1, <1>2, <1>3, <1>4 DEF PrimaryInv

\* While nothing has raced, the others are about other topics.
LEMMA MediaAlone ==
  ASSUME MediaInv, MediaInv', NEW s \in Sessions, Media(s), "media" \notin raced',
         sess[s].topic = "media" \/ sess'[s].topic = "media",
         NEW t \in Sessions, t # s
  PROVE  sess'[t].op \notin {"upload", "reorder", "remove"}
<1>1. StepOf(s, {"media", "files", "none"}) BY MediaSteps DEF MediaInv
<1>2. sess'[t] = sess[t] BY <1>1 DEF StepOf
<1>3. sess[t].topic # "media"
  BY <1>1, <1>2 DEF StepOf, MediaInv, RequestsInv, Topics
<1> QED BY <1>2, <1>3 DEF MediaInv, RequestsInv, TopicOf

\* The requests for the images, one by one.
LEMMA PrimaryMedia ==
  ASSUME PrimaryInv, MediaInv', NEW s \in Sessions, Media(s)
  PROVE  PrimaryInv'
<1>1. MediaInv BY DEF PrimaryInv
<1>2. StepOf(s, {"media", "files", "none"}) BY <1>1, MediaSteps DEF MediaInv
<1>3. \A t \in Sessions : t # s => sess'[t] = sess[t] BY <1>2 DEF StepOf
<1>4. raced \subseteq raced' BY <1>2 DEF StepOf
<1>5. DOMAIN sess = Sessions BY <1>1 DEF MediaInv, RequestsInv
<1>6. images' = images => /\ Ids' = Ids /\ (OneIsPrimary => OneIsPrimary')
                          /\ \A i : Replacements(i)' = Replacements(i)
  BY DEF Ids, OneIsPrimary, Replacements
<1>7. ASSUME sess[s].topic = "media" \/ sess'[s].topic = "media", "media" \notin raced'
      PROVE  \A t \in Sessions : t # s => sess'[t].op \notin {"upload", "reorder", "remove"}
  BY <1>1, <1>7, MediaAlone
<1>8. ASSUME sess[s].topic = "media", sess'[s].op \notin {"upload", "reorder", "remove"},
             "media" \notin raced' => OneIsPrimary'
      PROVE  PrimaryInv'
  BY <1>7, <1>8 DEF PrimaryInv
<1>9. sess[s].op \in {"upload", "reorder", "remove"} => sess[s].topic = "media"
  BY <1>1 DEF MediaInv, RequestsInv, TopicOf
<1> USE DEF Free, Begin, Commit
<1>10. ASSUME NEW id \in Images, NEW primary \in BOOLEAN, NEW older,
              BeginUpload(s, id, primary, older)
       PROVE PrimaryInv'
  <2>1. id \notin Ids BY <1>10 DEF BeginUpload, Stored
  <2>2. /\ sess'[s].op = "upload" /\ sess'[s].topic = "media" /\ sess'[s].read = images
        /\ sess'[s].id = id
    BY <1>5, <1>10 DEF BeginUpload
  <2>3. IF sess'[s].primary THEN sess'[s].rows = Ids ELSE images # {} /\ sess'[s].rows = {}
    BY <1>5, <1>10 DEF BeginUpload, Ids
  <2>4. images' = images BY <1>10 DEF BeginUpload
  <2> QED BY <1>4, <1>6, <1>7, <2>1, <2>2, <2>3, <2>4 DEF PrimaryInv
<1>11. CASE add_media(s)
  <2>1. sess[s].op = "upload" /\ sess'[s].op = "none" BY <1>5, <1>11 DEF add_media
  <2> DEFINE r == sess[s]
             new == [id |-> r.id, primary |-> r.primary]
  <2>2. images' = {Demoted(i, r) : i \in images} \cup {new} BY <1>11 DEF add_media, Demoted
  <2>3. new.id = r.id /\ new.primary = r.primary OBVIOUS
  <2>4. ASSUME "media" \notin raced' PROVE OneIsPrimary'
    <3>1. /\ OneIsPrimary /\ r.read = images /\ r.id \notin Ids
          /\ IF r.primary THEN r.rows = Ids ELSE images # {} /\ r.rows = {}
      BY <1>4, <2>1, <2>4 DEF PrimaryInv
    <3>2. ASSUME NEW i \in images PROVE Demoted(i, r).id = i.id /\ i.id # r.id
      BY <1>1, <3>1 DEF Demoted, MediaInv, Ids
    <3>3. ASSUME NEW i \in images PROVE Demoted(i, r).primary => i.primary /\ ~r.primary
      <4>1. i.id \in Ids BY DEF Ids
      <4>2. Demoted(i, r).primary =
              (i.primary /\ i.id \notin r.rows /\ ~(r.older /\ r.primary /\ r.read # {}))
        BY <1>1 DEF Demoted, MediaInv
      <4> QED BY <3>1, <4>1, <4>2
    <3>4. ASSUME NEW i \in images, i.primary, ~r.primary PROVE Demoted(i, r).primary
      BY <1>1, <3>1, <3>4 DEF Demoted, MediaInv
    <3>5. ASSUME NEW i \in images', NEW j \in images', i.id = j.id PROVE i = j
      <4> HIDE DEF new, r
      <4>1. CASE i = new /\ j = new BY <4>1
      <4>2. CASE i # new /\ j # new
        <5>1. PICK x \in images : i = Demoted(x, r) BY <2>2, <4>2
        <5>2. PICK y \in images : j = Demoted(y, r) BY <2>2, <4>2
        <5>3. x = y BY <3>1, <3>2, <3>5, <5>1, <5>2 DEF OneIsPrimary
        <5> QED BY <5>1, <5>2, <5>3
      <4>3. CASE i = new /\ j # new BY <2>2, <2>3, <3>2, <3>5, <4>3
      <4>4. CASE i # new /\ j = new BY <2>2, <2>3, <3>2, <3>5, <4>4
      <4> QED BY <4>1, <4>2, <4>3, <4>4
    <3>6. \E i \in images' : i.primary /\ \A j \in images' : j.primary => j = i
      <4> HIDE DEF new, r
      <4>1. CASE r.primary BY <2>2, <2>3, <3>3, <4>1
      <4>2. CASE ~r.primary
        <5>1. PICK i \in images : i.primary /\ \A j \in images : j.primary => j = i
          BY <3>1, <4>2 DEF OneIsPrimary
        <5> QED BY <2>2, <2>3, <3>3, <3>4, <4>2, <5>1
      <4> QED BY <4>1, <4>2
    <3> QED BY <3>5, <3>6 DEF OneIsPrimary
  <2> QED BY <1>8, <1>9, <2>1, <2>4
<1>12. ASSUME NEW i, FailUpload(s, i) PROVE PrimaryInv'
  BY <1>1, <1>3, <1>4, <1>5, <1>12, PrimaryFrame DEF FailUpload
<1>13. ASSUME NEW i, BeginReorder(s, i) PROVE PrimaryInv'
  <2>1. /\ sess'[s].op = "reorder" /\ sess'[s].topic = "media" /\ sess'[s].rows = Ids
        /\ sess'[s].primary \in Ids /\ images' = images
    BY <1>5, <1>13 DEF BeginReorder, mediaVars
  <2> QED BY <1>4, <1>6, <1>7, <2>1 DEF PrimaryInv
<1>14. CASE reorder_media(s)
  <2>1. sess[s].op = "reorder" /\ sess'[s].op = "none" BY <1>5, <1>14 DEF reorder_media
  <2>2. images' = {Placed(i, sess[s]) : i \in images} BY <1>14 DEF reorder_media, Placed
  <2>3. ASSUME "media" \notin raced' PROVE OneIsPrimary'
    <3>1. OneIsPrimary /\ sess[s].rows = Ids /\ sess[s].primary \in Ids
      BY <1>4, <2>1, <2>3 DEF PrimaryInv
    <3>2. ASSUME NEW i \in images PROVE /\ Placed(i, sess[s]).id = i.id
                                        /\ Placed(i, sess[s]).primary <=> i.id = sess[s].primary
      BY <1>1, <3>1 DEF Placed, MediaInv, Ids
    <3>3. PICK i \in images : i.id = sess[s].primary BY <3>1 DEF Ids
    <3> QED BY <2>2, <3>1, <3>2, <3>3 DEF OneIsPrimary
  <2> QED BY <1>8, <1>9, <2>1, <2>3
<1>15. ASSUME NEW i, NEW p, NEW older, BeginRemove(s, i, p, older) PROVE PrimaryInv'
  <2>1. /\ sess'[s].op = "remove" /\ sess'[s].topic = "media" /\ sess'[s].id = i.id
        /\ sess'[s].promoted = p /\ images' = images /\ i \in images /\ p \in Replacements(i)
    BY <1>5, <1>15 DEF BeginRemove
  <2> QED BY <1>4, <1>6, <1>7, <2>1 DEF PrimaryInv
<1>16. CASE delete_media(s)
  <2>1. sess[s].op = "remove" /\ sess'[s].op \notin {"upload", "reorder", "remove"}
    BY <1>5, <1>16 DEF delete_media
  <2>2. images' = {Kept(i, sess[s]) : i \in {j \in images : j.id # sess[s].id}}
    BY <1>16 DEF delete_media, Kept
  <2>3. ASSUME "media" \notin raced' PROVE OneIsPrimary'
    <3>1. OneIsPrimary BY <1>4, <2>1, <2>3 DEF PrimaryInv
    <3>2. PICK g \in images : sess[s].id = g.id /\ sess[s].promoted \in Replacements(g)
      BY <1>4, <2>1, <2>3 DEF PrimaryInv
    <3>3. \A i \in images : i.id # sess[s].id <=> i # g BY <3>1, <3>2 DEF OneIsPrimary
    <3>4. images' = {Kept(i, sess[s]) : i \in images \ {g}}
      <4>1. {j \in images : j.id # sess[s].id} = images \ {g} BY <3>3
      <4> QED BY <2>2, <4>1
    <3>5. ASSUME NEW i \in images
          PROVE  /\ Kept(i, sess[s]).id = i.id
                 /\ Kept(i, sess[s]).primary <=> i.primary \/ i.id \in sess[s].promoted
      BY <1>1 DEF Kept, MediaInv
    <3>6. CASE images = {g} BY <3>4, <3>6 DEF OneIsPrimary
    <3>7. CASE images # {g} /\ g.primary
      <4>1. PICK k \in images \ {g} : sess[s].promoted = {k.id} BY <3>2, <3>7 DEF Replacements
      <4>2. \A i \in images : i.primary => i = g BY <3>1, <3>7 DEF OneIsPrimary
      <4> QED BY <3>1, <3>4, <3>5, <4>1, <4>2 DEF OneIsPrimary
    <3>8. CASE ~g.primary
      <4>1. sess[s].promoted = {} BY <3>2, <3>8 DEF Replacements
      <4> QED BY <3>1, <3>4, <3>5, <3>8, <4>1 DEF OneIsPrimary
    <3> QED BY <3>6, <3>7, <3>8
  <2> QED BY <1>8, <1>9, <2>1, <2>3
<1>17. ASSUME NEW r, _cleanup_catalog_media(s, r) PROVE PrimaryInv'
  BY <1>1, <1>3, <1>4, <1>5, <1>17, PrimaryFrame DEF _cleanup_catalog_media
<1>18. CASE Crash(s) BY <1>1, <1>3, <1>4, <1>5, <1>18, PrimaryFrame DEF Crash
<1> QED BY <1>10, <1>11, <1>12, <1>13, <1>14, <1>15, <1>16, <1>17, <1>18 DEF Media

LEMMA PrimaryNext == PrimaryInv /\ [CatalogueNext]_catalogueVars => PrimaryInv'
<1> SUFFICES ASSUME PrimaryInv, [CatalogueNext]_catalogueVars PROVE PrimaryInv' OBVIOUS
<1>1. MediaInv /\ MediaInv' /\ RequestsInv BY MediaNext DEF PrimaryInv, MediaInv
<1>2. CASE UNCHANGED catalogueVars BY <1>1, <1>2, PrimaryFrame DEF catalogueVars
<1>3. CASE OneStep BY <1>1, <1>3, OneStepSteps, PrimaryFrame DEF mediaVars
<1>4. ASSUME NEW s \in Sessions, Publication(s) \/ Taxonomy(s) \/ Search(s)
      PROVE PrimaryInv'
  BY <1>1, <1>4, PublicationSteps, TaxonomySteps, SearchSteps, PrimaryFrame
     DEF StepOf, mediaVars
<1>5. ASSUME NEW s \in Sessions, Rollback(s) PROVE PrimaryInv'
  BY <1>1, <1>5, Rollbacks, PrimaryFrame DEF Free, mediaVars, RequestsInv
<1> QED BY <1>1, <1>2, <1>3, <1>4, <1>5, PrimaryMedia, NextSplits

\* A product with images has exactly one primary image through uploads, reorders and
\* removals by both generations of routes (catalog_service.py:443, :477, :531), for any
\* number of images, unless two of them overlapped.
THEOREM OneImageIsPrimary == CatalogueSpec => []OnePrimaryImage
<1>1. PrimaryInv => OnePrimaryImage
  <2> SUFFICES ASSUME PrimaryInv, images # {}, "media" \notin raced
               PROVE Cardinality({i \in images : i.primary}) = 1
    BY DEF OnePrimaryImage
  <2>1. PICK i \in images : i.primary /\ \A j \in images : j.primary => j = i
    BY DEF PrimaryInv, OneIsPrimary
  <2>2. {j \in images : j.primary} = {i} BY <2>1
  <2> QED BY <2>2, FS_Singleton
<1> QED BY <1>1, PrimaryInit, PrimaryNext, PTL DEF CatalogueSpec
-------------------------------------------------------------------------------
(* Steps of a table that only grows *)

\* f takes B through N steps of the table G.
Iterates(f, N, B, G) == /\ f = [n \in 0..N |-> f[n]]
                        /\ \A n \in 0..N : f[n] = IF n = 0 THEN B ELSE G[f[n - 1]]

\* Every number of steps can be taken: the least that could not has one before it.
LEMMA IterationExists ==
  ASSUME NEW N \in Nat, NEW B, NEW G
  PROVE  \E f : Iterates(f, N, B, G)
<1> USE DEF Iterates
<1> DEFINE Is(f, m) == Iterates(f, m, B, G)
           D == {m \in Nat : ~ \E f : Is(f, m)}
<1> SUFFICES ASSUME D # {} PROVE FALSE OBVIOUS
<1>1. PICK m \in D : \A k \in D : m <= k
  <2>1. D \subseteq Nat OBVIOUS
  <2> HIDE DEF D
  <2> QED BY <2>1, LeastNatural
<1>2. CASE m = 0
  <2>1. Is([n \in 0..0 |-> B], 0) OBVIOUS
  <2> HIDE DEF Is
  <2> QED BY <1>1, <1>2, <2>1
<1>3. CASE m # 0
  <2>1. m - 1 \in Nat /\ m - 1 \notin D
    <3>1. m \in Nat BY <1>1
    <3>2. m - 1 \in Nat /\ ~(m <= m - 1) BY <3>1, <1>3
    <3> HIDE DEF D
    <3> QED BY <3>2, <1>1
  <2>2. PICK f : Is(f, m - 1)
    <3> HIDE DEF Is
    <3> QED BY <2>1
  <2> DEFINE g == [n \in 0..m |-> IF n < m THEN f[n] ELSE G[f[m - 1]]]
  <2>3. ASSUME NEW n \in 0..m PROVE g[n] = IF n = 0 THEN B ELSE G[g[n - 1]]
    <3>1. n \in Nat /\ m \in Nat BY <2>3, <1>1
    <3>2. CASE n = 0
      <4>1. f[0] = B BY <2>1, <2>2
      <4> QED BY <3>2, <4>1, <1>3, <1>1
    <3>3. CASE n # 0 /\ n < m
      <4>1. n \in 0..(m - 1) /\ n - 1 \in 0..m /\ n - 1 < m BY <3>1, <3>3, <1>1
      <4>2. f[n] = G[f[n - 1]] BY <4>1, <2>2, <3>3
      <4>3. g[n] = f[n] /\ g[n - 1] = f[n - 1] BY <4>1, <3>3
      <4> QED BY <4>2, <4>3, <3>3
    <3>4. CASE n = m
      <4>1. m - 1 \in 0..m /\ m - 1 < m BY <2>1, <1>1, <1>3
      <4>2. g[m - 1] = f[m - 1] BY <4>1
      <4>3. g[m] = G[f[m - 1]] BY <3>1
      <4> QED BY <4>2, <4>3, <3>4, <1>3
    <3> QED BY <3>1, <3>2, <3>3, <3>4
  <2>4. Is(g, m)
    <3> HIDE DEF g
    <3>1. g = [n \in 0..m |-> g[n]] BY DEF g
    <3> QED BY <3>1, <2>3
  <2> HIDE DEF Is, g
  <2> QED BY <1>1, <2>4
<1> QED BY <1>2, <1>3

\* A growing chain of subsets of a finite set that stays where it first stops has
\* stopped, or fills the set, after as many steps as the set has room for.
LEMMA ChainStops ==
  ASSUME NEW T, IsFiniteSet(T), NEW N \in Nat, NEW L,
         \A n \in 0..N : L[n] \subseteq T,
         \A n \in 0..N : n < N => L[n] \subseteq L[n + 1],
         \A n \in 0..N : n + 1 < N /\ L[n] = L[n + 1] => L[n + 1] = L[n + 2],
         Cardinality(T) <= Cardinality(L[0]) + N
  PROVE  L[N] = T \/ (N > 0 /\ L[N - 1] = L[N])
<1>1. \A n \in 0..N : IsFiniteSet(L[n]) /\ Cardinality(L[n]) \in Nat
  <2>1. ASSUME NEW n \in 0..N PROVE IsFiniteSet(L[n]) BY <2>1, FS_Subset
  <2> QED BY <2>1, FS_CardinalityType
<1>2. Cardinality(T) \in Nat BY FS_CardinalityType
<1> SUFFICES ASSUME N > 0 => L[N - 1] # L[N] PROVE L[N] = T OBVIOUS
<1>3. ASSUME NEW n \in 0..N, n < N PROVE L[n] # L[n + 1]
  <2> DEFINE D == {k \in Nat : k < N /\ L[N - 1 - k] = L[N - k]}
  <2> SUFFICES ASSUME L[n] = L[n + 1] PROVE FALSE OBVIOUS
  <2>1. N - 1 - n \in D
    <3>1. N - 1 - n \in Nat /\ N - 1 - n < N /\ N - 1 - (N - 1 - n) = n /\ N - (N - 1 - n) = n + 1
      BY <1>3
    <3> QED BY <3>1
  <2>2. PICK k \in D : \A j \in D : k <= j
    <3>1. D \subseteq Nat OBVIOUS
    <3> HIDE DEF D
    <3> QED BY <2>1, <3>1, LeastNatural
  <2>3. k # 0
    <3> SUFFICES ASSUME k = 0 PROVE FALSE OBVIOUS
    <3>1. N - 1 - k = N - 1 /\ N - k = N /\ N > 0 BY <1>3
    <3> QED BY <2>2, <3>1
  <2>4. L[N - 1 - k] = L[N - k] /\ k \in Nat /\ k < N BY <2>2
  <2>5. N - 1 - k \in 0..N /\ N - 1 - k + 1 = N - k /\ N - 1 - k + 2 = N - (k - 1) /\ N - k < N
    BY <2>3, <2>4
  <2>6. L[N - k] = L[N - (k - 1)]
    <3> DEFINE i == N - 1 - k
    <3>1. i \in 0..N /\ i + 1 = N - k /\ i + 2 = N - (k - 1) /\ i + 1 < N BY <2>5
    <3>2. L[i] = L[i + 1] BY <2>4, <3>1
    <3> HIDE DEF i
    <3>3. L[i + 1] = L[i + 2] BY <3>1, <3>2
    <3> QED BY <3>1, <3>3
  <2>7. k - 1 \in D
    <3>1. k - 1 \in Nat /\ k - 1 < N /\ N - 1 - (k - 1) = N - k BY <2>3, <2>4
    <3> QED BY <3>1, <2>6
  <2>8. k <= k - 1
    <3> HIDE DEF D
    <3> QED BY <2>2, <2>7
  <2> QED BY <2>4, <2>8
<1>4. \A n \in 0..N : Cardinality(L[n]) >= Cardinality(L[0]) + n
  <2> DEFINE D == {n \in 0..N : ~(Cardinality(L[n]) >= Cardinality(L[0]) + n)}
  <2> SUFFICES ASSUME D # {} PROVE FALSE OBVIOUS
  <2>1. PICK n \in D : \A k \in D : n <= k
    <3>1. D \subseteq Nat OBVIOUS
    <3> HIDE DEF D
    <3> QED BY <3>1, LeastNatural
  <2>2. n # 0 BY <1>1, <2>1
  <2>3. n - 1 \in 0..N /\ n - 1 \notin D /\ n - 1 < N /\ n - 1 + 1 = n /\ n \in 0..N BY <2>1, <2>2
  <2>4. Cardinality(L[n - 1]) >= Cardinality(L[0]) + (n - 1) BY <2>3
  <2>5. L[n - 1] \subseteq L[n] /\ L[n - 1] # L[n]
    <3> DEFINE i == n - 1
    <3>1. i \in 0..N /\ i < N /\ i + 1 = n BY <2>3
    <3> HIDE DEF i
    <3>2. L[i] \subseteq L[i + 1] /\ L[i] # L[i + 1] BY <3>1, <1>3
    <3>3. i = n - 1 BY DEF i
    <3> QED BY <3>1, <3>2, <3>3
  <2>6. IsFiniteSet(L[n]) BY <1>1, <2>3
  <2>7. Cardinality(L[n - 1]) <= Cardinality(L[n]) /\ Cardinality(L[n]) # Cardinality(L[n - 1])
    BY <2>5, <2>6, FS_Subset
  <2>8. 0 \in 0..N OBVIOUS
  <2>9. Cardinality(L[n]) \in Nat /\ Cardinality(L[n - 1]) \in Nat /\ Cardinality(L[0]) \in Nat
    BY <1>1, <2>3, <2>8
  <2>10. Cardinality(L[n]) >= Cardinality(L[0]) + n BY <2>3, <2>4, <2>7, <2>9
  <2> QED BY <2>1, <2>10
<1>5. Cardinality(L[N]) >= Cardinality(L[0]) + N BY <1>4
<1>6. L[N] \subseteq T OBVIOUS
<1>7. Cardinality(L[N]) <= Cardinality(T) BY <1>6, FS_Subset
<1>8. 0 \in 0..N /\ N \in 0..N OBVIOUS
<1>9. Cardinality(L[N]) = Cardinality(T) BY <1>1, <1>2, <1>5, <1>7, <1>8
<1> QED BY <1>6, <1>9, FS_Subset


\* G adds to a subset of T elements of T.
Extends(G, T) == G \in [SUBSET T -> SUBSET T] /\ \A S \in SUBSET T : S \subseteq G[S]

\* L starts with B and takes N steps, by G as long as it stays among the subsets of T.
StepsBy(L, N, B, T, G) ==
  L[0] = B /\ \A n \in 0..N : n < N /\ L[n] \in SUBSET T => L[n + 1] = G[L[n]]

\* What the steps of a growing table over the subsets of T end in.
LEMMA IterationStops ==
  ASSUME NEW T, IsFiniteSet(T), NEW N \in Nat, NEW B \in SUBSET T,
         NEW G, Extends(G, T), Cardinality(T) <= Cardinality(B) + N,
         NEW L, StepsBy(L, N, B, T, G)
  PROVE  /\ \A n \in 0..N : L[n] \in SUBSET T /\ B \subseteq L[n]
         /\ G[L[N]] = L[N]
<1> USE DEF Extends, StepsBy
<1>1. \A n \in 0..N : L[n] \in SUBSET T /\ B \subseteq L[n]
  <2> DEFINE D == {n \in 0..N : ~(L[n] \in SUBSET T /\ B \subseteq L[n])}
  <2> SUFFICES ASSUME D # {} PROVE FALSE OBVIOUS
  <2>1. PICK n \in D : \A k \in D : n <= k
    <3>1. D \subseteq Nat OBVIOUS
    <3> HIDE DEF D
    <3> QED BY <3>1, LeastNatural
  <2>2. n \in 0..N /\ n # 0 /\ ~(L[n] \in SUBSET T /\ B \subseteq L[n]) BY <2>1
  <2> DEFINE k == n - 1
  <2>3. k \in 0..N /\ k < N /\ ~(n <= k) /\ n = k + 1 BY <2>2
  <2>4. k \notin D
    <3> HIDE DEF D, k
    <3> QED BY <2>1, <2>3
  <2> HIDE DEF k
  <2>5. L[k] \in SUBSET T /\ B \subseteq L[k] BY <2>3, <2>4
  <2>6. L[k + 1] = G[L[k]] BY <2>3, <2>5
  <2> QED BY <2>2, <2>3, <2>5, <2>6
<1>2. \A n \in 0..N : n < N => L[n] \subseteq L[n + 1] BY <1>1
<1>3. ASSUME NEW n \in 0..N, n + 1 < N, L[n] = L[n + 1] PROVE L[n + 1] = L[n + 2]
  <2> DEFINE m == n + 1
  <2>1. m \in 0..N /\ n < N /\ m < N /\ m + 1 = n + 2 BY <1>3
  <2>2. L[m] = G[L[n]] /\ L[n] = L[m] BY <1>1, <1>3, <2>1
  <2> HIDE DEF m
  <2>3. L[m + 1] = G[L[m]] BY <1>1, <2>1
  <2> QED BY <2>1, <2>2, <2>3 DEF m
<1>4. L[N] = T \/ (N > 0 /\ L[N - 1] = L[N])
  <2>1. \A n \in 0..N : n + 1 < N /\ L[n] = L[n + 1] => L[n + 1] = L[n + 2] BY <1>3
  <2> QED BY <1>1, <1>2, <2>1, ChainStops
<1>5. N \in 0..N OBVIOUS
<1>6. CASE L[N] = T
  <2>1. T \in SUBSET T OBVIOUS
  <2>2. G[T] \in SUBSET T /\ T \subseteq G[T] BY ONLY <2>1, Extends(G, T) DEF Extends
  <2>3. G[T] = T BY ONLY <2>2
  <2> QED BY <1>1, <1>6, <2>3
<1>7. CASE N > 0 /\ L[N - 1] = L[N]
  <2> DEFINE m == N - 1
  <2>1. m \in 0..N /\ m < N /\ m + 1 = N /\ L[m] = L[N] BY <1>7
  <2> HIDE DEF m
  <2>2. L[m + 1] = G[L[m]] BY <1>1, <2>1
  <2>3. L[m + 1] = L[N] /\ G[L[m]] = G[L[N]] BY ONLY <2>1
  <2> QED BY <1>1, <2>2, <2>3
<1> QED BY <1>1, <1>4, <1>6, <1>7

-------------------------------------------------------------------------------
(* The category tree *)

\* Every category but a root has a parent that exists.
Hung == \A c \in Existing : parent[c] \in Existing \cup {NoCategory}

\* No set of categories has all its parents in itself: there is no cycle.
Rooted == \A S \in SUBSET Existing : S # {} => \E c \in S : parent[c] \notin S

\* What the assumption on the constants says of the categories.
LEMMA CategoriesAssumed ==
  /\ IsFiniteSet(Categories) /\ Cardinality(Categories) \in Nat
  /\ NoCategory \notin Categories /\ Absent \notin Categories /\ NoCategory # Absent
<1>1. IsFiniteSet(Categories)
  BY CatalogueAssumption
<1>2. Cardinality(Categories) \in Nat BY <1>1, FS_CardinalityType
<1> QED BY <1>1, <1>2, CatalogueAssumption

\* get_category_tree reaches every category: N levels are enough for N categories, and
\* what they miss would have all its parents in itself.
LEMMA TreeShowsAll ==
  ASSUME Hung, Rooted
  PROVE  get_category_tree = Existing
<1> DEFINE N == Cardinality(Categories)
           T == Existing
           roots == {c \in Categories : parent[c] = NoCategory}
           below(S) == S \cup {c \in Categories : parent[c] \in S}
           Is(f) == f = [n \in 0..N |-> IF n = 0 THEN roots ELSE below(f[n - 1])]
           G == [S \in SUBSET T |-> below(S)]
           L == CHOOSE f : Is(f)
<1>1. /\ N \in Nat
      /\ NoCategory \notin Categories /\ Absent \notin Categories /\ NoCategory # Absent
      /\ IsFiniteSet(Categories)
  BY CategoriesAssumed
<1>2. get_category_tree = L[N] BY <1>1 DEF get_category_tree
<1>3. \A S \in SUBSET T : below(S) \in SUBSET T /\ S \subseteq below(S) BY <1>1 DEF Existing
<1>4. Extends(G, T) /\ \A S \in SUBSET T : G[S] = below(S)
  <2> HIDE DEF below, T
  <2> QED BY <1>3 DEF Extends
<1>5. IsFiniteSet(T) /\ Cardinality(T) <= Cardinality(roots) + N /\ roots \in SUBSET T
  <2>1. T \in SUBSET Categories /\ roots \in SUBSET Categories /\ roots \in SUBSET T
    BY <1>1 DEF Existing
  <2>2. /\ IsFiniteSet(T) /\ Cardinality(T) <= N
        /\ IsFiniteSet(roots)
    <3> HIDE DEF T, roots
    <3> QED BY <1>1, <2>1, FS_Subset
  <2>3. Cardinality(T) \in Nat /\ Cardinality(roots) \in Nat BY <2>2, FS_CardinalityType
  <2> QED BY <1>1, <2>1, <2>2, <2>3
<1>6. ASSUME NEW f, StepsBy(f, N, roots, T, G)
      PROVE  /\ \A n \in 0..N : f[n] \in SUBSET T /\ roots \subseteq f[n]
             /\ G[f[N]] = f[N]
  <2> HIDE DEF T, G, N, roots
  <2> QED BY <1>1, <1>4, <1>5, <1>6, IterationStops
<1>7. \E f : Is(f)
  <2>1. PICK f : Iterates(f, N, roots, G)
    <3> HIDE DEF G, N, roots
    <3> QED BY <1>1, IterationExists
  <2>2. f = [n \in 0..N |-> f[n]] /\ \A n \in 0..N : f[n] = IF n = 0 THEN roots ELSE G[f[n - 1]]
    BY <2>1 DEF Iterates
  <2>3. ASSUME NEW n \in 0..N, n < N PROVE f[n + 1] = G[f[n]]
    <3> DEFINE m == n + 1
    <3>1. m \in 0..N /\ m # 0 /\ m - 1 = n BY <1>1, <2>3
    <3> HIDE DEF m, G, roots
    <3>2. f[m] = G[f[m - 1]] BY <2>2, <3>1
    <3> QED BY <3>1, <3>2 DEF m
  <2>4. f[0] = roots
    <3> HIDE DEF G, roots, N
    <3> QED BY <1>1, <2>2
  <2>5. \A n \in 0..N : f[n] \in SUBSET T
    <3> HIDE DEF G, roots, N, T
    <3> QED BY <1>6, <2>3, <2>4 DEF StepsBy
  <2>6. ASSUME NEW n \in 0..N PROVE f[n] = IF n = 0 THEN roots ELSE below(f[n - 1])
    <3>1. n # 0 => n - 1 \in 0..N BY <1>1
    <3> HIDE DEF G, roots, N, T, below
    <3> QED BY <1>4, <2>2, <2>5, <3>1
  <2>7. Is(f)
    <3> HIDE DEF roots, below, N
    <3> QED BY <2>2, <2>6
  <2> HIDE DEF Is
  <2> QED BY <2>7
<1>8. Is(L)
  <2> HIDE DEF Is
  <2> QED BY <1>7
<1> HIDE DEF L
<1>9. ASSUME NEW n \in 0..N PROVE L[n] = IF n = 0 THEN roots ELSE below(L[n - 1])
  <2> HIDE DEF roots, below, N
  <2> QED BY <1>8
<1>10. L[N] \in SUBSET T /\ roots \subseteq L[N] /\ below(L[N]) = L[N]
  <2>1. ASSUME NEW n \in 0..N, n < N, L[n] \in SUBSET T PROVE L[n + 1] = G[L[n]]
    <3> DEFINE m == n + 1
    <3>1. m \in 0..N /\ m # 0 /\ m - 1 = n BY <1>1, <2>1
    <3> HIDE DEF m, G, roots, below, T
    <3>2. L[m] = below(L[m - 1]) BY <1>9, <3>1
    <3> QED BY <1>4, <2>1, <3>1, <3>2 DEF m
  <2>2. L[0] = roots
    <3> HIDE DEF roots, below, N
    <3> QED BY <1>1, <1>9
  <2>3. N \in 0..N BY <1>1
  <2> HIDE DEF G, roots, N, T, below
  <2>4. StepsBy(L, N, roots, T, G) BY <2>1, <2>2 DEF StepsBy
  <2>5. \A n \in 0..N : L[n] \in SUBSET T /\ roots \subseteq L[n] BY <1>6, <2>4
  <2>6. G[L[N]] = L[N] BY <1>6, <2>4
  <2> QED BY <1>4, <2>3, <2>5, <2>6
<1>11. T \ L[N] = {}
  <2> SUFFICES ASSUME T \ L[N] # {} PROVE FALSE OBVIOUS
  <2>1. PICK c \in T \ L[N] : parent[c] \notin T \ L[N] BY DEF Rooted
  <2>2. parent[c] \in T \cup {NoCategory} BY <2>1 DEF Hung
  <2>3. parent[c] # NoCategory BY <1>10, <2>1 DEF Existing
  <2>4. parent[c] \in L[N] BY <2>1, <2>2, <2>3
  <2> QED BY <1>10, <2>1, <2>4 DEF Existing
<1> HIDE DEF N, T, roots, below
<1> QED BY <1>2, <1>10, <1>11 DEF T

\* The walk of _is_descendant up from p ends with all the ancestors of p.
LEMMA AboveIsClosed ==
  ASSUME Hung, NEW p \in Existing
  PROVE  /\ p \in Above(p) /\ Above(p) \subseteq Existing
         /\ \A d \in Above(p) : parent[d] \in Above(p) \cup {NoCategory}
<1> DEFINE N == Cardinality(Categories)
           T == Existing \cup {NoCategory}
           up(S) == S \cup ({parent[d] : d \in S \ {NoCategory}})
           Is(f) == f = [n \in 0..N |-> IF n = 0 THEN {p} ELSE up(f[n - 1])]
           G == [S \in SUBSET T |-> up(S)]
           L == CHOOSE f : Is(f)
<1>1. /\ N \in Nat
      /\ NoCategory \notin Categories /\ Absent \notin Categories /\ NoCategory # Absent
      /\ IsFiniteSet(Categories)
  BY CategoriesAssumed
<1>2. Above(p) = L[N] \ {NoCategory} BY <1>1 DEF Above
<1>3. \A S \in SUBSET T : up(S) \in SUBSET T /\ S \subseteq up(S) BY DEF Hung
<1>4. Extends(G, T) /\ \A S \in SUBSET T : G[S] = up(S)
  <2> HIDE DEF up, T
  <2> QED BY <1>3 DEF Extends
<1>5. IsFiniteSet(T) /\ Cardinality(T) <= Cardinality({p}) + N /\ {p} \in SUBSET T
  <2>1. /\ IsFiniteSet(Categories \cup {NoCategory})
        /\ Cardinality(Categories \cup {NoCategory}) = N + 1
    BY <1>1, FS_AddElement
  <2>2. T \subseteq Categories \cup {NoCategory} BY DEF Existing
  <2>3. IsFiniteSet(T) /\ Cardinality(T) <= N + 1
    <3> HIDE DEF T
    <3> QED BY <2>1, <2>2, FS_Subset
  <2>4. Cardinality(T) \in Nat BY <2>3, FS_CardinalityType
  <2>5. Cardinality({p}) = 1 BY FS_Singleton
  <2> QED BY <1>1, <2>3, <2>4, <2>5
<1>6. ASSUME NEW f, StepsBy(f, N, {p}, T, G)
      PROVE  /\ \A n \in 0..N : f[n] \in SUBSET T /\ {p} \subseteq f[n]
             /\ G[f[N]] = f[N]
  <2> HIDE DEF T, G, N
  <2> QED BY <1>1, <1>4, <1>5, <1>6, IterationStops
<1>7. \E f : Is(f)
  <2>1. PICK f : Iterates(f, N, {p}, G)
    <3> HIDE DEF G, N
    <3> QED BY <1>1, IterationExists
  <2>2. f = [n \in 0..N |-> f[n]] /\ \A n \in 0..N : f[n] = IF n = 0 THEN {p} ELSE G[f[n - 1]]
    BY <2>1 DEF Iterates
  <2>3. ASSUME NEW n \in 0..N, n < N PROVE f[n + 1] = G[f[n]]
    <3> DEFINE m == n + 1
    <3>1. m \in 0..N /\ m # 0 /\ m - 1 = n BY <1>1, <2>3
    <3> HIDE DEF m, G
    <3>2. f[m] = G[f[m - 1]] BY <2>2, <3>1
    <3> QED BY <3>1, <3>2 DEF m
  <2>4. f[0] = {p}
    <3> HIDE DEF G, N, T, up
    <3>1. 0 \in 0..N BY <1>1
    <3> QED BY ONLY <2>2, <3>1
  <2>5. \A n \in 0..N : f[n] \in SUBSET T
    <3> HIDE DEF G, N, T
    <3> QED BY <1>6, <2>3, <2>4 DEF StepsBy
  <2>6. ASSUME NEW n \in 0..N PROVE f[n] = IF n = 0 THEN {p} ELSE up(f[n - 1])
    <3>1. n # 0 => n - 1 \in 0..N BY <1>1
    <3> HIDE DEF G, N, T, up
    <3> QED BY <1>4, <2>2, <2>5, <3>1
  <2>7. Is(f)
    <3> HIDE DEF up, N
    <3> QED BY <2>2, <2>6
  <2> HIDE DEF Is
  <2> QED BY <2>7
<1>8. Is(L)
  <2> HIDE DEF Is
  <2> QED BY <1>7
<1> HIDE DEF L
<1>9. ASSUME NEW n \in 0..N PROVE L[n] = IF n = 0 THEN {p} ELSE up(L[n - 1])
  <2> HIDE DEF up, N
  <2> QED BY <1>8
<1>10. L[N] \in SUBSET T /\ p \in L[N] /\ up(L[N]) = L[N]
  <2>1. ASSUME NEW n \in 0..N, n < N, L[n] \in SUBSET T PROVE L[n + 1] = G[L[n]]
    <3> DEFINE m == n + 1
    <3>1. m \in 0..N /\ m # 0 /\ m - 1 = n BY <1>1, <2>1
    <3> HIDE DEF m, G, up, T
    <3>2. L[m] = up(L[m - 1]) BY <1>9, <3>1
    <3> QED BY <1>4, <2>1, <3>1, <3>2 DEF m
  <2>2. L[0] = {p}
    <3> HIDE DEF up, N
    <3> QED BY <1>1, <1>9
  <2>3. N \in 0..N BY <1>1
  <2> HIDE DEF G, N, T, up
  <2>4. StepsBy(L, N, {p}, T, G) BY <2>1, <2>2 DEF StepsBy
  <2>5. \A n \in 0..N : L[n] \in SUBSET T /\ {p} \subseteq L[n] BY <1>6, <2>4
  <2>6. G[L[N]] = L[N] BY <1>6, <2>4
  <2> QED BY <1>4, <2>3, <2>5, <2>6
<1>11. p # NoCategory BY <1>1 DEF Existing
<1>12. ASSUME NEW d \in L[N], d # NoCategory PROVE parent[d] \in L[N] BY <1>10, <1>12
<1> QED BY <1>2, <1>10, <1>11, <1>12

\* p has ancestors of its own: a set of categories has p, not c, and all its parents.
Apart(c, p) == \E U \in SUBSET Existing :
                  p \in U /\ c \notin U /\ \A d \in U : parent[d] \in U \cup {NoCategory}

\* While no two moves have overlapped, the categories have no cycle and the parent
\* that a move has checked is still not below the category it moves.
TreeInv ==
    /\ RequestsInv
    /\ Hung
    /\ \A s \in Sessions : sess[s].op = "move" =>
         /\ sess[s].category \in Existing /\ sess[s].to \in Existing \cup {NoCategory}
         /\ "categories" \notin raced /\ sess[s].to # NoCategory =>
              Apart(sess[s].category, sess[s].to)
    /\ "categories" \notin raced => Rooted
    /\ DOMAIN parent = Categories

LEMMA TreeInit == CatalogueInit => TreeInv
  BY DEF CatalogueInit, TreeInv, Apart, Free, RequestsInv, TopicOf, Topics, Hung, Rooted,
     Existing

LEMMA TreeFrame ==
  ASSUME TreeInv, RequestsInv', parent' = parent, raced \subseteq raced',
         \A s \in Sessions : sess'[s] = sess[s] \/ sess'[s].op # "move"
  PROVE  TreeInv'
<1>1. Existing' = Existing BY DEF Existing
<1>2. Hung' /\ (Rooted => Rooted') BY <1>1 DEF TreeInv, Apart, Hung, Rooted
<1> QED BY <1>1, <1>2 DEF TreeInv, Apart

LEMMA TreeCreate ==
  ASSUME TreeInv, RequestsInv', raced \subseteq raced',
         NEW c \in Categories, NEW p \in Categories \cup {NoCategory}, create_category(c, p)
  PROVE  TreeInv'
<1>1. /\ parent[c] = Absent /\ p \in Existing \cup {NoCategory} /\ sess' = sess
      /\ parent' = [parent EXCEPT ![c] = p]
  BY DEF create_category
<1>2. NoCategory \notin Categories /\ Absent \notin Categories /\ NoCategory # Absent
  BY CategoriesAssumed
<1>3. DOMAIN parent = Categories /\ Hung BY DEF TreeInv, Apart
<1>4. c \notin Existing /\ p # Absent /\ p # c /\ Existing \subseteq Categories
  BY <1>1, <1>2 DEF Existing
<1>5. Existing' = Existing \cup {c} BY <1>1, <1>3, <1>4 DEF Existing
<1>6. parent'[c] = p /\ \A d \in Existing : parent'[d] = parent[d] BY <1>1, <1>3, <1>4
<1>7. Hung' BY <1>1, <1>3, <1>5, <1>6 DEF Hung
<1>8. ASSUME Rooted PROVE Rooted'
  <2> SUFFICES ASSUME NEW S \in SUBSET (Existing \cup {c}), S # {},
                      \A d \in S : parent'[d] \in S
               PROVE  FALSE
    BY <1>5 DEF Rooted
  <2> DEFINE R == S \ {c}
  <2>1. R \subseteq Existing OBVIOUS
  <2>2. R # {}
    <3>1. CASE c \in S
      <4>1. p \in S BY <1>6, <3>1
      <4> QED BY <1>4, <4>1
    <3>2. CASE c \notin S BY <3>2
    <3> QED BY <3>1, <3>2
  <2>3. ASSUME NEW d \in R PROVE parent[d] \in R
    <3>1. parent[d] \in S /\ parent[d] \in Existing \cup {NoCategory}
      BY <1>3, <1>6, <2>1 DEF Hung
    <3>2. parent[d] # c BY <1>2, <1>4, <3>1
    <3> QED BY <3>1, <3>2
  <2> QED BY <1>8, <2>1, <2>2, <2>3 DEF Rooted
<1>9. DOMAIN parent' = Categories BY <1>1, <1>3
<1>10. ASSUME NEW s \in Sessions, sess'[s].op = "move"
       PROVE  /\ sess'[s].category \in Existing'
              /\ sess'[s].to \in Existing' \cup {NoCategory}
              /\ "categories" \notin raced' /\ sess'[s].to # NoCategory =>
                   \E U \in SUBSET Existing' :
                      /\ sess'[s].to \in U /\ sess'[s].category \notin U
                      /\ \A d \in U : parent'[d] \in U \cup {NoCategory}
  <2>1. sess[s].category \in Existing /\ sess[s].to \in Existing \cup {NoCategory}
    BY <1>1, <1>10 DEF TreeInv, Apart
  <2>2. ASSUME "categories" \notin raced', sess[s].to # NoCategory
        PROVE  \E U \in SUBSET Existing' :
                 /\ sess[s].to \in U /\ sess[s].category \notin U
                 /\ \A d \in U : parent'[d] \in U \cup {NoCategory}
    <3>1. PICK U \in SUBSET Existing : /\ sess[s].to \in U /\ sess[s].category \notin U
                                           /\ \A d \in U : parent[d] \in U \cup {NoCategory}
      BY <1>1, <1>10, <2>2 DEF TreeInv, Apart
    <3>2. \A d \in U : parent'[d] = parent[d] BY <1>6
    <3> QED BY <1>5, <3>1, <3>2
  <2> QED BY <1>1, <1>5, <2>1, <2>2
<1> QED BY <1>7, <1>8, <1>9, <1>10 DEF TreeInv, Apart

\* A move closes no cycle: with one, the categories on it that have p's ancestors among
\* them would have been a cycle before.
LEMMA TreeMove ==
  ASSUME TreeInv, NEW s \in Sessions, update_category(s)
  PROVE  TreeInv'
<1>1. StepOf(s, {"categories", "attributes", "none"})
  BY TaxonomySteps DEF TreeInv, Apart, Taxonomy
<1>2. /\ sess[s].op = "move" /\ parent' = [parent EXCEPT ![sess[s].category] = sess[s].to]
      /\ sess' = [sess EXCEPT ![s] = Free] /\ raced' = raced
  BY DEF update_category, Commit
<1> DEFINE c == sess[s].category
           p == sess[s].to
<1>3. c \in Existing /\ p \in Existing \cup {NoCategory} BY <1>2 DEF TreeInv, Apart
<1>4. NoCategory \notin Categories /\ Absent \notin Categories /\ NoCategory # Absent
  BY CategoriesAssumed
<1>5. DOMAIN parent = Categories /\ Hung BY DEF TreeInv, Apart
<1>6. Existing' = Existing BY <1>2, <1>3, <1>4, <1>5 DEF Existing
<1>7. parent'[c] = p /\ \A d \in Existing \ {c} : parent'[d] = parent[d]
  BY <1>2, <1>3, <1>5 DEF Existing
<1>8. Hung' BY <1>3, <1>5, <1>6, <1>7 DEF Hung
<1>9. ASSUME "categories" \notin raced' PROVE Rooted'
  <2>1. Rooted BY <1>2, <1>9 DEF TreeInv, Apart
  <2> SUFFICES ASSUME NEW S \in SUBSET Existing, S # {}, \A d \in S : parent'[d] \in S
        PROVE FALSE
    BY <1>6 DEF Rooted
  <2>2. CASE c \notin S BY <1>7, <2>1, <2>2 DEF Rooted
  <2>3. CASE c \in S
    <3>1. p \in S BY <1>7, <2>3
    <3>2. p # NoCategory BY <1>4, <3>1 DEF Existing
    <3>3. PICK U \in SUBSET Existing : /\ p \in U /\ c \notin U
                                           /\ \A d \in U : parent[d] \in U \cup {NoCategory}
      BY <1>2, <1>9, <3>2 DEF TreeInv, Apart
    <3> DEFINE R == S \cap U
    <3>4. R \subseteq Existing /\ R # {} BY <3>1, <3>3
    <3>5. ASSUME NEW d \in R PROVE parent[d] \in R
      <4>1. parent[d] \in S BY <1>7, <3>3
      <4>2. parent[d] # NoCategory BY <1>4, <4>1 DEF Existing
      <4> QED BY <3>3, <4>1, <4>2
    <3> QED BY <2>1, <3>4, <3>5 DEF Rooted
  <2> QED BY <2>2, <2>3
<1>10. DOMAIN parent' = Categories BY <1>2, <1>5
<1>11. RequestsInv' /\ \A t \in Sessions : t # s => sess'[t] = sess[t] BY <1>1 DEF StepOf
<1>12. /\ sess'[s].op = "none"
       /\ \A t \in Sessions : sess[t].op = "move" => sess[t].topic = "categories"
  BY <1>2 DEF TreeInv, Apart, RequestsInv, TopicOf, Free
<1>13. ASSUME NEW t \in Sessions, sess'[t].op = "move"
       PROVE  sess'[t].category \in Existing' /\ sess'[t].to \in Existing' \cup {NoCategory}
              /\ "categories" \in raced'
  <2>1. t # s /\ sess'[t] = sess[t] BY <1>11, <1>12, <1>13
  <2>2. "categories" \in raced
    BY <1>2, <1>12, <1>13, <2>1 DEF TreeInv, Apart, RequestsInv, Topics
  <2> QED BY <1>2, <1>6, <1>13, <2>1, <2>2 DEF TreeInv, Apart
<1> QED BY <1>8, <1>9, <1>10, <1>11, <1>13 DEF TreeInv, Apart

\* The check of a move finds the category outside the ancestors of its new parent.
LEMMA TreeBeginMove ==
  ASSUME TreeInv, NEW s \in Sessions, Taxonomy(s),
         NEW c, NEW p, BeginMove(s, c, p)
  PROVE  TreeInv'
<1>1. StepOf(s, {"categories", "attributes", "none"}) BY TaxonomySteps DEF TreeInv, Apart
<1>2. /\ c \in Existing /\ p \in Existing \cup {NoCategory} /\ parent' = parent
      /\ p # NoCategory => ~_is_descendant(p, c)
      /\ sess'[s].op = "move" /\ sess'[s].category = c /\ sess'[s].to = p
  BY DEF BeginMove, Begin, treeVars, TreeInv, RequestsInv
<1>3. Existing' = Existing BY <1>2 DEF Existing
<1>4. Hung' /\ (Rooted => Rooted') /\ Hung BY <1>2, <1>3 DEF TreeInv, Apart, Hung, Rooted
<1>5. RequestsInv' /\ raced \subseteq raced' /\ \A t \in Sessions : t # s => sess'[t] = sess[t]
  BY <1>1 DEF StepOf
<1>6. ASSUME p # NoCategory
      PROVE \E U \in SUBSET Existing : /\ p \in U /\ c \notin U
                                           /\ \A d \in U : parent[d] \in U \cup {NoCategory}
  <2>1. p \in Existing /\ c \notin Above(p) BY <1>2, <1>6 DEF _is_descendant
  <2> QED BY <1>4, <2>1, AboveIsClosed
<1>7. DOMAIN parent' = Categories BY <1>2 DEF TreeInv, Apart
<1>8. ASSUME NEW t \in Sessions, sess'[t].op = "move"
      PROVE  /\ sess'[t].category \in Existing'
             /\ sess'[t].to \in Existing' \cup {NoCategory}
             /\ "categories" \notin raced' /\ sess'[t].to # NoCategory =>
                  \E U \in SUBSET Existing' :
                     /\ sess'[t].to \in U /\ sess'[t].category \notin U
                     /\ \A d \in U : parent'[d] \in U \cup {NoCategory}
  <2>1. CASE t = s BY <1>2, <1>3, <1>6, <2>1
  <2>2. CASE t # s BY <1>2, <1>3, <1>5, <1>8, <2>2 DEF TreeInv, Apart
  <2> QED BY <2>1, <2>2
<1> QED BY <1>4, <1>5, <1>7, <1>8 DEF TreeInv, Apart

LEMMA TreeNext == TreeInv /\ [CatalogueNext]_catalogueVars => TreeInv'
<1> SUFFICES ASSUME TreeInv, [CatalogueNext]_catalogueVars PROVE TreeInv' OBVIOUS
<1>1. RequestsInv BY DEF TreeInv, Apart
<1>2. CASE UNCHANGED catalogueVars BY <1>1, <1>2, TreeFrame DEF catalogueVars, RequestsInv
<1>3. CASE OneStep
  <2>1. RequestsInv' /\ raced \subseteq raced' /\ sess' = sess BY <1>1, <1>3, OneStepSteps
  <2>2. CASE parent' = parent BY <2>1, <2>2, TreeFrame
  <2>3. CASE \E c \in Categories, p \in Categories \cup {NoCategory} : create_category(c, p)
    BY <2>1, <2>3, TreeCreate
  <2>4. \/ parent' = parent
        \/ \E c \in Categories, p \in Categories \cup {NoCategory} : create_category(c, p)
    <3>1. ASSUME NEW d, NEW k, create_product(d, k) PROVE parent' = parent
      BY <3>1 DEF create_product, treeVars
    <3>2. ASSUME NEW s, NEW a, NEW p, upsert_product_supplier(s, a, p) PROVE parent' = parent
      BY <3>2 DEF upsert_product_supplier, treeVars
    <3>3. ASSUME NEW s, update_supplier(s)
          PROVE parent' = parent BY <3>3 DEF update_supplier, treeVars
    <3>4. ASSUME NEW p, OdooCatalogueEvent(p) PROVE parent' = parent
      BY <3>4 DEF OdooCatalogueEvent, treeVars
    <3>5. CASE DeadLetter BY <3>5 DEF DeadLetter, treeVars
    <3> QED BY <1>3, <3>1, <3>2, <3>3, <3>4, <3>5 DEF OneStep
  <2> QED BY <2>2, <2>3, <2>4
<1>4. ASSUME NEW s \in Sessions, Publication(s) \/ Media(s) \/ Search(s) PROVE TreeInv'
  BY <1>1, <1>4, PublicationSteps, MediaSteps, SearchSteps, TreeFrame
     DEF StepOf, treeVars, RequestsInv, TopicOf
<1>5. ASSUME NEW s \in Sessions, Rollback(s) PROVE TreeInv'
  BY <1>1, <1>5, Rollbacks, TreeFrame DEF Free, treeVars, RequestsInv
<1>6. ASSUME NEW s \in Sessions, Taxonomy(s) PROVE TreeInv'
  <2>1. StepOf(s, {"categories", "attributes", "none"}) /\ DOMAIN sess = Sessions
    BY <1>1, <1>6, TaxonomySteps DEF RequestsInv
  <2>2. ASSUME NEW c, NEW p, BeginMove(s, c, p) PROVE TreeInv' BY <1>6, <2>2, TreeBeginMove
  <2>3. CASE update_category(s) BY <2>3, TreeMove
  <2> USE DEF StepOf, Begin, Commit, Free, treeVars
  <2>4. ASSUME NEW t, BeginDefine(s, t)
        PROVE TreeInv' BY <2>1, <2>4, TreeFrame DEF BeginDefine
  <2>5. CASE update_attribute_definition(s)
    BY <2>1, <2>5, TreeFrame DEF update_attribute_definition
  <2>6. ASSUME NEW v, BeginReplace(s, v)
        PROVE TreeInv' BY <2>1, <2>6, TreeFrame DEF BeginReplace
  <2>7. CASE replace_product_attributes(s)
    BY <2>1, <2>7, TreeFrame DEF replace_product_attributes
  <2> QED BY <1>6, <2>2, <2>3, <2>4, <2>5, <2>6, <2>7 DEF Taxonomy
<1> QED BY <1>2, <1>3, <1>4, <1>5, <1>6, NextSplits

\* The storefront's tree shows every category there is, for any finite set of them, until
\* two moves overlap (catalog_service.py:295, :857; products/service.py:157): no sequence
\* of creations and moves that do not closes a cycle, which no level would ever reach.
THEOREM TheTreeShowsEveryCategory == CatalogueSpec => []CategoriesFormATree
<1>1. CatalogueInit => TreeInv BY TreeInit
<1>2. TreeInv /\ [CatalogueNext]_catalogueVars => TreeInv' BY TreeNext
<1>3. TreeInv => CategoriesFormATree BY TreeShowsAll DEF TreeInv, CategoriesFormATree
<1> QED BY <1>1, <1>2, <1>3, PTL DEF CatalogueSpec
===============================================================================
