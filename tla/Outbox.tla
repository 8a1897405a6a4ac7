-------------------------------- MODULE Outbox --------------------------------
(***************************************************************************)
(* The transactional outbox: shared/outbox.py writes a row in the business *)
(* transaction, shared/outbox_tasks.py leases due rows to Celery workers   *)
(* that hand them to the broker and then record the outcome.               *)
(*                                                                         *)
(* Granularity.  _claim_due_events locks the rows it changes, so it is one *)
(* step.  The _mark_* transactions do NOT lock: db.get reads the row and   *)
(* the flush writes it later, so each mark is a read step and a write      *)
(* step, and another worker may run between them.                          *)
(*                                                                         *)
(* Time is abstracted to two bits of each row: whether available_at has    *)
(* been reached, and whether locked_until has passed.                      *)
(***************************************************************************)
EXTENDS Naturals, FiniteSets

CONSTANTS
    Events,               \* outbox rows that may be written
    Workers,              \* concurrent dispatch_pending_outbox tasks
    EventType,            \* event -> domain event class name
    SourceContext,        \* event -> "odoo" or "local"
    ValidPayload,         \* event -> BOOLEAN: the payload carries a positive id
    MAX_OUTBOX_ATTEMPTS,  \* outbox_tasks.py:35
    BatchSize,            \* rows leased by one claim (DEFAULT_BATCH_SIZE)
    MaxCrashes,           \* bound: workers that die
    MaxOverruns           \* bound: leases that lapse under a live worker

ASSUME OutboxAssumption ==
    /\ IsFiniteSet(Events)
    /\ MAX_OUTBOX_ATTEMPTS \in Nat \ {0}
    /\ BatchSize \in Nat \ {0}
    /\ MaxCrashes \in Nat
    /\ MaxOverruns \in Nat
    /\ ValidPayload \in [Events -> BOOLEAN]

VARIABLES
    status,     \* OutboxEvent.status; "absent" and "flushed" precede the commit
    attempts,   \* OutboxEvent.attempts
    due,        \* available_at <= now
    lease,      \* locked_until: "null", "live" (in the future) or "lapsed"
    batch,      \* worker -> events it claimed and has not looked at yet
    job,        \* worker -> the event in hand and the outcome to record
    handed,     \* event -> times the broker accepted its task
    crashes, overruns

rowVars == <<status, attempts, due, lease>>
vars == <<status, attempts, due, lease, batch, job, handed, crashes, overruns>>

Settled == {"dispatched", "skipped", "dead_letter"}
Visible == {"pending", "processing"} \cup Settled
NoJob   == [ev |-> "none", outcome |-> "none", seen |-> FALSE]

OdooOrderEvents   == {"OrderCreated", "OrderConfirmed", "PaymentSucceeded"}
AlgoliaProductEvents == {"ProductCreated", "ProductUpdated", "InventoryUpdated"}

\* Whitelisted hand-off target; an event that came from Odoo is never echoed there.
resolve_outbox_route(e) ==
    IF EventType[e] \in OdooOrderEvents /\ SourceContext[e] # "odoo" THEN "odoo"
    ELSE IF EventType[e] \in AlgoliaProductEvents THEN "algolia"
    ELSE "none"

Deliverable(e) == resolve_outbox_route(e) # "none" /\ ValidPayload[e]

Init == /\ status = [e \in Events |-> "absent"]
        /\ attempts = [e \in Events |-> 0]
        /\ due = [e \in Events |-> FALSE]
        /\ lease = [e \in Events |-> "null"]
        /\ batch = [w \in Workers |-> {}]
        /\ job = [w \in Workers |-> NoJob]
        /\ handed = [e \in Events |-> 0]
        /\ crashes = 0
        /\ overruns = 0

-------------------------------------------------------------------------------
(* The business transaction.  A definition named faulty_* is no part of the    *)
(* code: it is the definition after it with a plausible mistake, and shows     *)
(* that a property notices the mistake.                                        *)

\* OutboxService.enqueue: the row is flushed inside the caller's transaction.
enqueue(e) ==
    /\ status[e] = "absent"
    /\ status' = [status EXCEPT ![e] = "flushed"]
    /\ UNCHANGED <<attempts, due, lease, batch, job, handed, crashes, overruns>>

\* get_db commits, or rolls back and the row never existed.  The wake-up that
\* follows a commit may be lost; the beat schedule makes Claim possible anyway.
get_db(e) ==
    /\ status[e] = "flushed"
    /\ \/ /\ status' = [status EXCEPT ![e] = "pending"]
          /\ due' = [due EXCEPT ![e] = TRUE]
       \/ /\ status' = [status EXCEPT ![e] = "absent"]
          /\ UNCHANGED due
    /\ UNCHANGED <<attempts, lease, batch, job, handed, crashes, overruns>>

-------------------------------------------------------------------------------
(* The dispatcher *)

Idle(w) == batch[w] = {} /\ job[w] = NoJob

faulty_IsDue(e) == status[e] = "pending" /\ due[e]

IsDue(e) == \/ status[e] = "pending" /\ due[e]
            \/ status[e] = "processing" /\ lease[e] = "lapsed"

\* The oldest rows come first; which those are is left open.
_claim_due_events(w) ==
    /\ Idle(w)
    /\ \E S \in SUBSET {e \in Events : IsDue(e)} :
         /\ S # {}
         /\ \/ Cardinality(S) = BatchSize
            \/ Cardinality(S) < BatchSize /\ S = {e \in Events : IsDue(e)}
         /\ status' = [e \in Events |-> IF e \in S THEN "processing" ELSE status[e]]
         /\ attempts' = [e \in Events |-> IF e \in S THEN attempts[e] + 1 ELSE attempts[e]]
         /\ lease' = [e \in Events |-> IF e \in S THEN "live" ELSE lease[e]]
         /\ batch' = [batch EXCEPT ![w] = S]
    /\ UNCHANGED <<due, job, handed, crashes, overruns>>

Take(w, e, outcome) ==
    /\ job[w] = NoJob
    /\ e \in batch[w]
    /\ batch' = [batch EXCEPT ![w] = @ \ {e}]
    /\ job' = [job EXCEPT ![w] = [ev |-> e, outcome |-> outcome, seen |-> FALSE]]
    /\ UNCHANGED <<status, attempts, due, lease, crashes, overruns>>

\* No route, or args_from_payload raised ValueError.
Rejection(e) == IF resolve_outbox_route(e) = "none" THEN "skipped" ELSE "dead_letter"

\* Nothing is sent.
RejectEvent(w, e) ==
    /\ Take(w, e, Rejection(e))
    /\ ~Deliverable(e)
    /\ UNCHANGED handed

faulty_send_task(w, e) ==
    /\ Deliverable(e)
    /\ \/ Take(w, e, "dispatched") /\ handed' = [handed EXCEPT ![e] = @ + 1]
       \/ Take(w, e, "dispatched") /\ UNCHANGED handed

\* send_task returns, or raises before or after the broker took the message.
send_task(w, e) ==
    /\ Deliverable(e)
    /\ \/ Take(w, e, "dispatched") /\ handed' = [handed EXCEPT ![e] = @ + 1]
       \/ Take(w, e, "failed") /\ UNCHANGED handed
       \/ Take(w, e, "failed") /\ handed' = [handed EXCEPT ![e] = @ + 1]

faulty_Exhausted(e) == attempts[e] + 1 >= MAX_OUTBOX_ATTEMPTS

Exhausted(e) == attempts[e] >= MAX_OUTBOX_ATTEMPTS

\* _mark_dispatch_failure decides between another attempt and giving up.
MarkedAs(w) == IF job[w].outcome # "failed" THEN job[w].outcome
               ELSE IF Exhausted(job[w].ev) THEN "dead_letter" ELSE "pending"

\* db.get at the start of _mark_dispatched/_skipped/_dead_letter/_dispatch_failure:
\* a row that is no longer processing is left alone.
ReadRow(w) ==
    LET e == job[w].ev
    IN /\ job[w] # NoJob
       /\ ~job[w].seen
       /\ job' = [job EXCEPT ![w] =
                    IF status[e] # "processing" THEN NoJob
                    ELSE [ev |-> e, outcome |-> MarkedAs(w), seen |-> TRUE]]
       /\ UNCHANGED <<status, attempts, due, lease, batch, handed, crashes, overruns>>

Unlocked(e) == [lease EXCEPT ![e] = "null"]

\* The flush of the same transaction; a retried row waits for its back-off.
WriteRow(w) ==
    LET e == job[w].ev
    IN /\ job[w] # NoJob
       /\ job[w].seen
       /\ status' = [status EXCEPT ![e] = job[w].outcome]
       /\ lease' = Unlocked(e)
       /\ due' = IF job[w].outcome = "pending" THEN [due EXCEPT ![e] = FALSE] ELSE due
       /\ job' = [job EXCEPT ![w] = NoJob]
       /\ UNCHANGED <<attempts, batch, handed, crashes, overruns>>

-------------------------------------------------------------------------------
(* The environment *)

\* A worker process dies: its batch and its open transaction are gone.
Crash(w) ==
    /\ crashes < MaxCrashes
    /\ ~Idle(w)
    /\ crashes' = crashes + 1
    /\ batch' = [batch EXCEPT ![w] = {}]
    /\ job' = [job EXCEPT ![w] = NoJob]
    /\ UNCHANGED <<status, attempts, due, lease, handed, overruns>>

HeldBy(w, e) == e \in batch[w] \/ job[w].ev = e

\* LEASE_SECONDS go by.  A live worker that is still holding the row has been
\* slow, which MaxOverruns bounds.
LeaseLapses(e) ==
    /\ lease[e] = "live"
    /\ lease' = [lease EXCEPT ![e] = "lapsed"]
    /\ IF \E w \in Workers : HeldBy(w, e)
       THEN overruns < MaxOverruns /\ overruns' = overruns + 1
       ELSE UNCHANGED overruns
    /\ UNCHANGED <<status, attempts, due, batch, job, handed, crashes>>

\* _retry_delay_seconds go by.
BackoffElapses(e) ==
    /\ status[e] = "pending"
    /\ ~due[e]
    /\ due' = [due EXCEPT ![e] = TRUE]
    /\ UNCHANGED <<status, attempts, lease, batch, job, handed, crashes, overruns>>

Work(w) == \/ \E e \in Events : RejectEvent(w, e) \/ send_task(w, e)
           \/ ReadRow(w)
           \/ WriteRow(w)

Next == \/ \E e \in Events : enqueue(e) \/ get_db(e) \/ LeaseLapses(e) \/ BackoffElapses(e)
        \/ \E w \in Workers : _claim_due_events(w) \/ Work(w) \/ Crash(w)

\* celery beat starts the dispatcher every 15 s; a live worker goes through its
\* batch; the clock advances.  Nothing is assumed of the broker.
Fairness == /\ \A w \in Workers : WF_vars(_claim_due_events(w)) /\ WF_vars(Work(w))
            /\ \A e \in Events : WF_vars(LeaseLapses(e)) /\ WF_vars(BackoffElapses(e))

Spec == Init /\ [][Next]_vars
FairSpec == Spec /\ Fairness

-------------------------------------------------------------------------------
(* Properties *)

\* Every variable keeps the type the columns of elitedom_outbox_event and the
\* locals of dispatch_pending_outbox have.
TypeOK ==
    /\ status \in [Events -> {"absent", "flushed"} \cup Visible]
    /\ attempts \in [Events -> Nat]
    /\ due \in [Events -> BOOLEAN]
    /\ lease \in [Events -> {"null", "live", "lapsed"}]
    /\ batch \in [Workers -> SUBSET Events]
    /\ job \in [Workers ->
          [ev : Events \cup {"none"},
           outcome : Settled \cup {"none", "failed", "pending"}, seen : BOOLEAN]]
    /\ handed \in [Events -> Nat]
    /\ crashes \in 0 .. MaxCrashes
    /\ overruns \in 0 .. MaxOverruns

\* A row says dispatched only if the broker really took its task, whatever old
\* claims are still being worked on (_mark_dispatched after send_task).  The part of
\* ImplementsHandoff that is about a single state.
DispatchedWasHanded ==
    \A e \in Events : status[e] = "dispatched" => handed[e] > 0

\* A deliverable event is given up only once it has been claimed
\* MAX_OUTBOX_ATTEMPTS times (_mark_dispatch_failure).
GivesUpOnlyWhenExhausted ==
    \A e \in Events :
        status[e] = "dead_letter" /\ Deliverable(e) => attempts[e] >= MAX_OUTBOX_ATTEMPTS

\* A leased row always carries a locked_until: without one no claim could ever
\* pick it up again after its worker died (_claim_due_events, mark transactions).
LeasedRowsCanBeReclaimed ==
    \A e \in Events : status[e] = "processing" <=> lease[e] # "null"

\* No event of a transaction that rolled back or is still open is handed over,
\* and none of an event the routes do not whitelist.
HandedOnlyAfterCommit ==
    \A e \in Events : handed[e] > 0 => status[e] \in Visible /\ Deliverable(e)

\* What a worker has in hand agrees with the rows, however old its claim is: the
\* event was committed; it will record "dispatched" only after a hand-off, and
\* give a deliverable event up only when its attempts are used up.
WorkInHand ==
    /\ \A w \in Workers : \A e \in batch[w] : status[e] \in Visible
    /\ \A w \in Workers : job[w] # NoJob =>
          LET e == job[w].ev
              out == job[w].outcome
          IN /\ e \in Events
             /\ status[e] \in Visible
             /\ out \in Settled \cup {IF job[w].seen THEN "pending" ELSE "failed"}
             /\ out = "dispatched" => handed[e] > 0
             /\ out = "dead_letter" /\ Deliverable(e) => attempts[e] >= MAX_OUTBOX_ATTEMPTS

\* A committed event ends dispatched, skipped or dead-lettered, whatever workers
\* die, however late the marks of an old claim arrive.
EveryEventSettles ==
    \A e \in Events : status[e] \in {"pending", "processing"} ~> status[e] \in Settled

(* The abstract promise *)
AbsLedger == [e \in Events |->
                CASE status[e] \in {"absent", "flushed"} -> "none"
                  [] status[e] \in {"pending", "processing"} -> "owed"
                  [] status[e] = "dispatched" -> "acked"
                  [] OTHER -> "abandoned"]
Abs == INSTANCE AtLeastOnceHandoff
         WITH ledger <- AbsLedger, delivered <- {e \in Events : handed[e] > 0}

\* The outbox keeps the safety half of AtLeastOnceHandoff.
ImplementsHandoff == Abs!AbsSafety
===============================================================================
